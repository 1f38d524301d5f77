--------------------------- MODULE DeliveryLog_proofs ---------------------------
(***************************************************************************)
(* The delivery log under the bus that records into it and the execution    *)
(* that records the same events again: for every set of appenders and       *)
(* readers, and every lag, the log's numbers have no hole, a reader that    *)
(* resumes is given every envelope once and in order, and what the session  *)
(* records stands in the order it published it.                             *)
(***************************************************************************)
EXTENDS EventBus_proofs, WellFoundedInduction

TxRec == [pc : {"none", "checking", "numbering", "inserting", "done", "failed"},
          key : Nat, next : Nat]
ReaderRec == [pc : {"away", "reading", "streaming"}, cursor : Nat, highest : Nat,
              history : Seq(Nat), queue : Seq(Nat)]
RowRec == [seq : Nat \ {0}, key : Nat, by : Appenders]

Top == Cardinality(rows)

\* A numbered append found the number after the last, or one taken since.
LogShape ==
    /\ rows \subseteq RowRec /\ IsFiniteSet(rows) /\ recorded = 1 .. Top
    /\ tx \in [Appenders -> TxRec] /\ reader \in [Readers -> ReaderRec]
    /\ got \in [Readers -> Seq(Nat)] /\ cuts \in 0 .. MaxCuts
    /\ \A a \in Appenders : /\ tx[a].next <= Top + 1
                            /\ tx[a].pc = "inserting" => tx[a].next > 0

\* Where the queue of a connection begins, behind the cursor of its poll.
behind(at) == at.cursor - Len(at.queue)

\* What a reader was given, has read and has queued follow each other without
\* a hole: they overlap up to `highest`, where the queue is skipped.
Joins(at, given, last) ==
    /\ \A i \in DOMAIN given : given[i] = i
    /\ Len(given) <= last /\ at.cursor <= last
    /\ Len(at.queue) <= MaxLag /\ behind(at) >= 0
    /\ \A i \in DOMAIN at.queue : at.queue[i] = behind(at) + i
    /\ at.pc = "away" => at.queue = <<>>
    /\ at.pc = "streaming" =>
        /\ at.highest <= last
        /\ \A i \in DOMAIN at.history : at.history[i] = Len(given) + i
        /\ Len(given) + Len(at.history) =
                IF at.highest > behind(at) THEN at.highest ELSE behind(at)
        /\ at.history # <<>> => behind(at) <= at.highest

Joined == \A r \in Readers : Joins(reader[r], got[r], Top)

\* What the session's fibres append is the envelope they published last, while
\* its sink is running; what the other execution appends is its next one.
Recording ==
    /\ \A f \in Fibres \ {Closer} :
        tx[f].pc # "none" => At(f, "sinking") /\ tx[f].key = fibre[f].seq
    /\ \A x \in rows : x.by \in Fibres => x.key <= sequence
    /\ replayed \in 0 .. MaxSequence /\ watched \in {"bus", "log"}
    /\ tx[Replayer].pc # "none" => replayed < MaxSequence

LogIInv == LogShape /\ Joined /\ Recording /\ LogFollowsTheBus

-----------------------------------------------------------------------------
(* What a reader of the log reads *)

\* The least element of a set of numbers: the principle the counting below
\* rests on, taken from the well-foundedness of < over Nat.
LEMMA Least ==
  ASSUME NEW T \in SUBSET Nat, T # {}
  PROVE  \E x \in T : \A y \in T : x <= y
<1> DEFINE R == OpToRel(<, Nat)
<1>1. IsWellFoundedOn(R, Nat)
  BY NatLessThanWellFounded
<1>2. R = { pair \in Nat \X Nat : pair[1] < pair[2] }
  BY Zenon DEF OpToRel
<1> HIDE DEF R
<1>3. PICK x \in T : \A y \in T : ~(<<y, x>> \in R)
  BY <1>1, WFMin
<1>4. ASSUME NEW y \in T PROVE x <= y
  <2>1. <<y, x>> \in Nat \X Nat /\ <<y, x>>[1] = y /\ <<y, x>>[2] = x
    BY <1>4
  <2>2. ~(y < x)
    BY <1>2, <1>3, <2>1
  <2>3. QED
    BY <2>2
<1>5. QED
  BY <1>4

\* A strictly increasing sequence of k numbers among c + 1 .. c + k is their
\* interval: it can neither fall behind its place nor run ahead of it.
LEMMA IncreasingIsInterval ==
  ASSUME NEW c \in Nat, NEW k \in Nat, NEW s \in [1 .. k -> c + 1 .. c + k],
         \A i, j \in 1 .. k : i < j => s[i] < s[j]
  PROVE  \A i \in 1 .. k : s[i] = c + i
<1>1. \A i \in 1 .. k : s[i] \in Nat /\ c + 1 <= s[i] /\ s[i] <= c + k
  OBVIOUS
<1>2. \A i \in 1 .. k : s[i] >= c + i
  <2> DEFINE T == { i \in 1 .. k : s[i] < c + i }
  <2>1. T \in SUBSET Nat
    OBVIOUS
  <2>2. ASSUME T # {} PROVE FALSE
    <3>1. PICK i \in T : \A y \in T : i <= y
      BY <2>1, <2>2, Least
    <3>2. i \in 1 .. k /\ s[i] < c + i /\ i # 1
      BY <1>1
    <3>3. i - 1 \in 1 .. k /\ i - 1 \notin T
      BY <3>1, <3>2
    <3>4. s[i - 1] >= c + (i - 1) /\ s[i - 1] < s[i]
      BY <1>1, <3>2, <3>3
    <3>5. QED
      BY <1>1, <3>2, <3>3, <3>4
  <2>3. QED
    BY <1>1, <2>2
<1>3. \A i \in 1 .. k : s[i] <= c + i
  <2> DEFINE T == { d \in 0 .. k - 1 : s[k - d] > c + (k - d) }
  <2>1. T \in SUBSET Nat
    OBVIOUS
  <2>2. ASSUME T # {} PROVE FALSE
    <3>1. PICK d \in T : \A y \in T : d <= y
      BY <2>1, <2>2, Least
    <3>2. d \in 0 .. k - 1 /\ s[k - d] > c + (k - d) /\ k - d \in 1 .. k /\ d # 0
      BY <1>1
    <3>3. d - 1 \in 0 .. k - 1 /\ k - (d - 1) = (k - d) + 1 /\ (k - d) + 1 \in 1 .. k
      BY <3>2
    <3>4. d - 1 \notin T
      <4>1. ~(d <= d - 1)
        BY <3>2
      <4> HIDE DEF T
      <4>2. QED
        BY <3>1, <4>1
    <3>5. ~(s[(k - d) + 1] > c + ((k - d) + 1)) /\ s[k - d] < s[(k - d) + 1]
      BY <3>2, <3>3, <3>4
    <3>6. s[k - d] \in Nat /\ s[(k - d) + 1] \in Nat
      BY <1>1, <3>2, <3>3
    <3>7. QED
      BY <3>2, <3>5, <3>6
  <2>3. ASSUME NEW i \in 1 .. k PROVE s[i] <= c + i
    <3>1. k - i \in 0 .. k - 1 /\ k - (k - i) = i
      OBVIOUS
    <3>2. k - i \notin T
      BY <2>2, Zenon
    <3>3. ~(s[i] > c + i)
      BY <3>1, <3>2
    <3>4. QED
      BY <1>1, <3>3
  <2>4. QED
    BY <2>3
<1>4. ASSUME NEW i \in 1 .. k PROVE s[i] = c + i
  <2>1. s[i] \in Nat /\ s[i] >= c + i /\ s[i] <= c + i /\ i \in Nat
    BY <1>1, <1>2, <1>3
  <2>2. QED
    BY <2>1
<1>5. QED
  BY <1>4

LEMMA TopIsNat == ASSUME LogShape PROVE Top \in Nat
BY FS_CardinalityType DEF LogShape, Top

LEMMA MaxIsTop == ASSUME LogShape PROVE maxSequence = Top
<1>1. Top \in Nat /\ recorded \union {0} = 0 .. Top
  BY TopIsNat DEF LogShape
<1>2. \A x \in 0 .. Top : (\A y \in 0 .. Top : x >= y) <=> x = Top
  BY <1>1
<1>3. Max(0 .. Top) = Top
  BY <1>1, <1>2 DEF Max
<1>4. QED
  BY <1>1, <1>3 DEF maxSequence

\* What is read above a number is the interval of the numbers that follow it.
LEMMA AboveIsInterval ==
  ASSUME LogShape, NEW c \in Nat, c <= Top
  PROVE  /\ above(c) \in Seq(Nat) /\ Len(above(c)) = Top - c
         /\ \A i \in 1 .. Top - c : above(c)[i] = c + i
<1> DEFINE k == Top - c
           S == { n \in recorded : n > c }
           sorted(s) == \A i, j \in DOMAIN s : i < j => s[i] < s[j]
<1>1. Top \in Nat /\ k \in Nat /\ S = c + 1 .. c + k
  BY TopIsNat DEF LogShape
<1> HIDE DEF k, S
<1>2. Cardinality(S) = k
  <2>1. c + 1 \in Int /\ c + k \in Int
    BY <1>1
  <2>2. Cardinality(c + 1 .. c + k) = IF c + 1 > c + k THEN 0 ELSE (c + k) - (c + 1) + 1
    BY <2>1, FS_Interval
  <2>3. QED
    BY <1>1, <2>2
<1>3. above(c) = CHOOSE s \in [1 .. k -> S] : sorted(s)
  BY <1>2 DEF above, ascending, S
<1>4. [i \in 1 .. k |-> c + i] \in [1 .. k -> S] /\ sorted([i \in 1 .. k |-> c + i])
  BY <1>1
<1>5. \E s \in [1 .. k -> S] : sorted(s)
  BY <1>4
<1>6. above(c) \in [1 .. k -> S] /\ sorted(above(c))
  BY <1>3, <1>5
<1>7. \A i, j \in 1 .. k : i < j => above(c)[i] < above(c)[j]
  BY <1>6
<1>8. \A i \in 1 .. k : above(c)[i] = c + i
  BY <1>1, <1>6, <1>7, IncreasingIsInterval
<1>9. above(c) \in [1 .. k -> Nat]
  BY <1>1, <1>6
<1>10. QED
  BY <1>1, <1>8, <1>9 DEF k

-----------------------------------------------------------------------------
(* The steps of a reader *)

\* A step of one reader disturbs only what that reader was given and will be.
LEMMA ReaderStep ==
  ASSUME LogIInv, NEW r \in Readers, NEW to \in ReaderRec, NEW given \in Seq(Nat),
         reader' = [reader EXCEPT ![r] = to], got' = [got EXCEPT ![r] = given],
         Joins(to, given, Top), cuts' \in 0 .. MaxCuts,
         UNCHANGED <<rows, tx, busVars, replayed, watched>>
  PROVE  LogIInv'
<1>1. /\ reader' \in [Readers -> ReaderRec] /\ got' \in [Readers -> Seq(Nat)]
      /\ \A q \in Readers : /\ reader'[q] = IF q = r THEN to ELSE reader[q]
                            /\ got'[q] = IF q = r THEN given ELSE got[q]
  BY DEF LogIInv, LogShape
<1>2. Top' = Top /\ recorded' = recorded
  BY DEF Top, recorded
<1>3. LogShape'
  BY <1>1, <1>2 DEF LogIInv, LogShape
<1>4. \A q \in Readers : Joins(reader'[q], got'[q], Top)
  BY <1>1 DEF LogIInv, Joined
<1>5. Joined'
  <2>1. \A q \in Readers : Joins(reader'[q], got'[q], Top')
    BY <1>2, <1>4
  <2>2. QED
    BY <2>1 DEF Joined
<1>6. Recording' /\ LogFollowsTheBus'
  BY DEF LogIInv, Recording, LogFollowsTheBus, busVars, At
<1>7. QED
  BY <1>3, <1>5, <1>6 DEF LogIInv

LEMMA ConnectInv ==
  ASSUME LogIInv, NEW r \in Readers, Connect(r), UNCHANGED <<busVars, replayed, watched>>
  PROVE  LogIInv'
<1> DEFINE at == reader[r]
           half == [at EXCEPT !.pc = "reading"]
           to == [half EXCEPT !.cursor = maxSequence]
<1>1. /\ at \in ReaderRec /\ got[r] \in Seq(Nat) /\ Joins(at, got[r], Top) /\ at.pc = "away"
      /\ Top \in Nat /\ maxSequence = Top /\ LogShape
  BY TopIsNat, MaxIsTop DEF LogIInv, LogShape, Joined, Connect
<1>2. to = [at EXCEPT !.pc = "reading", !.cursor = maxSequence]
  BY Zenon
<1>3. reader' = [reader EXCEPT ![r] = to]
  BY <1>1 DEF Connect, LogShape
<1>4. /\ to \in ReaderRec /\ to.pc = "reading" /\ to.cursor = Top /\ to.queue = <<>>
  BY <1>1 DEF ReaderRec, Joins
<1> HIDE DEF to
<1>5. Joins(to, got[r], Top)
  BY <1>1, <1>4 DEF Joins, behind
<1>6. got' = [got EXCEPT ![r] = got[r]]
  BY <1>1 DEF Connect, LogShape
<1>7. QED
  BY <1>1, <1>3, <1>4, <1>5, <1>6, ReaderStep DEF Connect, LogShape

LEMMA ReadHistoryInv ==
  ASSUME LogIInv, NEW r \in Readers, ReadHistory(r), UNCHANGED <<busVars, replayed, watched>>
  PROVE  LogIInv'
<1> DEFINE at == reader[r]
           h == above(lastGiven(r))
           highest == IF h = <<>> THEN lastGiven(r) ELSE Last(h)
           half == [at EXCEPT !.pc = "streaming"]
           more == [half EXCEPT !.history = h]
           to == [more EXCEPT !.highest = highest]
           g == Len(got[r])
<1>1. /\ at \in ReaderRec /\ got[r] \in Seq(Nat) /\ Joins(at, got[r], Top) /\ at.pc = "reading"
      /\ Top \in Nat /\ LogShape /\ g \in Nat /\ g <= Top
  BY TopIsNat DEF LogIInv, LogShape, Joined, ReadHistory, Joins
<1>2. lastGiven(r) = g
  BY <1>1 DEF lastGiven, Last, Joins
<1>3. /\ h \in Seq(Nat) /\ Len(h) = Top - g /\ \A i \in 1 .. Top - g : h[i] = g + i
  BY <1>1, <1>2, AboveIsInterval
<1>4. highest = Top
  <2>1. CASE h = <<>>
    BY <1>1, <1>2, <1>3, <2>1
  <2>2. CASE h # <<>>
    <3>1. Top - g \in 1 .. Top - g
      BY <1>1, <1>3, <2>2
    <3>2. h[Top - g] = g + (Top - g)
      BY <1>3, <3>1
    <3>3. Last(h) = h[Top - g]
      BY <1>3 DEF Last
    <3>4. QED
      BY <1>1, <2>2, <3>2, <3>3
  <2>3. QED
    BY <2>1, <2>2
<1>5. to = [at EXCEPT !.pc = "streaming", !.history = h, !.highest = highest]
  BY Zenon
<1>6. reader' = [reader EXCEPT ![r] = to]
  BY <1>1 DEF ReadHistory, LogShape
<1>7. /\ to \in ReaderRec /\ to.pc = "streaming" /\ to.cursor = at.cursor /\ to.queue = at.queue
      /\ to.history = h /\ to.highest = Top
  BY <1>1, <1>3, <1>4 DEF ReaderRec
<1> HIDE DEF to, h, highest
<1>8. DOMAIN h = 1 .. Top - g
  BY <1>3
<1>9. behind(to) = behind(at) /\ behind(at) <= Top /\ behind(at) \in Int
  BY <1>1, <1>7 DEF behind, Joins, ReaderRec
<1>10. Joins(to, got[r], Top)
  <2>1. /\ \A i \in DOMAIN got[r] : got[r][i] = i
        /\ at.cursor <= Top /\ Len(at.queue) <= MaxLag /\ behind(at) >= 0
        /\ \A i \in DOMAIN at.queue : at.queue[i] = behind(at) + i
    BY <1>1 DEF Joins
  <2>2. \A i \in DOMAIN to.history : to.history[i] = g + i
    BY <1>3, <1>7, <1>8
  <2>3. g + Len(to.history) = Top
    BY <1>1, <1>3, <1>7
  <2>4. Top = IF to.highest > behind(to) THEN to.highest ELSE behind(to)
    BY <1>1, <1>7, <1>9
  <2>5. Top <= Top /\ behind(to) <= Top
    BY <1>1, <1>9
  <2>6. \A i \in DOMAIN to.queue : to.queue[i] = behind(to) + i
    BY <1>7, <1>9, <2>1
  <2> HIDE DEF at, g
  <2>7. to.pc # "away"
    BY <1>7
  <2>8. QED
    BY <1>1, <1>7, <1>9, <2>1, <2>2, <2>3, <2>4, <2>5, <2>6, <2>7 DEF Joins, g
<1>11. got' = [got EXCEPT ![r] = got[r]]
  BY <1>1 DEF ReadHistory, LogShape
<1>12. QED
  BY <1>1, <1>6, <1>7, <1>10, <1>11, ReaderStep DEF ReadHistory, LogShape

LEMMA DisconnectedJoins ==
  ASSUME LogShape, NEW at, NEW given, Joins(at, given, Top)
  PROVE  Disconnected \in ReaderRec /\ Joins(Disconnected, given, Top)
<1>1. /\ Disconnected \in ReaderRec /\ Disconnected.pc = "away"
      /\ Disconnected.cursor = 0 /\ Disconnected.queue = <<>>
  BY DEF Disconnected, ReaderRec
<1>2. Top \in Nat /\ MaxLag \in Nat
  BY TopIsNat, LogAssumption
<1>3. DOMAIN <<>> = {} /\ Len(<<>>) = 0
  OBVIOUS
<1>4. QED
  BY <1>1, <1>2, <1>3 DEF Joins, behind

LEMMA Concatenated ==
  ASSUME NEW q \in Seq(Nat), NEW new \in Seq(Nat)
  PROVE  /\ q \o new \in Seq(Nat) /\ Len(q) \in Nat /\ Len(q \o new) = Len(q) + Len(new)
         /\ DOMAIN (q \o new) = 1 .. Len(q \o new)
OBVIOUS

\* Numbers that count up from b, without the first of them.
LEMMA Shifted ==
  ASSUME NEW s \in Seq(Nat), s # <<>>, NEW b \in Nat, \A i \in DOMAIN s : s[i] = b + i
  PROVE  /\ Head(s) = b + 1 /\ Tail(s) \in Seq(Nat)
         /\ Len(s) \in Nat \ {0} /\ Len(Tail(s)) = Len(s) - 1
         /\ \A i \in DOMAIN Tail(s) : Tail(s)[i] = (b + 1) + i
<1>1. /\ Tail(s) \in Seq(Nat) /\ Len(s) \in Nat \ {0} /\ Len(Tail(s)) = Len(s) - 1
      /\ DOMAIN Tail(s) = 1 .. Len(s) - 1 /\ DOMAIN s = 1 .. Len(s) /\ Head(s) = s[1]
      /\ \A i \in 1 .. Len(s) - 1 : Tail(s)[i] = s[i + 1]
  OBVIOUS
<1>2. ASSUME NEW i \in 1 .. Len(s) - 1 PROVE Tail(s)[i] = (b + 1) + i
  <2>1. i + 1 \in 1 .. Len(s) /\ i \in Nat
    BY <1>1
  <2>2. s[i + 1] = b + (i + 1)
    BY <1>1, <2>1
  <2>3. b + (i + 1) = (b + 1) + i
    BY <2>1
  <2>4. QED
    BY <1>1, <2>2, <2>3
<1>3. Head(s) = b + 1
  BY <1>1
<1>4. QED
  BY <1>1, <1>2, <1>3

\* Numbers that count up from 1, and the next.
LEMMA Counted ==
  ASSUME NEW s \in Seq(Nat), \A i \in DOMAIN s : s[i] = i
  PROVE  /\ Append(s, Len(s) + 1) \in Seq(Nat) /\ Len(Append(s, Len(s) + 1)) = Len(s) + 1
         /\ \A i \in DOMAIN Append(s, Len(s) + 1) : Append(s, Len(s) + 1)[i] = i
<1>1. Len(s) \in Nat /\ DOMAIN s = 1 .. Len(s)
  OBVIOUS
<1> DEFINE x == Len(s) + 1
<1>2. x \in Nat
  BY <1>1
<1> HIDE DEF x
<1>3. /\ Append(s, x) \in Seq(Nat) /\ Len(Append(s, x)) = Len(s) + 1
      /\ DOMAIN Append(s, x) = 1 .. Len(s) + 1
      /\ \A i \in 1 .. Len(s) + 1 : Append(s, x)[i] = IF i <= Len(s) THEN s[i] ELSE x
  BY <1>2
<1>4. ASSUME NEW i \in 1 .. Len(s) + 1 PROVE Append(s, x)[i] = i
  <2>1. i \in 1 .. Len(s) \/ i = x
    BY <1>1 DEF x
  <2>2. QED
    BY <1>1, <1>3, <2>1 DEF x
<1>5. QED
  BY <1>3, <1>4 DEF x

\* A queue that ends at c, continued by what follows c.
LEMMA ExtendQueue ==
  ASSUME NEW q \in Seq(Nat), NEW new \in Seq(Nat), NEW c \in Nat, NEW last \in Nat, c <= last,
         Len(new) = last - c, \A i \in 1 .. last - c : new[i] = c + i,
         \A i \in DOMAIN q : q[i] = c - Len(q) + i
  PROVE  /\ q \o new \in Seq(Nat) /\ Len(q \o new) = Len(q) + (last - c)
         /\ \A i \in DOMAIN (q \o new) : (q \o new)[i] = c - Len(q) + i
<1>1. q \o new \in Seq(Nat) /\ Len(q \o new) = Len(q) + (last - c) /\ Len(q) \in Nat
  BY Concatenated
<1>2. ASSUME NEW i \in DOMAIN (q \o new) PROVE (q \o new)[i] = c - Len(q) + i
  <2>1. i \in 1 .. Len(q) + (last - c) /\ i \in Nat
    BY <1>1
  <2>2. CASE i <= Len(q)
    <3>1. i \in DOMAIN q /\ (q \o new)[i] = q[i]
      BY <2>1, <2>2
    <3>2. QED
      BY <3>1
  <2>3. CASE i > Len(q)
    <3> DEFINE k == Len(q)
    <3>1. k \in Nat
      BY <1>1
    <3>2. (q \o new)[i] = new[i - k]
      BY <2>1, <2>3
    <3> HIDE DEF k
    <3>3. i - k \in 1 .. last - c
      BY <2>1, <2>3, <3>1 DEF k
    <3>4. new[i - k] = c + (i - k)
      BY <3>3
    <3>5. c + (i - k) = c - k + i
      BY <2>1, <3>1
    <3>6. QED
      BY <3>2, <3>4, <3>5 DEF k
  <2>4. QED
    BY <1>1, <2>1, <2>2, <2>3
<1>3. QED
  BY <1>1, <1>2

LEMMA PollInv ==
  ASSUME LogIInv, NEW r \in Readers, Poll(r), UNCHANGED <<busVars, replayed, watched>>
  PROVE  LogIInv'
<1> DEFINE at == reader[r]
           new == above(at.cursor)
           half == [at EXCEPT !.cursor = Last(new)]
           to == [half EXCEPT !.queue = @ \o new]
<1>1. /\ at \in ReaderRec /\ got[r] \in Seq(Nat) /\ Joins(at, got[r], Top) /\ at.pc # "away"
      /\ Top \in Nat /\ LogShape /\ at.cursor \in Nat /\ at.cursor <= Top /\ new # <<>>
      /\ at.queue \in Seq(Nat) /\ MaxLag \in Nat
  BY TopIsNat, LogAssumption DEF LogIInv, LogShape, Joined, Poll, Joins, ReaderRec
<1>2. /\ new \in Seq(Nat) /\ Len(new) = Top - at.cursor
      /\ \A i \in 1 .. Top - at.cursor : new[i] = at.cursor + i
  BY <1>1, AboveIsInterval
<1>3. Last(new) = Top
  <2>1. Top - at.cursor \in 1 .. Top - at.cursor
    BY <1>1, <1>2
  <2>2. new[Top - at.cursor] = at.cursor + (Top - at.cursor)
    BY <1>2, <2>1
  <2>3. Last(new) = new[Top - at.cursor]
    BY <1>2 DEF Last
  <2>4. QED
    BY <1>1, <2>2, <2>3
<1>4. to = [at EXCEPT !.cursor = Last(new), !.queue = @ \o new]
  BY Zenon
<1>5. reader' = [reader EXCEPT ![r] = IF Len(at.queue) + Len(new) > MaxLag THEN Disconnected ELSE to]
  BY <1>4 DEF Poll
<1>6. got' = [got EXCEPT ![r] = got[r]] /\ cuts' \in 0 .. MaxCuts /\ UNCHANGED <<rows, tx>>
  BY <1>1 DEF Poll, LogShape
<1>7. CASE Len(at.queue) + Len(new) > MaxLag
  BY <1>1, <1>5, <1>6, <1>7, DisconnectedJoins, ReaderStep
<1>8. CASE ~(Len(at.queue) + Len(new) > MaxLag)
  <2>1. behind(at) = at.cursor - Len(at.queue) /\ \A i \in DOMAIN at.queue : at.queue[i] = behind(at) + i
    BY <1>1 DEF behind, Joins
  <2>2. \A i \in DOMAIN at.queue : at.queue[i] = at.cursor - Len(at.queue) + i
    BY <2>1
  <2>3. /\ at.queue \o new \in Seq(Nat) /\ Len(at.queue \o new) = Len(at.queue) + (Top - at.cursor)
        /\ \A i \in DOMAIN (at.queue \o new) : (at.queue \o new)[i] = at.cursor - Len(at.queue) + i
    BY <1>1, <1>2, <2>2, ExtendQueue
  <2>4. /\ half \in ReaderRec /\ half.pc = at.pc /\ half.cursor = Top /\ half.queue = at.queue
        /\ half.history = at.history /\ half.highest = at.highest
    BY <1>1, <1>3 DEF ReaderRec
  <2>5. reader' = [reader EXCEPT ![r] = to]
    BY <1>5, <1>8
  <2>6. /\ to \in ReaderRec /\ to.pc = at.pc /\ to.cursor = Top /\ to.queue = at.queue \o new
        /\ to.history = at.history /\ to.highest = at.highest
    <3> HIDE DEF half, new
    <3>1. to = [half EXCEPT !.queue = at.queue \o new]
      BY <2>4
    <3> HIDE DEF to, at
    <3>2. QED
      BY <2>3, <2>4, <3>1 DEF ReaderRec
  <2> HIDE DEF to
  <2>7. Len(at.queue) \in Nat /\ Len(to.queue) = Len(at.queue) + Len(new) /\ Len(new) = Top - at.cursor
    <3> HIDE DEF new, at
    <3>1. Len(at.queue) \in Nat
      BY <1>1
    <3>2. QED
      BY <1>2, <2>3, <2>6, <3>1
  <2>8. behind(to) = behind(at) /\ Len(to.queue) <= MaxLag
    <3> HIDE DEF new, at
    <3>1. behind(to) = Top - (Len(at.queue) + (Top - at.cursor))
      BY <2>6, <2>7 DEF behind
    <3>2. QED
      BY <1>1, <1>8, <2>1, <2>7, <3>1
  <2>9. \A i \in DOMAIN to.queue : to.queue[i] = behind(to) + i
    BY <2>1, <2>3, <2>6, <2>8
  <2>10. Top <= Top
    BY <1>1
  <2> HIDE DEF new, at
  <2>11. Joins(to, got[r], Top)
    BY <1>1, <2>6, <2>8, <2>9, <2>10 DEF Joins
  <2>12. QED
    BY <1>1, <1>6, <2>5, <2>6, <2>11, ReaderStep DEF at
<1>9. QED
  BY <1>7, <1>8

LEMMA TakeHistoryInv ==
  ASSUME LogIInv, NEW r \in Readers, TakeHistory(r), UNCHANGED <<busVars, replayed, watched>>
  PROVE  LogIInv'
<1> DEFINE at == reader[r]
           h == at.history
           g == Len(got[r])
           to == [at EXCEPT !.history = Tail(h)]
           given == Append(got[r], g + 1)
<1>1. /\ at \in ReaderRec /\ got[r] \in Seq(Nat) /\ Joins(at, got[r], Top)
      /\ at.pc = "streaming" /\ h # <<>> /\ h \in Seq(Nat) /\ at.highest \in Nat
      /\ Top \in Nat /\ LogShape
  BY TopIsNat DEF LogIInv, LogShape, Joined, TakeHistory, ReaderRec
<1>2. g \in Nat
  BY <1>1
<1>3. /\ \A i \in DOMAIN got[r] : got[r][i] = i
      /\ \A i \in DOMAIN h : h[i] = g + i
      /\ g + Len(h) = IF at.highest > behind(at) THEN at.highest ELSE behind(at)
      /\ behind(at) <= at.highest /\ at.highest <= Top
      /\ at.cursor <= Top /\ Len(at.queue) <= MaxLag /\ behind(at) >= 0
      /\ \A i \in DOMAIN at.queue : at.queue[i] = behind(at) + i
  BY <1>1 DEF Joins
<1>4. /\ Head(h) = g + 1 /\ Tail(h) \in Seq(Nat)
      /\ Len(h) \in Nat \ {0} /\ Len(Tail(h)) = Len(h) - 1
      /\ \A i \in DOMAIN Tail(h) : Tail(h)[i] = (g + 1) + i
  <2> HIDE DEF h, g
  <2>1. QED
    BY <1>1, <1>2, <1>3, Shifted
<1>5. /\ given \in Seq(Nat) /\ Len(given) = g + 1
      /\ \A i \in DOMAIN given : given[i] = i
  BY <1>1, <1>3, Counted
<1>6. /\ to \in ReaderRec /\ to.pc = at.pc /\ to.cursor = at.cursor /\ to.queue = at.queue
      /\ to.history = Tail(h) /\ to.highest = at.highest
  BY <1>1, <1>4 DEF ReaderRec
<1>7. reader' = [reader EXCEPT ![r] = to] /\ got' = [got EXCEPT ![r] = given]
      /\ cuts' \in 0 .. MaxCuts /\ UNCHANGED <<rows, tx>>
  BY <1>1, <1>4 DEF TakeHistory, LogShape
<1>8. behind(to) = behind(at) /\ behind(at) \in Int
  BY <1>1, <1>6 DEF behind, ReaderRec
<1> HIDE DEF to, given, at, h, g
<1>9. g + Len(h) = at.highest /\ g + 1 <= g + Len(h)
  BY <1>1, <1>2, <1>3, <1>4, <1>8
<1>10. Len(given) <= Top
  BY <1>1, <1>2, <1>3, <1>4, <1>5, <1>9
<1>11. Len(given) + Len(to.history) = IF to.highest > behind(to) THEN to.highest ELSE behind(to)
  BY <1>1, <1>2, <1>3, <1>4, <1>5, <1>6, <1>8, <1>9
<1>12. Joins(to, given, Top)
  <2>1. to.pc # "away"
    BY <1>1, <1>6
  <2>2. \A i \in DOMAIN to.history : to.history[i] = Len(given) + i
    BY <1>4, <1>5, <1>6
  <2>3. QED
    BY <1>3, <1>5, <1>6, <1>8, <1>10, <1>11, <2>1, <2>2 DEF Joins
<1>13. QED
  BY <1>5, <1>6, <1>7, <1>12, ReaderStep DEF at

LEMMA TakeInv ==
  ASSUME LogIInv, NEW r \in Readers, Take(r), UNCHANGED <<busVars, replayed, watched>>
  PROVE  LogIInv'
<1> DEFINE at == reader[r]
           q == at.queue
           g == Len(got[r])
           b == behind(at)
           to == [at EXCEPT !.queue = Tail(q)]
           given == IF Head(q) > at.highest THEN Append(got[r], Head(q)) ELSE got[r]
<1>1. /\ at \in ReaderRec /\ got[r] \in Seq(Nat) /\ Joins(at, got[r], Top)
      /\ at.pc = "streaming" /\ q # <<>> /\ q \in Seq(Nat) /\ at.history = <<>>
      /\ at.highest \in Nat /\ at.cursor \in Nat
      /\ Top \in Nat /\ LogShape /\ MaxLag \in Nat
  BY TopIsNat, LogAssumption DEF LogIInv, LogShape, Joined, Take, ReaderRec
<1>2. g \in Nat /\ Len(at.history) = 0 /\ Len(q) \in Nat
  BY <1>1
<1>3. /\ \A i \in DOMAIN got[r] : got[r][i] = i
      /\ \A i \in DOMAIN q : q[i] = b + i
      /\ g + Len(at.history) = IF at.highest > b THEN at.highest ELSE b
      /\ at.highest <= Top /\ at.cursor <= Top /\ b >= 0 /\ Len(q) <= MaxLag /\ g <= Top
  BY <1>1 DEF Joins
<1>4. b = at.cursor - Len(q) /\ b \in Nat
  <2>1. b = at.cursor - Len(q)
    BY DEF behind
  <2> HIDE DEF b, at, q
  <2>2. QED
    BY <1>1, <1>2, <1>3, <2>1
<1>5. /\ Head(q) = b + 1 /\ Tail(q) \in Seq(Nat)
      /\ Len(q) \in Nat \ {0} /\ Len(Tail(q)) = Len(q) - 1
      /\ \A i \in DOMAIN Tail(q) : Tail(q)[i] = (b + 1) + i
  <2> HIDE DEF b, at, q
  <2>1. QED
    BY <1>1, <1>3, <1>4, Shifted
<1>6. /\ to \in ReaderRec /\ to.pc = at.pc /\ to.cursor = at.cursor /\ to.queue = Tail(q)
      /\ to.history = <<>> /\ to.highest = at.highest
  BY <1>1, <1>5 DEF ReaderRec
<1>7. reader' = [reader EXCEPT ![r] = to] /\ got' = [got EXCEPT ![r] = given]
      /\ cuts' \in 0 .. MaxCuts /\ UNCHANGED <<rows, tx>>
  BY <1>1 DEF Take, LogShape
<1>8. behind(to) = at.cursor - Len(Tail(q))
  BY <1>6 DEF behind
<1>9. Append(got[r], g + 1) \in Seq(Nat) /\ Len(Append(got[r], g + 1)) = g + 1
      /\ \A i \in DOMAIN Append(got[r], g + 1) : Append(got[r], g + 1)[i] = i
  BY <1>1, <1>3, Counted
<1>10. DOMAIN <<>> = {} /\ given = IF Head(q) > at.highest THEN Append(got[r], Head(q)) ELSE got[r]
  OBVIOUS
<1>11. g = Len(got[r])
  OBVIOUS
<1> HIDE DEF to, given, at, q, g, b
<1>12. behind(to) = b + 1 /\ b + 1 <= Top /\ Len(to.queue) <= MaxLag
  <2>1. behind(to) = at.cursor - (Len(q) - 1) /\ Len(to.queue) = Len(q) - 1
    BY <1>5, <1>6, <1>8
  <2>2. Len(q) - 1 <= MaxLag
    BY <1>1, <1>3, <1>5
  <2>3. at.cursor - (Len(q) - 1) = (at.cursor - Len(q)) + 1 /\ (at.cursor - Len(q)) + 1 <= Top
    BY <1>1, <1>3, <1>5
  <2>4. QED
    BY <1>4, <2>1, <2>2, <2>3
<1>13. g = IF at.highest > b THEN at.highest ELSE b
  BY <1>2, <1>3
<1>14. /\ given \in Seq(Nat) /\ \A i \in DOMAIN given : given[i] = i
       /\ Len(given) = (IF at.highest > b + 1 THEN at.highest ELSE b + 1) /\ Len(given) <= Top
  <2>1. CASE Head(q) > at.highest
    <3>1. g = b
      BY <1>1, <1>4, <1>5, <1>13, <2>1
    <3>2. given = Append(got[r], g + 1)
      BY <1>5, <1>10, <2>1, <3>1
    <3>3. b + 1 = IF at.highest > b + 1 THEN at.highest ELSE b + 1
      BY <1>1, <1>4, <1>5, <2>1
    <3>4. QED
      BY <1>9, <1>12, <3>1, <3>2, <3>3
  <2>2. CASE ~(Head(q) > at.highest)
    <3>1. given = got[r] /\ g = at.highest
      BY <1>1, <1>4, <1>5, <1>10, <1>13, <2>2
    <3>2. at.highest = IF at.highest > b + 1 THEN at.highest ELSE b + 1
      BY <1>1, <1>4, <1>5, <2>2
    <3>3. QED
      BY <1>1, <1>3, <1>11, <3>1, <3>2
  <2>3. QED
    BY <2>1, <2>2
<1>15. Len(to.history) = 0 /\ to.pc # "away" /\ behind(to) >= 0 /\ Len(given) \in Nat
  BY <1>1, <1>2, <1>4, <1>6, <1>12, <1>14
<1>16. Len(given) + Len(to.history) = IF to.highest > behind(to) THEN to.highest ELSE behind(to)
  BY <1>6, <1>12, <1>14, <1>15
<1>17. Joins(to, given, Top)
  BY <1>3, <1>5, <1>6, <1>10, <1>12, <1>14, <1>15, <1>16 DEF Joins
<1>18. QED
  BY <1>6, <1>7, <1>14, <1>17, ReaderStep DEF at

LEMMA CutInv ==
  ASSUME LogIInv, NEW r \in Readers, Cut(r), UNCHANGED <<busVars, replayed, watched>>
  PROVE  LogIInv'
<1>1. got[r] \in Seq(Nat) /\ Joins(reader[r], got[r], Top) /\ LogShape
  BY DEF LogIInv, LogShape, Joined
<1>2. got' = [got EXCEPT ![r] = got[r]] /\ cuts' \in 0 .. MaxCuts
  BY <1>1, LogAssumption DEF Cut, LogShape
<1>3. QED
  BY <1>1, <1>2, DisconnectedJoins, ReaderStep DEF Cut

LEMMA ReadInv ==
  ASSUME LogIInv, NEW r \in Readers, Read(r), UNCHANGED <<busVars, replayed, watched>>
  PROVE  LogIInv'
BY ConnectInv, ReadHistoryInv, PollInv, TakeHistoryInv, TakeInv, CutInv DEF Read

-----------------------------------------------------------------------------
(* The steps of an append *)

LEMMA AppenderIsNoCloser ==
  Closer \notin Appenders /\ Replayer \in Appenders /\ Replayer \notin Fibres
  /\ \A a \in Appenders : a \in Fibres \/ a = Replayer
BY BusAssumption, EventsAssumption

\* A step of one append that writes nothing.
LEMMA TxStep ==
  ASSUME LogIInv, NEW a \in Appenders, NEW to \in TxRec, tx' = [tx EXCEPT ![a] = to],
         to.next <= Top + 1, to.pc = "inserting" => to.next > 0,
         a \in Fibres /\ to.pc # "none" => At(a, "sinking") /\ to.key = fibre[a].seq,
         to.pc # "none" /\ a = Replayer => replayed' < MaxSequence,
         a = Replayer \/ UNCHANGED replayed, replayed' \in 0 .. MaxSequence,
         UNCHANGED <<rows, reader, got, cuts, busVars, watched>>
  PROVE  LogIInv'
<1>1. tx' \in [Appenders -> TxRec] /\ \A b \in Appenders : tx'[b] = IF b = a THEN to ELSE tx[b]
  BY DEF LogIInv, LogShape
<1>2. Top' = Top /\ recorded' = recorded
  BY DEF Top, recorded
<1>3. LogShape'
  BY <1>1, <1>2 DEF LogIInv, LogShape
<1>4. Joined'
  BY <1>2 DEF LogIInv, Joined
<1>5. Recording'
  <2>1. ASSUME NEW f \in Fibres \ {Closer}, tx'[f].pc # "none"
        PROVE  At(f, "sinking") /\ tx'[f].key = fibre[f].seq
    BY <1>1, <2>1, EventsAssumption DEF LogIInv, Recording
  <2>2. tx'[Replayer].pc # "none" => replayed' < MaxSequence
    BY <1>1, AppenderIsNoCloser DEF LogIInv, Recording
  <2>3. \A f \in Fibres : At(f, "sinking")' = At(f, "sinking")
    BY DEF At, busVars
  <2>4. UNCHANGED <<fibre, sequence, rows, watched>>
    BY DEF busVars
  <2>5. QED
    BY <2>1, <2>2, <2>3, <2>4 DEF LogIInv, Recording
<1>6. LogFollowsTheBus'
  BY DEF LogIInv, LogFollowsTheBus
<1>7. QED
  BY <1>3, <1>4, <1>5, <1>6 DEF LogIInv

LEMMA BeginAppendInv ==
  ASSUME LogIInv, NEW a \in Appenders, NEW key \in Nat, BeginAppend(a, key),
         a \in Fibres => At(a, "sinking") /\ key = fibre[a].seq,
         a = Replayer => replayed < MaxSequence,
         UNCHANGED <<busVars, replayed, watched>>
  PROVE  LogIInv'
<1> DEFINE to == [pc |-> "checking", key |-> key, next |-> 0]
<1>1. to \in TxRec /\ to.pc = "checking" /\ to.key = key /\ to.next = 0
  BY DEF TxRec
<1>2. tx' = [tx EXCEPT ![a] = to] /\ UNCHANGED <<rows, reader, got, cuts>>
  BY DEF BeginAppend
<1>3. 0 <= Top + 1
  BY TopIsNat DEF LogIInv
<1> HIDE DEF to
<1>4. QED
  BY <1>1, <1>2, <1>3, TxStep DEF LogIInv, Recording

\* The append answers for what it began with.
LEMMA TxGoesOn ==
  ASSUME LogIInv, NEW a \in Appenders, tx[a].pc # "none"
  PROVE  /\ a \in Fibres => At(a, "sinking") /\ tx[a].key = fibre[a].seq
         /\ a = Replayer => replayed < MaxSequence
         /\ replayed \in 0 .. MaxSequence /\ tx[a] \in TxRec /\ tx[a].next <= Top + 1
BY AppenderIsNoCloser DEF LogIInv, LogShape, Recording

LEMMA ReadKeyInv ==
  ASSUME LogIInv, NEW a \in Appenders, ReadKey(a), UNCHANGED <<busVars, replayed, watched>>
  PROVE  LogIInv'
<1> DEFINE pc == IF tx[a].key \in recordedKeys THEN "done" ELSE "numbering"
           to == [tx[a] EXCEPT !.pc = pc]
<1>1. tx[a].pc # "none" /\ UNCHANGED <<rows, reader, got, cuts>> /\ tx \in [Appenders -> TxRec]
  BY DEF ReadKey, LogIInv, LogShape
<1>2. tx' = [tx EXCEPT ![a] = to]
  BY DEF ReadKey
<1>3. pc \in {"done", "numbering"}
  OBVIOUS
<1>4. to \in TxRec /\ to.pc = pc /\ to.key = tx[a].key /\ to.next = tx[a].next
  BY <1>1, <1>3 DEF TxRec
<1>5. to.pc # "inserting"
  BY <1>3, <1>4
<1> HIDE DEF to, pc
<1>6. QED
  BY <1>1, <1>2, <1>4, <1>5, TxStep, TxGoesOn

LEMMA ReadMaxInv ==
  ASSUME LogIInv, NEW a \in Appenders, ReadMax(a), UNCHANGED <<busVars, replayed, watched>>
  PROVE  LogIInv'
<1> DEFINE half == [tx[a] EXCEPT !.pc = "inserting"]
           to == [half EXCEPT !.next = maxSequence + 1]
<1>1. /\ tx[a].pc # "none" /\ UNCHANGED <<rows, reader, got, cuts>> /\ tx \in [Appenders -> TxRec]
      /\ maxSequence = Top /\ Top \in Nat
  BY MaxIsTop, TopIsNat DEF ReadMax, LogIInv, LogShape
<1>2. to = [tx[a] EXCEPT !.pc = "inserting", !.next = maxSequence + 1]
  BY Zenon
<1>3. tx' = [tx EXCEPT ![a] = to]
  BY <1>1 DEF ReadMax
<1>4. to \in TxRec /\ to.pc = "inserting" /\ to.key = tx[a].key /\ to.next = Top + 1
  <2>1. half \in TxRec /\ half.pc = "inserting" /\ half.key = tx[a].key
    BY <1>1 DEF TxRec
  <2>2. maxSequence + 1 = Top + 1 /\ Top + 1 \in Nat
    BY <1>1
  <2> HIDE DEF half
  <2>3. QED
    BY <2>1, <2>2 DEF TxRec
<1> HIDE DEF to
<1>5. to.next <= Top + 1 /\ to.next > 0
  BY <1>1, <1>4
<1>6. QED
  BY <1>1, <1>3, <1>4, <1>5, TxStep, TxGoesOn

\* The number of a committed row is the next: the loser of a race finds its
\* number taken.
LEMMA InsertCommits ==
  ASSUME BusIInv, LogIInv, NEW a \in Appenders, tx[a].pc = "inserting",
         tx[a].next \notin recorded,
         rows' = rows \union {[seq |-> tx[a].next, key |-> tx[a].key, by |-> a]},
         tx' = [tx EXCEPT ![a].pc = "done"],
         UNCHANGED <<reader, got, cuts, busVars, replayed, watched>>
  PROVE  LogIInv'
<1> DEFINE new == [seq |-> tx[a].next, key |-> tx[a].key, by |-> a]
           to == [tx[a] EXCEPT !.pc = "done"]
<1>1. /\ Top \in Nat /\ tx \in [Appenders -> TxRec] /\ tx[a] \in TxRec /\ tx[a].next \in Nat
      /\ tx[a].key \in Nat /\ tx[a].next <= Top + 1 /\ tx[a].next > 0 /\ recorded = 1 .. Top
      /\ rows \subseteq RowRec /\ IsFiniteSet(rows)
  BY TopIsNat DEF LogIInv, LogShape, TxRec
<1>2. tx[a].next = Top + 1
  BY <1>1
<1>3. new \in RowRec /\ new.seq = Top + 1 /\ new.key = tx[a].key /\ new.by = a
  BY <1>1, <1>2 DEF RowRec
<1>4. rows' = rows \union {new}
  OBVIOUS
<1> HIDE DEF new
<1>5. new \notin rows
  BY <1>2, <1>3 DEF recorded
<1>6. IsFiniteSet(rows') /\ Top' = Top + 1
  BY <1>1, <1>4, <1>5, FS_AddElement DEF Top
<1>7. recorded' = 1 .. Top'
  <2>1. recorded' = recorded \union {new.seq}
    BY <1>4 DEF recorded
  <2>2. QED
    BY <1>1, <1>3, <1>6, <2>1
<1>8. /\ tx' \in [Appenders -> TxRec] /\ to \in TxRec
      /\ \A b \in Appenders : tx'[b] = IF b = a THEN to ELSE tx[b]
      /\ to.pc = "done" /\ to.next = tx[a].next /\ to.key = tx[a].key
  BY <1>1 DEF TxRec
<1> HIDE DEF to
<1>9. LogShape'
  <2>1. rows' \subseteq RowRec
    BY <1>1, <1>3, <1>4
  <2>2. ASSUME NEW b \in Appenders
        PROVE  tx'[b].next <= Top' + 1 /\ (tx'[b].pc = "inserting" => tx'[b].next > 0)
    <3>1. tx[b].next <= Top + 1 /\ tx[b].next \in Nat /\ (tx[b].pc = "inserting" => tx[b].next > 0)
      BY <1>1 DEF LogIInv, LogShape, TxRec
    <3>2. CASE b = a
      BY <1>1, <1>2, <1>6, <1>8, <3>2
    <3>3. CASE b # a
      BY <1>1, <1>6, <1>8, <3>1, <3>3
    <3>4. QED
      BY <3>2, <3>3
  <2>3. QED
    BY <1>6, <1>7, <1>8, <2>1, <2>2 DEF LogIInv, LogShape
<1>10. Joined'
  <2>1. ASSUME NEW r \in Readers PROVE Joins(reader[r], got[r], Top')
    <3>1. /\ Joins(reader[r], got[r], Top) /\ reader[r] \in ReaderRec /\ got[r] \in Seq(Nat)
      BY DEF LogIInv, LogShape, Joined
    <3>2. Len(got[r]) \in Nat /\ reader[r].cursor \in Nat /\ reader[r].highest \in Nat
      BY <3>1 DEF ReaderRec
    <3>3. \A n \in Nat : n <= Top => n <= Top'
      BY <1>1, <1>6
    <3>4. QED
      BY <3>1, <3>2, <3>3 DEF Joins
  <2>2. QED
    BY <2>1 DEF Joined
<1>11. UNCHANGED <<fibre, sequence, watched, replayed>>
  BY DEF busVars
<1>12. a \in Fibres => new.key = sequence
  <2>1. a \in Fibres => At(a, "sinking") /\ tx[a].key = fibre[a].seq
    BY TxGoesOn
  <2>2. QED
    BY <1>3, <2>1 DEF BusIInv, Fresh, Numbered, Held, At
<1>13. sequence \in Nat /\ \A x \in rows : x.by \in Fibres => x.key <= sequence
  BY DEF LogIInv, Recording, BusIInv, BusShape
<1>14. Recording'
  <2>1. \A x \in rows' : x.by \in Fibres => x.key <= sequence
    BY <1>3, <1>4, <1>12, <1>13
  <2>2. \A b \in Appenders : tx'[b].pc # "none" => tx[b].pc # "none" /\ tx'[b].key = tx[b].key
    BY <1>8
  <2>3. \A f \in Fibres \ {Closer} : tx'[f].pc # "none" => At(f, "sinking") /\ tx'[f].key = fibre[f].seq
    BY <2>2, EventsAssumption DEF LogIInv, Recording
  <2>4. \A f \in Fibres : At(f, "sinking")' = At(f, "sinking")
    BY <1>11 DEF At
  <2>5. tx'[Replayer].pc # "none" => replayed < MaxSequence
    BY <2>2, AppenderIsNoCloser DEF LogIInv, Recording
  <2>6. QED
    BY <1>11, <2>1, <2>3, <2>4, <2>5 DEF LogIInv, Recording
<1>15. LogFollowsTheBus'
  <2>1. ASSUME NEW x \in rows', NEW y \in rows', x.by \in Fibres, y.by \in Fibres, x.key < y.key
        PROVE  x.seq < y.seq
    <3>1. CASE x \in rows /\ y \in rows
      BY <2>1, <3>1 DEF LogIInv, LogFollowsTheBus
    <3>2. CASE x = new
      <4>1. x.key = sequence /\ (y = new \/ y.key <= sequence)
        BY <1>3, <1>4, <1>12, <1>13, <2>1, <3>2
      <4>2. y = new \/ y.key \in Nat
        BY <1>1, <1>4 DEF RowRec
      <4>3. QED
        BY <1>13, <2>1, <3>2, <4>1, <4>2
    <3>3. CASE x \in rows /\ y = new
      <4>1. x.seq \in recorded
        BY <3>3 DEF recorded
      <4>2. QED
        BY <1>1, <1>3, <3>3, <4>1
    <3>4. QED
      BY <1>4, <3>1, <3>2, <3>3
  <2>2. QED
    BY <2>1 DEF LogFollowsTheBus
<1>16. QED
  BY <1>9, <1>10, <1>14, <1>15 DEF LogIInv

LEMMA AppendStepInv ==
  ASSUME BusIInv, LogIInv, NEW a \in Appenders, AppendStep(a),
         UNCHANGED <<busVars, replayed, watched>>
  PROVE  LogIInv'
<1>1. CASE ReadKey(a) \/ ReadMax(a)
  BY <1>1, ReadKeyInv, ReadMaxInv
<1>2. CASE Insert(a) /\ UNCHANGED rows
  <2>1. tx[a].pc = "inserting" /\ tx \in [Appenders -> TxRec] /\ UNCHANGED <<reader, got, cuts>>
    BY <1>2 DEF Insert, LogIInv, LogShape
  <2>2. PICK pc \in {"done", "failed"} : tx' = [tx EXCEPT ![a].pc = pc]
    BY <1>2 DEF Insert
  <2> DEFINE next == [tx[a] EXCEPT !.pc = pc]
  <2>3. tx' = [tx EXCEPT ![a] = next]
    BY <2>2
  <2>4. next \in TxRec /\ next.pc = pc /\ next.key = tx[a].key /\ next.next = tx[a].next
    BY <2>1 DEF TxRec
  <2> HIDE DEF next
  <2>5. QED
    BY <1>2, <2>1, <2>3, <2>4, TxStep, TxGoesOn
<1>3. CASE Insert(a) /\ ~UNCHANGED rows
  BY <1>3, InsertCommits DEF Insert
<1>4. QED
  BY <1>1, <1>2, <1>3 DEF AppendStep

-----------------------------------------------------------------------------
(* The bus beside the log *)

\* While the log only loses appends that have ended, the bus may do anything
\* but leave a sink whose append is open.
LEMMA BusBesideLog ==
  ASSUME BusIInv, BusIInv', LogIInv, sequence <= sequence',
         UNCHANGED <<rows, reader, got, cuts, watched>>, replayed' \in 0 .. MaxSequence,
         tx' \in [Appenders -> TxRec],
         \A a \in Appenders : tx'[a] = tx[a] \/ tx'[a] = NoTx,
         \A f \in Fibres \ {Closer} : tx'[f].pc # "none" => fibre'[f] = fibre[f],
         UNCHANGED replayed \/ tx'[Replayer] = NoTx
  PROVE  LogIInv'
<1>1. NoTx.pc = "none" /\ NoTx.next = 0
  BY DEF NoTx
<1>2. Top' = Top /\ recorded' = recorded /\ Top \in Nat
  BY TopIsNat DEF Top, recorded, LogIInv
<1>3. LogShape'
  <2>1. \A a \in Appenders : /\ tx'[a].next <= Top' + 1
                             /\ tx'[a].pc = "inserting" => tx'[a].next > 0
    BY <1>1, <1>2 DEF LogIInv, LogShape
  <2>2. QED
    BY <1>2, <2>1 DEF LogIInv, LogShape
<1>4. Joined'
  BY <1>2 DEF LogIInv, Joined
<1>5. Recording'
  <2>1. ASSUME NEW f \in Fibres \ {Closer}, tx'[f].pc # "none"
        PROVE  At(f, "sinking")' /\ tx'[f].key = fibre'[f].seq
    BY <1>1, <2>1, EventsAssumption DEF LogIInv, Recording, At
  <2>2. \A x \in rows : x.by \in Fibres => x.key <= sequence'
    <3>1. sequence \in Nat /\ sequence' \in Nat
      BY DEF BusIInv, BusShape
    <3>2. \A x \in rows : x.key \in Nat
      BY DEF LogIInv, LogShape, RowRec
    <3>3. QED
      BY <3>1, <3>2 DEF LogIInv, Recording
  <2>3. tx'[Replayer].pc # "none" => replayed' < MaxSequence
    BY <1>1, AppenderIsNoCloser DEF LogIInv, Recording
  <2>4. QED
    BY <2>1, <2>2, <2>3 DEF LogIInv, Recording
<1>6. LogFollowsTheBus'
  BY DEF LogIInv, LogFollowsTheBus
<1>7. QED
  BY <1>3, <1>4, <1>5, <1>6 DEF LogIInv

\* A fibre whose append is open is in its sink, and no other step of the bus
\* begins there.
LEMMA EmitBesideLog ==
  ASSUME BusIInv, BusIInv', LogIInv, NEW f \in Fibres, Emit(f),
         UNCHANGED <<logVars, replayed, watched>>
  PROVE  LogIInv'
<1>1. fibre[f].pc # "sinking"
  BY DEF Emit, Enter, TakePermit, Number, Retain, Publish, Charge, Reenter, Return, InterruptEmit, At
<1>2. \A g \in Fibres \ {f} : fibre'[g] = fibre[g]
  BY DEF Emit, Enter, TakePermit, Number, Retain, Publish, Charge, Reenter, Return,
         InterruptEmit, Unwind, Goto, BusIInv, BusShape
<1>3. sequence <= sequence'
  <2>1. sequence \in Nat
    BY DEF BusIInv, BusShape
  <2>2. sequence' = sequence \/ sequence' = sequence + 1
    BY DEF Emit, Enter, TakePermit, Number, Retain, Publish, Charge, Reenter, Return, InterruptEmit
  <2>3. QED
    BY <2>1, <2>2
<1>4. \A g \in Fibres \ {Closer} : tx[g].pc # "none" => fibre'[g] = fibre[g]
  BY <1>1, <1>2 DEF LogIInv, Recording, At
<1>5. UNCHANGED <<rows, tx, reader, got, cuts, replayed, watched>>
  BY DEF logVars
<1>6. tx' \in [Appenders -> TxRec] /\ replayed' \in 0 .. MaxSequence
  BY <1>5 DEF LogIInv, LogShape, Recording
<1>7. QED
  BY <1>3, <1>4, <1>5, <1>6, BusBesideLog

\* The sink ends, with its append.
LEMMA SinkBesideLog ==
  ASSUME BusIInv, BusIInv', LogIInv, NEW f \in Fibres, f # Closer,
         SinkReturns(f) \/ SinkDies(f), Answered(f), UNCHANGED <<replayed, watched>>
  PROVE  LogIInv'
<1>1. NoTx \in TxRec /\ NoTx.pc = "none"
  BY DEF NoTx, TxRec
<1>2. f \in Appenders /\ tx \in [Appenders -> TxRec]
  BY EventsAssumption DEF LogIInv, LogShape
<1>3. /\ tx' \in [Appenders -> TxRec] /\ UNCHANGED <<rows, reader, got, cuts>> /\ tx'[f] = NoTx
      /\ \A a \in Appenders : tx'[a] = tx[a] \/ tx'[a] = NoTx
  BY <1>1, <1>2 DEF Answered
<1>4. \A g \in Fibres \ {f} : fibre'[g] = fibre[g]
  BY DEF SinkReturns, SinkDies, Unwind, Goto, BusIInv, BusShape
<1>5. \A g \in Fibres \ {Closer} : tx'[g].pc # "none" => fibre'[g] = fibre[g]
  BY <1>1, <1>3, <1>4
<1>6. sequence' = sequence /\ sequence \in Nat /\ replayed' \in 0 .. MaxSequence
  BY DEF SinkReturns, SinkDies, BusIInv, BusShape, LogIInv, Recording
<1>7. sequence <= sequence'
  BY <1>6
<1>8. QED
  BY <1>3, <1>5, <1>6, <1>7, BusBesideLog

LEMMA ReplayInv == ASSUME BusIInv, BusIInv', LogIInv, Replay PROVE LogIInv'
<1>1. Replayer \in Appenders /\ Replayer \notin Fibres /\ UNCHANGED <<busVars, watched>>
  BY AppenderIsNoCloser DEF Replay
<1>2. replayed \in 0 .. MaxSequence /\ MaxSequence \in Nat
  BY BusAssumption DEF LogIInv, Recording
<1>3. CASE replayed < MaxSequence /\ BeginAppend(Replayer, replayed + 1) /\ UNCHANGED replayed
  <2>1. replayed + 1 \in Nat
    BY <1>2
  <2>2. QED
    BY <1>1, <1>3, <2>1, BeginAppendInv
<1>4. CASE /\ tx[Replayer].pc \in {"done", "failed"} /\ Answered(Replayer)
           /\ replayed' = IF tx[Replayer].pc = "done" THEN replayed + 1 ELSE 0
  <2>1. replayed < MaxSequence
    BY <1>1, <1>4, TxGoesOn
  <2>2. replayed' \in 0 .. MaxSequence
    BY <1>2, <1>4, <2>1
  <2>3. NoTx \in TxRec
    BY DEF NoTx, TxRec
  <2>4. /\ tx' \in [Appenders -> TxRec] /\ UNCHANGED <<rows, reader, got, cuts>> /\ tx'[Replayer] = NoTx
        /\ \A a \in Appenders : tx'[a] = tx[a] \/ tx'[a] = NoTx
    BY <1>1, <1>4, <2>3 DEF Answered, LogIInv, LogShape
  <2>5. UNCHANGED <<sequence, fibre, watched>>
    BY <1>1 DEF busVars
  <2>6. sequence <= sequence'
    BY <2>5 DEF BusIInv, BusShape
  <2>7. QED
    BY <2>2, <2>4, <2>5, <2>6, BusBesideLog
<1>5. QED
  BY <1>3, <1>4 DEF Replay

\* A step of the bus that leaves its fibres and its number alone.
LEMMA QuietBusBesideLog ==
  ASSUME BusIInv, BusIInv', LogIInv, UNCHANGED <<sequence, fibre, logVars, replayed, watched>>
  PROVE  LogIInv'
<1>1. UNCHANGED <<rows, tx, reader, got, cuts, replayed, watched>>
  BY DEF logVars
<1>2. sequence <= sequence'
  BY DEF BusIInv, BusShape
<1>3. tx' \in [Appenders -> TxRec] /\ replayed' \in 0 .. MaxSequence
  BY <1>1 DEF LogIInv, LogShape, Recording
<1>4. QED
  BY <1>1, <1>2, <1>3, BusBesideLog

LEMMA LogStep == BusIInv /\ LogIInv /\ [Next]_vars => LogIInv'
<1> SUFFICES ASSUME BusIInv, LogIInv, [Next]_vars PROVE LogIInv'
  OBVIOUS
<1>1. BusIInv'
  BY BusStep
<1>2. ASSUME NEW f \in Fibres, Emit(f), UNCHANGED <<logVars, replayed, watched>> PROVE LogIInv'
  BY <1>1, <1>2, EmitBesideLog
<1>3. ASSUME NEW s \in Subscribers, Observe(s), UNCHANGED <<logVars, replayed, watched>> PROVE LogIInv'
  BY <1>1, <1>3, QuietBusBesideLog DEF Observe, Subscribe, ReadClosed, Watch, Pull, Leave
<1>4. ASSUME NEW f \in Fibres, BeginRecord(f) PROVE LogIInv'
  <2>1. f \in Appenders /\ f # Replayer /\ fibre[f].seq \in Nat
    BY <1>4, EventsAssumption DEF BeginRecord, BusIInv, BusShape, FibreRec
  <2>2. QED
    BY <1>4, <2>1, BeginAppendInv DEF BeginRecord
<1>5. ASSUME NEW f \in Fibres, Recorded(f) \/ NotRecorded(f) PROVE LogIInv'
  BY <1>1, <1>5, SinkBesideLog DEF Recorded, NotRecorded
<1>6. CASE PassUnrecorded
  <2>1. UNCHANGED <<rows, tx, reader, got, cuts, replayed, watched>> /\ SinkReturns(Closer)
    BY <1>6 DEF PassUnrecorded, logVars
  <2>2. UNCHANGED sequence /\ \A g \in Fibres \ {Closer} : fibre'[g] = fibre[g]
    BY <2>1, BusAssumption DEF SinkReturns, Goto, BusIInv, BusShape
  <2>3. sequence <= sequence'
    BY <2>2 DEF BusIInv, BusShape
  <2>4. tx' \in [Appenders -> TxRec] /\ replayed' \in 0 .. MaxSequence
    BY <2>1 DEF LogIInv, LogShape, Recording
  <2>5. QED
    BY <1>1, <2>1, <2>2, <2>3, <2>4, BusBesideLog
<1>7. CASE Replay
  BY <1>1, <1>7, ReplayInv
<1>8. ASSUME NEW a \in Appenders, AppendStep(a), UNCHANGED <<busVars, replayed, watched>> PROVE LogIInv'
  BY <1>8, AppendStepInv
<1>9. ASSUME NEW r \in Readers, Read(r), UNCHANGED <<busVars, replayed, watched>> PROVE LogIInv'
  BY <1>9, ReadInv
<1>10. CASE UNCHANGED vars
  BY <1>1, <1>10, QuietBusBesideLog DEF vars, busVars
<1>11. QED
  BY <1>2, <1>3, <1>4, <1>5, <1>6, <1>7, <1>8, <1>9, <1>10 DEF Next

LEMMA LogInitially == Init => LogIInv
<1> SUFFICES ASSUME Init PROVE LogIInv
  OBVIOUS
<1>1. /\ rows = {} /\ tx = [a \in Appenders |-> NoTx] /\ reader = [r \in Readers |-> Disconnected]
      /\ got = [r \in Readers |-> <<>>] /\ cuts = 0 /\ replayed = 0 /\ watched \in {"bus", "log"}
  BY DEF Init, LogInit
<1>2. NoTx \in TxRec /\ NoTx.pc = "none" /\ NoTx.next = 0
  BY DEF NoTx, TxRec
<1>3. /\ Disconnected \in ReaderRec /\ Disconnected.pc = "away"
      /\ Disconnected.cursor = 0 /\ Disconnected.queue = <<>>
  BY DEF Disconnected, ReaderRec
<1>4. IsFiniteSet(rows) /\ Top = 0
  BY <1>1, FS_EmptySet DEF Top
<1>5. DOMAIN <<>> = {} /\ Len(<<>>) = 0 /\ <<>> \in Seq(Nat)
  OBVIOUS
<1>6. MaxCuts \in Nat /\ MaxLag \in Nat /\ MaxSequence \in Nat
  BY LogAssumption, BusAssumption
<1>7. LogShape
  <2>1. recorded = {} /\ 1 .. Top = {}
    BY <1>1, <1>4 DEF recorded
  <2>2. \A a \in Appenders : /\ tx[a].next <= Top + 1
                             /\ tx[a].pc = "inserting" => tx[a].next > 0
    BY <1>1, <1>2, <1>4
  <2>3. /\ tx \in [Appenders -> TxRec] /\ reader \in [Readers -> ReaderRec]
        /\ got \in [Readers -> Seq(Nat)] /\ cuts \in 0 .. MaxCuts
    BY <1>1, <1>2, <1>3, <1>5, <1>6
  <2>4. QED
    BY <1>1, <1>4, <2>1, <2>2, <2>3 DEF LogShape
<1>8. Joined
  <2>1. Joins(Disconnected, <<>>, Top)
    BY <1>3, <1>4, <1>5, <1>6 DEF Joins, behind
  <2>2. QED
    BY <1>1, <2>1 DEF Joined
<1>9. Recording
  BY <1>1, <1>2, <1>6, EventsAssumption DEF Recording
<1>10. LogFollowsTheBus
  BY <1>1 DEF LogFollowsTheBus
<1>11. QED
  BY <1>7, <1>8, <1>9, <1>10 DEF LogIInv

LEMMA LogInvariance == Spec => []LogIInv
BY LogInitially, BusInvariance, LogStep, PTL DEF Spec

-----------------------------------------------------------------------------
\* A consumer that resumes after what it was given is given every recorded
\* envelope once and in order.
THEOREM SpecReaderMissesNothing == Spec => []ReaderMissesNothing
<1>1. LogIInv => ReaderMissesNothing
  <2> SUFFICES ASSUME LogIInv, NEW r \in Readers PROVE got[r] = [i \in 1 .. Len(got[r]) |-> i]
    BY DEF ReaderMissesNothing
  <2>1. got[r] \in Seq(Nat) /\ \A i \in DOMAIN got[r] : got[r][i] = i
    BY DEF LogIInv, LogShape, Joined, Joins
  <2>2. QED
    BY <2>1
<1>2. QED
  BY <1>1, LogInvariance, PTL

\* What the session's fibres record stands in the log in the order they
\* published it, whatever the other execution records in between.
THEOREM SpecLogFollowsTheBus == Spec => []LogFollowsTheBus
<1>1. LogIInv => LogFollowsTheBus
  BY DEF LogIInv
<1>2. QED
  BY <1>1, LogInvariance, PTL

\* The numbers of the log have no hole, nobody's cursor is beyond them, and a
\* reader has no more queued than its bound.
THEOREM SpecTypeOK == Spec => []TypeOK
<1>1. LogIInv => LogTypeOK /\ replayed \in 0 .. MaxSequence /\ watched \in {"bus", "log"}
  <2> SUFFICES ASSUME LogIInv PROVE LogTypeOK
    BY DEF LogIInv, Recording
  <2>1. maxSequence = Top /\ Top \in Nat /\ Top = Cardinality(rows)
    BY MaxIsTop, TopIsNat DEF LogIInv, Top
  <2>2. \A r \in Readers : reader[r].cursor \in 0 .. maxSequence /\ Len(reader[r].queue) <= MaxLag
    BY <2>1 DEF LogIInv, LogShape, Joined, Joins, ReaderRec
  <2>3. \A a \in Appenders : tx[a].next \in 0 .. Cardinality(rows) + 1
    BY <2>1 DEF LogIInv, LogShape, TxRec
  <2>4. \A row \in rows : row.seq \in Nat \ {0} /\ row.by \in Appenders
    BY DEF LogIInv, LogShape, RowRec
  <2>5. recorded = 1 .. Cardinality(rows) /\ cuts \in 0 .. MaxCuts
    BY <2>1 DEF LogIInv, LogShape
  <2>6. QED
    BY <2>2, <2>3, <2>4, <2>5 DEF LogTypeOK
<1>2. QED
  BY <1>1, LogInvariance, SpecBusTypeOK, PTL DEF TypeOK
=============================================================================
