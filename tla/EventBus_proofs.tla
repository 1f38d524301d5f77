---------------------------- MODULE EventBus_proofs ----------------------------
(***************************************************************************)
(* The event bus, in the composition that records what it publishes: for    *)
(* every set of fibres and subscribers, and every bound on what a watched   *)
(* subscriber may hold back.  ReentryIsRefused and CloseReachesEveryone are *)
(* invariants of Events!Spec.  The second needs to know that one fibre at a *)
(* time is past its number, that its number is the last one given, and that *)
(* a backlog never holds a number before its envelope is published.         *)
(***************************************************************************)
EXTENDS Events, TLAPS, FiniteSetTheorems

\* The fibre holds the permit; its envelope has a number; it is not published.
Held == {"holding", "retaining", "publishing", "charging", "sinking", "observing"}
Numbered == Held \ {"holding"}
Unpublished == {"retaining", "publishing"}

FibrePCs == Held \union {"idle", "waiting"}
FibreRec == [pc : FibrePCs, seq : Nat]
SubRec == [pc : {"away", "registered", "checked", "live", "ended", "lagged"},
           backlog : Seq(Nat \ {0}), since : Nat, retained : Int, closes : 0 .. 1]

\* The emissions begun and not numbered yet.
begun == { f \in Fibres : At(f, "waiting") \/ At(f, "holding") }

BusShape ==
    /\ sequence \in Nat /\ closed \in 0 .. sequence /\ sizes \subseteq 1 .. sequence
    /\ order \in Fibres \union {NoFibre} /\ emitting \in Fibres \union {NoFibre}
    /\ fibre \in [Fibres -> FibreRec] /\ sub \in [Subscribers -> SubRec]
    /\ IsFiniteSet(begun) /\ sequence + Cardinality(begun) <= MaxSequence
    /\ \A s \in Subscribers : /\ \A i \in DOMAIN sub[s].backlog : sub[s].backlog[i] <= sequence
                              /\ sub[s].since <= sequence
    /\ \A f \in Fibres : fibre[f].seq <= sequence

\* The permit's holder is the fibre inside emit, and, once it has numbered its
\* envelope, the one the marker names.
Permit ==
    \A f \in Fibres : /\ fibre[f].pc \in Held <=> order = f
                      /\ emitting = f <=> fibre[f].pc \in Numbered

\* Its number is the last one given, and in no backlog before it is published.
Fresh ==
    \A f \in Fibres :
        /\ fibre[f].pc \in Numbered => fibre[f].seq = sequence /\ sequence > 0
        /\ At(f, "retaining") => f = Closer
        /\ fibre[f].pc \in Unpublished =>
              \A s \in Subscribers : \A i \in DOMAIN sub[s].backlog :
                  sub[s].backlog[i] < sequence

\* The closing fibre emits once; no other envelope has the number of the close.
Closing ==
    /\ closed = 0 => fibre[Closer].pc \in {"idle", "waiting", "holding", "retaining"}
    /\ closed # 0 => fibre[Closer].pc \in {"idle", "publishing", "charging", "sinking", "observing"}
    /\ At(Closer, "publishing") => closed = sequence
    /\ closed # 0 => \A f \in Fibres \ {Closer} : fibre[f].pc \in Numbered => closed < sequence

\* The places of n in a backlog.
places(b, n) == { i \in DOMAIN b : b[i] = n }
Once(b, n) == \E i \in DOMAIN b : places(b, n) = {i}

Shown ==
    \A s \in Subscribers :
        /\ closePublished /\ sub[s].pc \in {"checked", "live"} => Once(sub[s].backlog, closed)
        /\ sub[s].closes = IF sub[s].pc = "ended" THEN 1 ELSE 0

\* What a watcher has still to be charged for the envelope being charged.
due(s) ==
    IF \E f \in Fibres : At(f, "charging") /\ fibre[f].seq > sub[s].since
    THEN wireSize(sequence) ELSE 0

\* The charge of each watcher, with what is due, is the bytes it is owed.
Charges ==
    /\ \A s \in Subscribers :
        /\ \A i, j \in DOMAIN sub[s].backlog : sub[s].backlog[i] = sub[s].backlog[j] => i = j
        /\ sub[s].pc # "live" => sub[s].retained = 0
        /\ sub[s].pc = "live" => sub[s].retained <= MaxBytes
    /\ \A s \in Watchers :
        /\ owed(s) \subseteq sizes
        /\ \A f \in Fibres : At(f, "charging") /\ fibre[f].seq > sub[s].since => fibre[f].seq \in sizes
        /\ ~uncharged => sub[s].retained + due(s) = Cardinality(bytes(owed(s)))

BusIInv == BusShape /\ Permit /\ Fresh /\ Closing /\ Shown

-----------------------------------------------------------------------------
(* Where an emission stands *)

LEMMA PermitInit == BusInit => BusShape /\ Permit /\ Fresh /\ Closing /\ Shown
<1> SUFFICES ASSUME BusInit PROVE BusShape /\ Permit /\ Fresh /\ Closing /\ Shown
  OBVIOUS
<1>1. /\ sequence = 0 /\ closed = 0 /\ sizes = {} /\ order = NoFibre /\ emitting = NoFibre
      /\ \A f \in Fibres : fibre[f] = [pc |-> "idle", seq |-> 0]
      /\ \A s \in Subscribers : sub[s] = [pc |-> "away", backlog |-> <<>>, since |-> 0,
                                          retained |-> 0, closes |-> 0]
  BY DEF BusInit, Idle, Away
<1>2. fibre \in [Fibres -> FibreRec] /\ sub \in [Subscribers -> SubRec]
  <2>1. [pc |-> "idle", seq |-> 0] \in FibreRec
    BY DEF FibreRec, FibrePCs
  <2>2. [pc |-> "away", backlog |-> <<>>, since |-> 0, retained |-> 0, closes |-> 0] \in SubRec
    BY DEF SubRec
  <2>3. QED
    BY <2>1, <2>2 DEF BusInit, Idle, Away
<1>3. begun = {}
  BY <1>1 DEF begun, At
<1>4. IsFiniteSet(begun) /\ sequence + Cardinality(begun) <= MaxSequence
  BY <1>1, <1>3, FS_EmptySet, BusAssumption
<1>5. BusShape
  BY <1>1, <1>2, <1>4 DEF BusShape
<1>6. Permit /\ Fresh
  BY <1>1, BusAssumption DEF Permit, Fresh, At, Held, Numbered, Unpublished
<1>7. Closing /\ Shown
  BY <1>1, BusAssumption DEF Closing, Shown, At, closePublished
<1>8. QED
  BY <1>5, <1>6, <1>7

\* One fibre moves on.
LEMMA FibreMoves ==
  ASSUME BusShape, NEW f \in Fibres, NEW step \in FibrePCs, Goto(f, step)
  PROVE  /\ fibre' \in [Fibres -> FibreRec]
         /\ fibre'[f].pc = step /\ fibre'[f].seq = fibre[f].seq
         /\ \A g \in Fibres \ {f} : fibre'[g] = fibre[g]
<1>1. fibre[f] \in FibreRec /\ fibre \in [Fibres -> FibreRec]
  BY DEF BusShape
<1>2. [fibre[f] EXCEPT !.pc = step] \in FibreRec
  BY <1>1 DEF FibreRec
<1>3. QED
  BY <1>1, <1>2 DEF Goto, FibreRec

LEMMA FibreUnwinds ==
  ASSUME BusShape, NEW f \in Fibres, fibre' = [fibre EXCEPT ![f] = Idle]
  PROVE  /\ fibre' \in [Fibres -> FibreRec]
         /\ fibre'[f].pc = "idle" /\ fibre'[f].seq = 0
         /\ \A g \in Fibres \ {f} : fibre'[g] = fibre[g]
<1>1. fibre \in [Fibres -> FibreRec]
  BY DEF BusShape
<1>2. Idle \in FibreRec /\ Idle.pc = "idle" /\ Idle.seq = 0
  BY DEF Idle, FibreRec, FibrePCs
<1>3. QED
  BY <1>1, <1>2

\* The count of the emissions begun, when one fibre moves.
LEMMA BegunMoves ==
  ASSUME BusShape, NEW f \in Fibres, \A g \in Fibres \ {f} : fibre'[g] = fibre[g],
         ~(At(f, "waiting") \/ At(f, "holding"))' => sequence' \in {sequence, sequence + 1},
         sequence' = sequence + 1 => At(f, "holding") /\ ~(At(f, "waiting") \/ At(f, "holding"))',
         (At(f, "waiting") \/ At(f, "holding"))' =>
            /\ sequence' = sequence
            /\ At(f, "waiting") \/ At(f, "holding") \/ mayBegin
  PROVE  IsFiniteSet(begun') /\ sequence' + Cardinality(begun') <= MaxSequence
<1>1. /\ IsFiniteSet(begun) /\ Cardinality(begun) \in Nat /\ sequence \in Nat
      /\ sequence + Cardinality(begun) <= MaxSequence /\ MaxSequence \in Nat
  BY FS_CardinalityType, BusAssumption DEF BusShape
<1>2. CASE (At(f, "waiting") \/ At(f, "holding"))' /\ f \in begun
  <2>1. begun' = begun
    BY <1>2 DEF begun, At
  <2>2. QED
    BY <1>1, <1>2, <2>1
<1>3. CASE (At(f, "waiting") \/ At(f, "holding"))' /\ f \notin begun
  <2>1. begun' = begun \union {f}
    BY <1>3 DEF begun, At
  <2>2. sequence + Cardinality(begun) < MaxSequence /\ sequence' = sequence
    BY <1>3 DEF mayBegin, begun
  <2>3. IsFiniteSet(begun') /\ Cardinality(begun') = Cardinality(begun) + 1
    BY <1>1, <1>3, <2>1, FS_AddElement
  <2>4. QED
    BY <1>1, <2>2, <2>3
<1>4. CASE ~(At(f, "waiting") \/ At(f, "holding"))'
  <2>1. begun' = begun \ {f}
    BY <1>4 DEF begun, At
  <2>2. IsFiniteSet(begun') /\ Cardinality(begun') =
                IF f \in begun THEN Cardinality(begun) - 1 ELSE Cardinality(begun)
    BY <1>1, <2>1, FS_RemoveElement
  <2>3. sequence' = sequence + 1 => f \in begun
    BY DEF begun
  <2>4. QED
    BY <1>1, <1>4, <2>2, <2>3
<1>5. QED
  BY <1>2, <1>3, <1>4

\* A step of a fibre that publishes nothing, numbers nothing and retains
\* nothing: what is left to see is the permit, the marker, and where it is.
LEMMA QuietStep ==
  ASSUME BusIInv, NEW f \in Fibres,
         UNCHANGED <<sequence, closed, sizes, sub>>,
         fibre' \in [Fibres -> FibreRec],
         \A g \in Fibres \ {f} : fibre'[g] = fibre[g],
         fibre'[f].seq \in {0, fibre[f].seq},
         order' \in Fibres \union {NoFibre}, emitting' \in Fibres \union {NoFibre},
         Permit',
         (At(f, "waiting") \/ At(f, "holding"))' => At(f, "waiting") \/ At(f, "holding") \/ mayBegin,
         fibre'[f].pc \in Numbered =>
            fibre[f].pc \in Numbered \ Unpublished /\ fibre'[f].pc \notin Unpublished
              /\ fibre'[f].seq = fibre[f].seq,
         f = Closer => \/ closed = 0 /\ fibre[f].pc \in {"idle", "waiting"}
                          /\ fibre'[f].pc \in {"waiting", "holding"}
                       \/ fibre[f].pc \in {"charging", "sinking", "observing"}
                          /\ fibre'[f].pc \in {"sinking", "observing", "idle"}
  PROVE  BusIInv'
<1>1. BusShape'
  <2>1. IsFiniteSet(begun') /\ sequence' + Cardinality(begun') <= MaxSequence
    <3>1. sequence' = sequence /\ sequence \in Nat
      BY DEF BusIInv, BusShape
    <3>2. QED
      BY <3>1, BegunMoves DEF BusIInv
  <2>2. \A g \in Fibres : fibre'[g].seq <= sequence
    BY DEF BusIInv, BusShape, FibreRec
  <2>3. QED
    BY <2>1, <2>2 DEF BusIInv, BusShape
<1>2. Fresh'
  BY DEF BusIInv, Fresh, At, Numbered, Held, Unpublished
<1>3. Closing'
  BY BusAssumption DEF BusIInv, Closing, At, Numbered, Held
<1>4. Shown'
  <2>1. closePublished' => closePublished
    BY BusAssumption DEF closePublished, At, BusIInv, Closing
  <2>2. QED
    BY <2>1 DEF BusIInv, Shown
<1>5. QED
  BY <1>1, <1>2, <1>3, <1>4 DEF BusIInv

-----------------------------------------------------------------------------
(* Emitting *)

LEMMA EnterInv == ASSUME BusIInv, NEW f \in Fibres, Enter(f) PROVE BusIInv'
<1>1. /\ At(f, "idle") /\ mayBegin /\ (f = Closer => closed = 0) /\ Goto(f, "waiting")
      /\ UNCHANGED <<sequence, order, emitting, closed, sizes, sub>>
  BY DEF Enter
<1>2. /\ fibre' \in [Fibres -> FibreRec]
      /\ fibre'[f].pc = "waiting" /\ fibre'[f].seq = fibre[f].seq
      /\ \A g \in Fibres \ {f} : fibre'[g] = fibre[g]
  BY <1>1, FibreMoves DEF BusIInv, FibrePCs
<1>3. Permit'
  BY <1>1, <1>2 DEF BusIInv, Permit, At, Held, Numbered
<1>4. QED
  BY <1>1, <1>2, <1>3, QuietStep DEF At, Numbered, Held, BusIInv, BusShape

LEMMA TakePermitInv == ASSUME BusIInv, NEW f \in Fibres, TakePermit(f) PROVE BusIInv'
<1>1. /\ At(f, "waiting") /\ order = NoFibre /\ order' = f /\ Goto(f, "holding")
      /\ UNCHANGED <<sequence, emitting, closed, sizes, sub>>
  BY DEF TakePermit
<1>2. /\ fibre' \in [Fibres -> FibreRec]
      /\ fibre'[f].pc = "holding" /\ fibre'[f].seq = fibre[f].seq
      /\ \A g \in Fibres \ {f} : fibre'[g] = fibre[g]
  BY <1>1, FibreMoves DEF BusIInv, FibrePCs, Held
<1>3. Permit'
  BY <1>1, <1>2, BusAssumption DEF BusIInv, Permit, At, Held, Numbered
<1>4. f = Closer => closed = 0
  BY <1>1, BusAssumption DEF BusIInv, Closing, At
<1>5. QED
  BY <1>1, <1>2, <1>3, <1>4, QuietStep DEF At, Numbered, Held, BusIInv, BusShape

\* Nobody else is past its number when one fibre holds the permit.
LEMMA OneHolder ==
  ASSUME Permit, NEW f \in Fibres, fibre[f].pc \in Held
  PROVE  /\ order = f /\ \A g \in Fibres \ {f} : fibre[g].pc \notin Held
         /\ fibre[f].pc \in Numbered => emitting = f
BY DEF Permit

LEMMA NumberInv == ASSUME BusIInv, NEW f \in Fibres, Number(f) PROVE BusIInv'
<1> DEFINE step == IF f = Closer THEN "retaining" ELSE "publishing"
<1>1. /\ At(f, "holding") /\ emitting' = f /\ sequence' = sequence + 1
      /\ fibre' = [fibre EXCEPT ![f] = [pc |-> step, seq |-> sequence + 1]]
      /\ UNCHANGED <<order, closed, sizes, sub>>
  BY DEF Number
<1>2. [pc |-> step, seq |-> sequence + 1] \in FibreRec /\ step \in Unpublished
  BY DEF FibreRec, FibrePCs, Held, Unpublished, BusIInv, BusShape
<1>3. /\ fibre' \in [Fibres -> FibreRec] /\ step \in Unpublished
      /\ fibre'[f].pc = step /\ fibre'[f].seq = sequence + 1
      /\ \A g \in Fibres \ {f} : fibre'[g] = fibre[g]
  BY <1>1, <1>2 DEF BusIInv, BusShape
<1> HIDE DEF step
<1>4. order = f /\ \A g \in Fibres \ {f} : fibre[g].pc \notin Held
  BY <1>1, OneHolder DEF BusIInv, At, Held
<1>5. sequence \in Nat /\ closed <= sequence /\ closed \in Nat
  BY DEF BusIInv, BusShape
<1>6. BusShape'
  <2>1. IsFiniteSet(begun') /\ sequence' + Cardinality(begun') <= MaxSequence
    BY <1>1, <1>3, BegunMoves DEF BusIInv, At, Unpublished
  <2>2. \A s \in Subscribers : sub[s] \in SubRec
    BY DEF BusIInv, BusShape
  <2>3. \A s \in Subscribers : /\ \A i \in DOMAIN sub[s].backlog : sub[s].backlog[i] <= sequence + 1
                              /\ sub[s].since <= sequence + 1
    <3> SUFFICES ASSUME NEW s \in Subscribers
                 PROVE  /\ \A i \in DOMAIN sub[s].backlog : sub[s].backlog[i] <= sequence + 1
                        /\ sub[s].since <= sequence + 1
      OBVIOUS
    <3>1. sub[s].since \in Nat /\ \A i \in DOMAIN sub[s].backlog : sub[s].backlog[i] \in Nat
      BY <2>2 DEF SubRec
    <3>2. QED
      BY <3>1, <1>5 DEF BusIInv, BusShape
  <2>4. \A g \in Fibres : fibre'[g].seq <= sequence + 1
    BY <1>3, <1>5 DEF BusIInv, BusShape, FibreRec
  <2>5. sizes \subseteq 1 .. sequence + 1
    BY <1>5 DEF BusIInv, BusShape
  <2>6. QED
    BY <1>1, <1>3, <1>5, <2>1, <2>3, <2>4, <2>5 DEF BusIInv, BusShape
<1>7. Permit'
  BY <1>1, <1>3, <1>4 DEF BusIInv, Permit, Held, Numbered, At, Unpublished
<1>8. Fresh'
  <2>1. ASSUME NEW s \in Subscribers, NEW i \in DOMAIN sub[s].backlog
        PROVE  sub[s].backlog[i] < sequence + 1
    <3>1. sub[s].backlog[i] <= sequence /\ sub[s].backlog[i] \in Nat
      BY DEF BusIInv, BusShape, SubRec
    <3>2. QED
      BY <3>1, <1>5
  <2>2. step = "retaining" => f = Closer
    BY DEF step
  <2>3. ASSUME NEW g \in Fibres PROVE /\ fibre'[g].pc \in Numbered => g = f
                                      /\ fibre'[g].pc \in Unpublished => g = f
    BY <1>3, <1>4 DEF Numbered, Held, Unpublished
  <2>4. sequence' > 0 /\ fibre'[f].seq = sequence'
    BY <1>1, <1>3, <1>5
  <2>5. At(f, "retaining")' => f = Closer
    BY <1>3, <2>2 DEF At
  <2>6. ASSUME NEW g \in Fibres \ {f} PROVE ~At(g, "retaining")'
    BY <1>3, <1>4 DEF At, Held
  <2>7. QED
    BY <1>1, <2>1, <2>3, <2>4, <2>5, <2>6 DEF Fresh
<1>9. Closing'
  <2>1. CASE f = Closer
    <3>1. closed = 0 /\ step = "retaining"
      BY <1>1, <2>1 DEF BusIInv, Closing, At, step
    <3>2. QED
      BY <1>1, <1>3, <2>1, <3>1 DEF Closing, At
  <2>2. CASE f # Closer
    <3>1. fibre'[Closer] = fibre[Closer] /\ ~At(Closer, "publishing")
      BY <1>3, <1>4, <2>2, BusAssumption DEF At, Held
    <3>2. closed < sequence + 1
      BY <1>5
    <3>3. QED
      BY <1>1, <3>1, <3>2 DEF BusIInv, Closing, At
  <2>3. QED
    BY <2>1, <2>2
<1>10. Shown'
  <2>1. closePublished' => closePublished
    <3>1. CASE f = Closer
      BY <1>1, <3>1 DEF closePublished, At, BusIInv, Closing
    <3>2. CASE f # Closer
      BY <1>1, <1>3, <3>2, BusAssumption DEF closePublished, At
    <3>3. QED
      BY <3>1, <3>2
  <2>2. QED
    BY <1>1, <2>1 DEF BusIInv, Shown
<1>11. QED
  BY <1>6, <1>7, <1>8, <1>9, <1>10 DEF BusIInv

LEMMA RetainInv == ASSUME BusIInv, NEW f \in Fibres, Retain(f) PROVE BusIInv'
<1>1. /\ At(f, "retaining") /\ closed' = fibre[f].seq /\ Goto(f, "publishing")
      /\ UNCHANGED <<sequence, order, emitting, sizes, sub>>
  BY DEF Retain
<1>2. /\ fibre' \in [Fibres -> FibreRec]
      /\ fibre'[f].pc = "publishing" /\ fibre'[f].seq = fibre[f].seq
      /\ \A g \in Fibres \ {f} : fibre'[g] = fibre[g]
  BY <1>1, FibreMoves DEF BusIInv, FibrePCs, Held
<1>3. /\ order = f /\ \A g \in Fibres \ {f} : fibre[g].pc \notin Held
      /\ f = Closer /\ fibre[f].seq = sequence /\ sequence > 0 /\ sequence \in Nat
  BY <1>1, OneHolder DEF BusIInv, At, Held, Numbered, Fresh, BusShape
<1>4. BusShape'
  <2>1. IsFiniteSet(begun') /\ sequence' + Cardinality(begun') <= MaxSequence
    BY <1>1, <1>2, <1>3, BegunMoves DEF BusIInv, At
  <2>2. \A g \in Fibres : fibre'[g].seq <= sequence
    BY <1>2 DEF BusIInv, BusShape
  <2>3. QED
    BY <1>1, <1>2, <1>3, <2>1, <2>2 DEF BusIInv, BusShape
<1>5. Permit'
  BY <1>1, <1>2 DEF BusIInv, Permit, At, Held, Numbered
<1>6. Fresh'
  BY <1>1, <1>2, <1>3 DEF BusIInv, Fresh, At, Held, Numbered, Unpublished
<1>7. Closing'
  BY <1>1, <1>2, <1>3 DEF BusIInv, Closing, At, Held, Numbered
<1>8. Shown'
  BY <1>1, <1>2, <1>3 DEF BusIInv, Shown, closePublished, At
<1>9. QED
  BY <1>4, <1>5, <1>6, <1>7, <1>8 DEF BusIInv

-----------------------------------------------------------------------------
(* Where a number stands in a backlog *)

LEMMA AppendOnce ==
  ASSUME NEW b \in Seq(Nat \ {0}), NEW n \in Nat \ {0}, \A i \in DOMAIN b : b[i] # n
  PROVE  Once(Append(b, n), n)
<1>1. /\ DOMAIN Append(b, n) = 1 .. Len(b) + 1 /\ DOMAIN b = 1 .. Len(b) /\ Len(b) \in Nat
      /\ \A i \in 1 .. Len(b) : Append(b, n)[i] = b[i]
      /\ Append(b, n)[Len(b) + 1] = n
  OBVIOUS
<1>2. places(Append(b, n), n) = {Len(b) + 1}
  BY <1>1 DEF places
<1>3. Len(b) + 1 \in DOMAIN Append(b, n)
  BY <1>1
<1>4. QED
  BY <1>2, <1>3 DEF Once

LEMMA AppendKeeps ==
  ASSUME NEW b \in Seq(Nat \ {0}), NEW n, NEW m \in Nat \ {0}, m # n, Once(b, n)
  PROVE  Once(Append(b, m), n)
<1>1. /\ DOMAIN Append(b, m) = 1 .. Len(b) + 1 /\ DOMAIN b = 1 .. Len(b) /\ Len(b) \in Nat
      /\ \A i \in 1 .. Len(b) : Append(b, m)[i] = b[i]
      /\ Append(b, m)[Len(b) + 1] = m
  OBVIOUS
<1>2. places(Append(b, m), n) = places(b, n)
  BY <1>1 DEF places
<1>3. QED
  BY <1>1, <1>2 DEF Once

LEMMA TailKeeps ==
  ASSUME NEW b \in Seq(Nat \ {0}), NEW n, b # <<>>, Head(b) # n, Once(b, n)
  PROVE  Once(Tail(b), n)
<1>1. /\ Len(b) \in Nat \ {0} /\ DOMAIN b = 1 .. Len(b) /\ DOMAIN Tail(b) = 1 .. Len(b) - 1
      /\ \A i \in 1 .. Len(b) - 1 : Tail(b)[i] = b[i + 1]
      /\ b[1] # n
  OBVIOUS
<1>2. PICK i \in DOMAIN b : places(b, n) = {i}
  BY DEF Once
<1>3. b[i] = n /\ \A j \in DOMAIN b : b[j] = n => j = i
  BY <1>2 DEF places
<1>4. i - 1 \in DOMAIN Tail(b) /\ Tail(b)[i - 1] = n
  BY <1>1, <1>3
<1>5. ASSUME NEW j \in DOMAIN Tail(b), Tail(b)[j] = n PROVE j = i - 1
  <2>1. j \in 1 .. Len(b) - 1 /\ b[j + 1] = n
    BY <1>1, <1>5
  <2>2. j + 1 = i
    BY <1>1, <1>3, <2>1
  <2>3. QED
    BY <1>1, <2>1, <2>2
<1>6. places(Tail(b), n) = {i - 1}
  BY <1>4, <1>5 DEF places
<1>7. QED
  BY <1>4, <1>6 DEF Once

-----------------------------------------------------------------------------
(* Publishing, charging, and the end of an emission *)

LEMMA PublishInv == ASSUME BusIInv, NEW f \in Fibres, Publish(f) PROVE BusIInv'
<1> DEFINE n == fibre[f].seq
<1>1. /\ At(f, "publishing") /\ Goto(f, "charging")
      /\ sizes' = IF Watchers = {} THEN sizes ELSE sizes \union {n}
      /\ sub' = [s \in Subscribers |->
                   IF s \in Subscribed THEN [sub[s] EXCEPT !.backlog = Append(@, n)] ELSE sub[s]]
      /\ UNCHANGED <<sequence, order, emitting, closed>>
  BY DEF Publish
<1>2. /\ fibre' \in [Fibres -> FibreRec]
      /\ fibre'[f].pc = "charging" /\ fibre'[f].seq = fibre[f].seq
      /\ \A g \in Fibres \ {f} : fibre'[g] = fibre[g]
  BY <1>1, FibreMoves DEF BusIInv, FibrePCs, Held
<1>3. /\ order = f /\ \A g \in Fibres \ {f} : fibre[g].pc \notin Held
      /\ n = sequence /\ sequence \in Nat \ {0}
      /\ \A s \in Subscribers : \A i \in DOMAIN sub[s].backlog : sub[s].backlog[i] < sequence
  BY <1>1, OneHolder DEF BusIInv, At, Held, Numbered, Unpublished, Fresh, BusShape
<1> HIDE DEF n
<1>4. ASSUME NEW s \in Subscribers
      PROVE  /\ sub'[s] \in SubRec /\ sub'[s].pc = sub[s].pc
             /\ sub'[s].since = sub[s].since /\ sub'[s].closes = sub[s].closes
             /\ sub'[s].backlog = IF s \in Subscribed THEN Append(sub[s].backlog, n) ELSE sub[s].backlog
             /\ sub[s].backlog \in Seq(Nat \ {0})
  <2>1. sub[s] \in SubRec /\ sub[s].backlog \in Seq(Nat \ {0})
    BY DEF BusIInv, BusShape, SubRec
  <2>2. Append(sub[s].backlog, n) \in Seq(Nat \ {0})
    BY <2>1, <1>3
  <2>3. [sub[s] EXCEPT !.backlog = Append(@, n)] \in SubRec
    BY <2>1, <2>2 DEF SubRec
  <2>4. QED
    BY <1>1, <2>1, <2>3 DEF SubRec
<1>5. ASSUME NEW s \in Subscribers, NEW i \in DOMAIN sub'[s].backlog
      PROVE  sub'[s].backlog[i] <= sequence
  <2>1. CASE s \in Subscribed
    <3> DEFINE b == sub[s].backlog
    <3>1. /\ b \in Seq(Nat \ {0}) /\ sub'[s].backlog = Append(b, n)
          /\ \A j \in DOMAIN b : b[j] < sequence
      BY <2>1, <1>3, <1>4
    <3>2. i \in 1 .. Len(b) + 1 /\ DOMAIN b = 1 .. Len(b)
      BY <1>5, <3>1
    <3>3. Append(b, n)[i] = IF i = Len(b) + 1 THEN n ELSE b[i]
      BY <3>1, <3>2
    <3>4. b[i] \in Nat \/ i = Len(b) + 1
      BY <3>1, <3>2
    <3>5. QED
      BY <3>1, <3>2, <3>3, <3>4, <1>3
  <2>2. CASE s \notin Subscribed
    BY <1>4, <1>5, <2>2 DEF BusIInv, BusShape
  <2>3. QED
    BY <2>1, <2>2
<1>6. BusShape'
  <2>1. IsFiniteSet(begun') /\ sequence' + Cardinality(begun') <= MaxSequence
    BY <1>1, <1>2, <1>3, BegunMoves DEF BusIInv, At
  <2>2. \A g \in Fibres : fibre'[g].seq <= sequence
    BY <1>2 DEF BusIInv, BusShape
  <2>3. sub' \in [Subscribers -> SubRec] /\ \A s \in Subscribers : sub'[s].since <= sequence
    BY <1>1, <1>4 DEF BusIInv, BusShape
  <2>4. sizes' \subseteq 1 .. sequence
    BY <1>1, <1>3 DEF BusIInv, BusShape
  <2>5. QED
    BY <1>1, <1>2, <1>3, <1>5, <2>1, <2>2, <2>3, <2>4 DEF BusIInv, BusShape
<1>7. Permit'
  BY <1>1, <1>2 DEF BusIInv, Permit, At, Held, Numbered
<1>8. Fresh'
  BY <1>1, <1>2, <1>3 DEF BusIInv, Fresh, At, Held, Numbered, Unpublished
<1>9. Closing'
  BY <1>1, <1>2, <1>3, BusAssumption DEF BusIInv, Closing, At, Held, Numbered
<1>10. Shown'
  <2> SUFFICES ASSUME NEW s \in Subscribers, closed # 0, sub[s].pc \in {"checked", "live"}
               PROVE  Once(sub'[s].backlog, closed)
    BY <1>1, <1>4 DEF BusIInv, Shown, closePublished
  <2>1. s \in Subscribed /\ sub'[s].backlog = Append(sub[s].backlog, n)
        /\ sub[s].backlog \in Seq(Nat \ {0})
    BY <1>4 DEF Subscribed
  <2>2. CASE f = Closer
    <3>1. closed = n
      BY <1>1, <1>3, <2>2 DEF BusIInv, Closing
    <3>2. \A i \in DOMAIN sub[s].backlog : sub[s].backlog[i] # n
      BY <1>3
    <3>3. QED
      BY <2>1, <3>1, <3>2, <1>3, AppendOnce
  <2>3. CASE f # Closer
    <3>1. closed < sequence /\ closePublished
      BY <1>1, <1>3, <2>3, BusAssumption DEF BusIInv, Closing, closePublished, At, Held, Numbered
    <3>2. Once(sub[s].backlog, closed) /\ n # closed
      BY <3>1, <1>3 DEF BusIInv, Shown, BusShape
    <3>3. QED
      BY <2>1, <3>2, <1>3, AppendKeeps
  <2>4. QED
    BY <2>2, <2>3
<1>11. QED
  BY <1>6, <1>7, <1>8, <1>9, <1>10 DEF BusIInv

\* What a subscriber may lose at one step, and keep the invariant: everything.
Dropped(s) ==
    /\ sub'[s].pc \in {"away", "lagged"} /\ sub'[s] \in SubRec
    /\ sub'[s].backlog = <<>> /\ sub'[s].since = 0 /\ sub'[s].closes = 0
KeptBut(s) ==
    /\ sub'[s] \in SubRec /\ sub'[s].pc = sub[s].pc /\ sub'[s].since = sub[s].since
    /\ sub'[s].backlog = sub[s].backlog /\ sub'[s].closes = sub[s].closes

LEMMA AwayIsRec == Away \in SubRec /\ [Away EXCEPT !.pc = "lagged"] \in SubRec
<1>1. <<>> \in Seq(Nat \ {0}) /\ 0 \in Int /\ 0 \in 0 .. 1 /\ 0 \in Nat
  OBVIOUS
<1>2. [Away EXCEPT !.pc = "lagged"] =
        [pc |-> "lagged", backlog |-> <<>>, since |-> 0, retained |-> 0, closes |-> 0]
  BY DEF Away
<1>3. QED
  BY <1>1, <1>2 DEF Away, SubRec

LEMMA ChargeInv == ASSUME BusIInv, NEW f \in Fibres, Charge(f) PROVE BusIInv'
<1> DEFINE n == fibre[f].seq
           after(s) == [sub[s] EXCEPT !.retained = @ + wireSize(n)]
<1>1. /\ At(f, "charging") /\ Goto(f, "sinking")
      /\ sub' = [s \in Subscribers |->
                   IF ~charged(s, n) THEN sub[s]
                   ELSE IF pastBound(after(s)) THEN [Away EXCEPT !.pc = "lagged"]
                   ELSE after(s)]
      /\ UNCHANGED <<sequence, order, emitting, closed, sizes>>
  BY DEF Charge
<1>2. /\ fibre' \in [Fibres -> FibreRec]
      /\ fibre'[f].pc = "sinking" /\ fibre'[f].seq = fibre[f].seq
      /\ \A g \in Fibres \ {f} : fibre'[g] = fibre[g]
  BY <1>1, FibreMoves DEF BusIInv, FibrePCs, Held
<1>3. n \in Nat /\ sequence \in Nat /\ wireSize(n) \in Int
  BY DEF BusIInv, BusShape, FibreRec, wireSize
<1> HIDE DEF n
<1>4. ASSUME NEW s \in Subscribers PROVE Dropped(s) \/ KeptBut(s)
  <2>1. sub[s] \in SubRec
    BY DEF BusIInv, BusShape
  <2>2. after(s) \in SubRec
    <3>1. sub[s].retained + wireSize(n) \in Int
      BY <1>3, <2>1 DEF SubRec
    <3>2. QED
      BY <2>1, <3>1 DEF SubRec
  <2>3. CASE sub'[s] = sub[s]
    BY <2>1, <2>3 DEF KeptBut
  <2>4. CASE sub'[s] = after(s)
    BY <2>1, <2>2, <2>4 DEF KeptBut, SubRec
  <2>5. CASE sub'[s] = [Away EXCEPT !.pc = "lagged"]
    BY <2>5, AwayIsRec DEF Dropped, Away
  <2>6. QED
    BY <1>1, <2>3, <2>4, <2>5
<1>5. sub' \in [Subscribers -> SubRec]
  BY <1>1, <1>4 DEF Dropped, KeptBut
<1>6. \A s \in Subscribers : /\ \A i \in DOMAIN sub'[s].backlog : sub'[s].backlog[i] <= sequence
                             /\ sub'[s].since <= sequence
  BY <1>3, <1>4 DEF BusIInv, BusShape, Dropped, KeptBut
<1>7. BusShape'
  <2>1. IsFiniteSet(begun') /\ sequence' + Cardinality(begun') <= MaxSequence
    BY <1>1, <1>2, <1>3, BegunMoves DEF BusIInv, At
  <2>2. \A g \in Fibres : fibre'[g].seq <= sequence
    BY <1>2 DEF BusIInv, BusShape
  <2>3. QED
    BY <1>1, <1>2, <1>5, <1>6, <2>1, <2>2 DEF BusIInv, BusShape
<1>8. Permit'
  BY <1>1, <1>2 DEF BusIInv, Permit, At, Held, Numbered
<1>9. Fresh'
  <2>1. ASSUME NEW g \in Fibres, fibre'[g].pc \in Unpublished PROVE FALSE
    BY <2>1, <1>1, <1>2, OneHolder DEF BusIInv, At, Held, Unpublished
  <2>2. QED
    BY <1>1, <1>2, <2>1 DEF BusIInv, Fresh, At, Held, Numbered, Unpublished
<1>10. Closing'
  BY <1>1, <1>2, BusAssumption DEF BusIInv, Closing, At, Held, Numbered
<1>11. Shown'
  <2>1. closePublished' => closePublished
    BY <1>1, <1>2, BusAssumption DEF closePublished, At
  <2>2. QED
    BY <1>1, <1>4, <2>1 DEF BusIInv, Shown, Dropped, KeptBut
<1>12. QED
  BY <1>7, <1>8, <1>9, <1>10, <1>11 DEF BusIInv

LEMMA UnwindInv ==
  ASSUME BusIInv, NEW f \in Fibres, Unwind(f), UNCHANGED <<sequence, closed, sizes, sub>>,
         \/ f # Closer /\ fibre[f].pc \in Held
         \/ fibre[f].pc = "observing"
  PROVE  BusIInv'
<1>1. /\ order' = NoFibre /\ emitting' = NoFibre
      /\ fibre' \in [Fibres -> FibreRec]
      /\ fibre'[f].pc = "idle" /\ fibre'[f].seq = 0
      /\ \A g \in Fibres \ {f} : fibre'[g] = fibre[g]
  BY FibreUnwinds DEF Unwind, BusIInv
<1>2. \A g \in Fibres \ {f} : fibre[g].pc \notin Held
  BY OneHolder DEF BusIInv, Held
<1>3. Permit'
  BY <1>1, <1>2, BusAssumption DEF Permit, Held, Numbered
<1>4. QED
  BY <1>1, <1>3, QuietStep DEF At, Numbered, Held

LEMMA SinkReturnsInv == ASSUME BusIInv, NEW f \in Fibres, SinkReturns(f) PROVE BusIInv'
<1>1. /\ At(f, "sinking") /\ Goto(f, "observing")
      /\ UNCHANGED <<sequence, order, emitting, closed, sizes, sub>>
  BY DEF SinkReturns
<1>2. /\ fibre' \in [Fibres -> FibreRec]
      /\ fibre'[f].pc = "observing" /\ fibre'[f].seq = fibre[f].seq
      /\ \A g \in Fibres \ {f} : fibre'[g] = fibre[g]
  BY <1>1, FibreMoves DEF BusIInv, FibrePCs, Held
<1>3. Permit'
  BY <1>1, <1>2 DEF BusIInv, Permit, At, Held, Numbered
<1>4. QED
  BY <1>1, <1>2, <1>3, QuietStep DEF At, Numbered, Held, Unpublished, BusIInv, BusShape

LEMMA InterruptEmitInv == ASSUME BusIInv, NEW f \in Fibres, InterruptEmit(f) PROVE BusIInv'
<1>1. f # Closer /\ UNCHANGED <<sequence, closed, sizes, sub>>
  BY DEF InterruptEmit
<1>2. CASE fibre[f].pc \in {"holding", "publishing", "charging", "observing"} /\ Unwind(f)
  BY <1>1, <1>2, UnwindInv DEF Held
<1>3. CASE At(f, "waiting") /\ fibre' = [fibre EXCEPT ![f] = Idle] /\ UNCHANGED <<order, emitting>>
  <2>1. /\ fibre' \in [Fibres -> FibreRec]
        /\ fibre'[f].pc = "idle" /\ fibre'[f].seq = 0
        /\ \A g \in Fibres \ {f} : fibre'[g] = fibre[g]
    BY <1>3, FibreUnwinds DEF BusIInv
  <2>2. Permit'
    BY <1>3, <2>1 DEF BusIInv, Permit, At, Held, Numbered
  <2>3. QED
    BY <1>1, <1>3, <2>1, <2>2, QuietStep DEF At, Numbered, Held, BusIInv, BusShape
<1>4. QED
  BY <1>2, <1>3 DEF InterruptEmit

LEMMA EmitInv == ASSUME BusIInv, NEW f \in Fibres, Emit(f) PROVE BusIInv'
<1>1. CASE Reenter(f)
  BY <1>1 DEF Reenter, BusIInv, Permit, At, Held, Numbered
<1>2. CASE Return(f)
  BY <1>2, UnwindInv DEF Return, At
<1>3. QED
  BY <1>1, <1>2, EnterInv, TakePermitInv, NumberInv, RetainInv, PublishInv, ChargeInv,
     InterruptEmitInv DEF Emit

-----------------------------------------------------------------------------
(* Subscribing *)

LEMMA EndedIsRec ==
  LET to == [Away EXCEPT !.pc = "ended", !.closes = 1]
  IN  /\ to \in SubRec /\ to.pc = "ended" /\ DOMAIN to.backlog = {}
      /\ to.since = 0 /\ to.closes = 1
<1> DEFINE half == [Away EXCEPT !.pc = "ended"]
           to == [Away EXCEPT !.pc = "ended", !.closes = 1]
<1>1. half \in SubRec /\ half.pc = "ended" /\ half.backlog = <<>> /\ half.since = 0
  BY AwayIsRec DEF Away, SubRec
<1>2. to = [half EXCEPT !.closes = 1]
  BY Zenon
<1>3. DOMAIN <<>> = {}
  OBVIOUS
<1> HIDE DEF half, to
<1>4. /\ to \in SubRec /\ to.pc = "ended" /\ to.backlog = <<>>
      /\ to.since = 0 /\ to.closes = 1
  BY <1>1, <1>2 DEF SubRec
<1>5. QED
  BY <1>3, <1>4 DEF to

LEMMA EndsEmpty ==
  ASSUME NEW k
  PROVE  LET to == [Away EXCEPT !.pc = "ended", !.closes = k]
         IN  to.backlog = <<>> /\ to.retained = 0 /\ to.pc = "ended"
<1> DEFINE half == [Away EXCEPT !.pc = "ended"]
           to == [half EXCEPT !.closes = k]
<1>1. half = [pc |-> "ended", backlog |-> <<>>, since |-> 0, retained |-> 0, closes |-> 0]
  BY DEF Away
<1>2. to.backlog = <<>> /\ to.retained = 0 /\ to.pc = "ended"
  BY <1>1
<1>3. to = [Away EXCEPT !.pc = "ended", !.closes = k]
  BY Zenon
<1>4. QED
  BY <1>2, <1>3, Zenon

\* A step of one subscriber, after which its backlog holds nothing new.
LEMMA ObserveStep ==
  ASSUME BusIInv, NEW s \in Subscribers, NEW to,
         UNCHANGED <<sequence, order, emitting, closed, sizes, fibre>>,
         sub' = [sub EXCEPT ![s] = to], to \in SubRec,
         \A i \in DOMAIN to.backlog : \E j \in DOMAIN sub[s].backlog :
            to.backlog[i] = sub[s].backlog[j],
         to.since \in {0, sequence, sub[s].since},
         to.closes = IF to.pc = "ended" THEN 1 ELSE 0,
         closePublished /\ to.pc \in {"checked", "live"} => Once(to.backlog, closed)
  PROVE  BusIInv'
<1>1. sub' \in [Subscribers -> SubRec] /\ \A t \in Subscribers : sub'[t] = IF t = s THEN to ELSE sub[t]
  BY DEF BusIInv, BusShape
<1>2. \A t \in Subscribers : \A i \in DOMAIN sub'[t].backlog : \E j \in DOMAIN sub[t].backlog :
            sub'[t].backlog[i] = sub[t].backlog[j]
  BY <1>1
<1>3. BusShape'
  <2>1. begun' = begun
    BY DEF begun, At
  <2>2. \A t \in Subscribers : \A i \in DOMAIN sub'[t].backlog : sub'[t].backlog[i] <= sequence
    BY <1>2 DEF BusIInv, BusShape
  <2>3. \A t \in Subscribers : sub'[t].since <= sequence
    BY <1>1 DEF BusIInv, BusShape
  <2>4. QED
    BY <1>1, <2>1, <2>2, <2>3 DEF BusIInv, BusShape
<1>4. Permit' /\ Closing'
  BY DEF BusIInv, Permit, Closing, At
<1>5. Fresh'
  BY <1>2 DEF BusIInv, Fresh, At
<1>6. Shown'
  <2>1. closePublished' = closePublished
    BY DEF closePublished, At
  <2>2. QED
    BY <1>1, <2>1 DEF BusIInv, Shown
<1>7. QED
  BY <1>3, <1>4, <1>5, <1>6 DEF BusIInv

LEMMA ObserveInv == ASSUME BusIInv, NEW s \in Subscribers, Observe(s) PROVE BusIInv'
<1> DEFINE b == sub[s].backlog
<1>1. /\ sub[s] \in SubRec /\ sub \in [Subscribers -> SubRec] /\ b \in Seq(Nat \ {0})
      /\ sub[s].closes = (IF sub[s].pc = "ended" THEN 1 ELSE 0) /\ sequence \in Nat
      /\ closePublished /\ sub[s].pc \in {"checked", "live"} => Once(b, closed)
  BY DEF BusIInv, BusShape, SubRec, Shown
<1>2. CASE Subscribe(s)
  <2> DEFINE to == [sub[s] EXCEPT !.pc = "registered"]
  <2>1. /\ sub' = [sub EXCEPT ![s] = to] /\ sub[s].pc = "away"
        /\ UNCHANGED <<sequence, order, emitting, closed, sizes, fibre>>
    BY <1>2 DEF Subscribe
  <2>2. /\ to \in SubRec /\ to.pc = "registered" /\ to.backlog = b
        /\ to.since = sub[s].since /\ to.closes = 0
    BY <1>1, <2>1 DEF SubRec
  <2> HIDE DEF to
  <2>3. QED
    BY <2>1, <2>2, ObserveStep
<1>3. CASE ReadClosed(s)
  <2>1. /\ sub[s].pc = "registered" /\ UNCHANGED <<sequence, order, emitting, closed, sizes, fibre>>
        /\ sub' = [sub EXCEPT ![s] = IF closed = 0 THEN [@ EXCEPT !.pc = "checked"]
                                     ELSE [Away EXCEPT !.pc = "ended", !.closes = 1]]
    BY <1>3 DEF ReadClosed
  <2>2. CASE closed = 0
    <3> DEFINE to == [sub[s] EXCEPT !.pc = "checked"]
    <3>1. sub' = [sub EXCEPT ![s] = to]
      BY <2>1, <2>2
    <3>2. /\ to \in SubRec /\ to.pc = "checked" /\ to.backlog = b
          /\ to.since = sub[s].since /\ to.closes = 0
      BY <1>1, <2>1 DEF SubRec
    <3> HIDE DEF to
    <3>3. ~closePublished
      BY <2>2 DEF closePublished
    <3>4. QED
      BY <2>1, <3>1, <3>2, <3>3, ObserveStep
  <2>3. CASE closed # 0
    <3> DEFINE to == [Away EXCEPT !.pc = "ended", !.closes = 1]
    <3>1. sub' = [sub EXCEPT ![s] = to]
      BY <2>1, <2>3
    <3>2. /\ to \in SubRec /\ to.pc = "ended" /\ DOMAIN to.backlog = {}
          /\ to.since = 0 /\ to.closes = 1
      BY EndedIsRec, Zenon
    <3> HIDE DEF to
    <3>3. QED
      BY <2>1, <3>1, <3>2, ObserveStep
  <2>4. QED
    BY <2>2, <2>3
<1>4. CASE Watch(s)
  <2> DEFINE to == [sub[s] EXCEPT !.pc = "live", !.since = sequence]
  <2>1. /\ sub[s].pc = "checked" /\ UNCHANGED <<sequence, order, emitting, closed, sizes, fibre>>
        /\ sub' = [sub EXCEPT ![s] = to]
    BY <1>1, <1>4 DEF Watch, SubRec
  <2>2. /\ to \in SubRec /\ to.pc = "live" /\ to.backlog = b
        /\ to.since = sequence /\ to.closes = 0
    BY <1>1, <2>1 DEF SubRec
  <2> HIDE DEF to
  <2>3. QED
    BY <1>1, <2>1, <2>2, ObserveStep
<1>5. CASE Pull(s)
  <2> DEFINE n == Head(b)
             end == [Away EXCEPT !.pc = "ended", !.closes = 1]
             on == [sub[s] EXCEPT !.backlog = Tail(@), !.retained = @ - credit(s, n)]
  <2>1. /\ sub[s].pc = "live" /\ b # <<>>
        /\ UNCHANGED <<sequence, order, emitting, closed, sizes, fibre>>
        /\ sub' = [sub EXCEPT ![s] = IF n = closed THEN end ELSE on]
    <3>1. sub[s].pc = "live"
      BY <1>5 DEF Pull
    <3>2. sub[s].closes + 1 = 1
      BY <1>1, <3>1
    <3>3. /\ b # <<>> /\ UNCHANGED <<sequence, order, emitting, closed, sizes, fibre>>
          /\ sub' = [sub EXCEPT ![s] =
                IF n = closed THEN [Away EXCEPT !.pc = "ended", !.closes = sub[s].closes + 1] ELSE on]
      BY <1>5 DEF Pull
    <3>4. QED
      BY <3>1, <3>2, <3>3, Zenon
  <2>2. CASE n = closed
    <3>1. /\ end \in SubRec /\ end.pc = "ended" /\ DOMAIN end.backlog = {}
          /\ end.since = 0 /\ end.closes = 1
      BY EndedIsRec, Zenon
    <3>2. sub' = [sub EXCEPT ![s] = end]
      BY <2>1, <2>2
    <3> HIDE DEF end
    <3>3. QED
      BY <2>1, <3>1, <3>2, ObserveStep
  <2>3. CASE n # closed
    <3>1. /\ n \in Nat \ {0} /\ Tail(b) \in Seq(Nat \ {0})
          /\ \A i \in DOMAIN Tail(b) : i + 1 \in DOMAIN b /\ Tail(b)[i] = b[i + 1]
      BY <1>1, <2>1
    <3>2. sub[s].retained - credit(s, n) \in Int
      BY <1>1, <3>1 DEF credit, wireSize, SubRec
    <3>3. /\ on \in SubRec /\ on.pc = "live" /\ on.backlog = Tail(b)
          /\ on.since = sub[s].since /\ on.closes = 0
      BY <1>1, <2>1, <3>1, <3>2 DEF SubRec
    <3>4. closePublished => Once(Tail(b), closed)
      BY <1>1, <2>1, <2>3, TailKeeps
    <3>5. sub' = [sub EXCEPT ![s] = on]
      BY <2>1, <2>3
    <3>6. \A i \in DOMAIN on.backlog : \E j \in DOMAIN b : on.backlog[i] = b[j]
      BY <3>1, <3>3
    <3> HIDE DEF on
    <3>7. QED
      BY <2>1, <3>3, <3>4, <3>5, <3>6, ObserveStep
  <2>4. QED
    BY <2>2, <2>3
<1>6. CASE Leave(s)
  <2>1. sub' = [sub EXCEPT ![s] = Away] /\ UNCHANGED <<sequence, order, emitting, closed, sizes, fibre>>
    BY <1>6 DEF Leave
  <2>2. /\ Away \in SubRec /\ Away.pc = "away" /\ DOMAIN Away.backlog = {}
        /\ Away.since = 0 /\ Away.closes = 0
    BY AwayIsRec DEF Away
  <2>3. QED
    BY <2>1, <2>2, ObserveStep
<1>7. QED
  BY <1>2, <1>3, <1>4, <1>5, <1>6 DEF Observe

-----------------------------------------------------------------------------
(* The composition *)

\* What a step of the session's recording does to the bus.
LEMMA BusSteps ==
  ASSUME Next
  PROVE  \/ \E f \in Fibres : Emit(f)
         \/ \E f \in Fibres : SinkReturns(f)
         \/ \E f \in Fibres \ {Closer} : SinkDies(f)
         \/ \E s \in Subscribers : Observe(s)
         \/ UNCHANGED busVars
BY BusAssumption DEF Next, BeginRecord, Recorded, NotRecorded, PassUnrecorded, Replay

LEMMA BusStep == BusIInv /\ [Next]_vars => BusIInv'
<1> SUFFICES ASSUME BusIInv, [Next]_vars PROVE BusIInv'
  OBVIOUS
<1>1. ASSUME NEW f \in Fibres, Emit(f) PROVE BusIInv'
  BY <1>1, EmitInv
<1>2. ASSUME NEW f \in Fibres, SinkReturns(f) PROVE BusIInv'
  BY <1>2, SinkReturnsInv
<1>3. ASSUME NEW f \in Fibres \ {Closer}, SinkDies(f) PROVE BusIInv'
  BY <1>3, UnwindInv DEF SinkDies, At, Held
<1>4. ASSUME NEW s \in Subscribers, Observe(s) PROVE BusIInv'
  BY <1>4, ObserveInv
<1>5. CASE UNCHANGED busVars
  <2>1. begun' = begun
    BY <1>5 DEF busVars, begun, At
  <2>2. closePublished' = closePublished
    BY <1>5 DEF busVars, closePublished, At
  <2>3. QED
    BY <1>5, <2>1, <2>2 DEF busVars, BusIInv, BusShape, Permit, Fresh, Closing, Shown, At
<1>6. UNCHANGED vars => UNCHANGED busVars
  BY DEF vars
<1>7. QED
  BY <1>1, <1>2, <1>3, <1>4, <1>5, <1>6, BusSteps

LEMMA BusInvariance == Spec => []BusIInv
<1>1. Init => BusIInv
  BY PermitInit DEF Init, BusIInv
<1>2. QED
  BY <1>1, BusStep, PTL DEF Spec

-----------------------------------------------------------------------------
\* The state of the bus stays within its bounds: no number beyond the last
\* one given is in a backlog, and no subscriber is shown the close twice.
THEOREM SpecBusTypeOK == Spec => []BusTypeOK
<1>1. BusIInv => BusTypeOK
  <2> SUFFICES ASSUME BusIInv PROVE BusTypeOK
    OBVIOUS
  <2>1. /\ sequence \in Nat /\ Cardinality(begun) \in Nat
        /\ sequence + Cardinality(begun) <= MaxSequence /\ MaxSequence \in Nat
    BY FS_CardinalityType, BusAssumption DEF BusIInv, BusShape
  <2>2. sequence \in 0 .. MaxSequence
    BY <2>1
  <2>3. \A f \in Fibres : fibre[f].seq \in 0 .. sequence
    BY <2>1 DEF BusIInv, BusShape, FibreRec
  <2>4. ASSUME NEW s \in Subscribers
        PROVE  /\ Range(sub[s].backlog) \subseteq 1 .. sequence
               /\ sub[s].since \in 0 .. sequence /\ sub[s].closes \in 0 .. 1
    <3>1. /\ sub[s].backlog \in Seq(Nat \ {0}) /\ sub[s].since \in Nat /\ sub[s].closes \in 0 .. 1
          /\ sub[s].since <= sequence
          /\ \A i \in DOMAIN sub[s].backlog : sub[s].backlog[i] <= sequence
      BY DEF BusIInv, BusShape, SubRec
    <3>2. \A i \in DOMAIN sub[s].backlog : sub[s].backlog[i] \in 1 .. sequence
      BY <2>1, <3>1
    <3>3. QED
      BY <2>1, <3>1, <3>2 DEF Range
  <2>5. QED
    BY <2>2, <2>3, <2>4 DEF BusIInv, BusShape, BusTypeOK
<1>2. QED
  BY <1>1, BusInvariance, PTL

\* The marker names the fibre that holds the permit, so an observer that emits
\* is refused: it never waits for the permit its own fibre holds.
THEOREM SpecReentryIsRefused == Spec => []ReentryIsRefused
<1>1. BusIInv => ReentryIsRefused
  BY DEF BusIInv, BusShape, FibreRec, FibrePCs, Permit, ReentryIsRefused, At, Held, Numbered
<1>2. QED
  BY <1>1, BusInvariance, PTL

\* A subscriber that found no close retained has it coming exactly once, and
\* one whose stream has ended was shown it exactly once.
THEOREM SpecCloseReachesEveryone == Spec => []CloseReachesEveryone
<1>1. BusIInv => CloseReachesEveryone
  <2> SUFFICES ASSUME BusIInv PROVE CloseReachesEveryone
    OBVIOUS
  <2>1. ASSUME NEW s \in Subscribers, closePublished, sub[s].pc \in {"checked", "live"}
        PROVE  Cardinality({ i \in DOMAIN sub[s].backlog : sub[s].backlog[i] = closed }) = 1
    <3>1. PICK i \in DOMAIN sub[s].backlog : places(sub[s].backlog, closed) = {i}
      BY <2>1 DEF BusIInv, Shown, Once
    <3>2. QED
      BY <3>1, FS_Singleton DEF places
  <2>2. \A s \in Subscribers : sub[s].pc = "ended" => sub[s].closes = 1
    BY DEF BusIInv, Shown
  <2>3. QED
    BY <2>1, <2>2 DEF CloseReachesEveryone
<1>2. QED
  BY <1>1, BusInvariance, PTL

-----------------------------------------------------------------------------
(* The bytes of a set of envelopes, and the numbers in a backlog *)

LEMMA WireSizes == ASSUME NEW n \in Nat PROVE wireSize(n) = 1 \/ wireSize(n) = 2
BY DEF wireSize

LEMMA BytesFinite ==
  ASSUME NEW top \in Nat, NEW N \in SUBSET (1 .. top)
  PROVE  IsFiniteSet(bytes(N)) /\ Cardinality(bytes(N)) \in Nat
<1>1. IsFiniteSet(1 .. top) /\ IsFiniteSet(1 .. 2)
  <2>1. 1 \in Int /\ 2 \in Int /\ top \in Int
    OBVIOUS
  <2>2. QED
    BY <2>1, FS_Interval
<1>2. IsFiniteSet((1 .. top) \X (1 .. 2))
  BY <1>1, FS_Product
<1>3. bytes(N) \subseteq (1 .. top) \X (1 .. 2)
  BY WireSizes DEF bytes
<1>4. IsFiniteSet(bytes(N))
  BY <1>2, <1>3, FS_Subset
<1>5. QED
  BY <1>4, FS_CardinalityType

LEMMA BytesAdd ==
  ASSUME NEW top \in Nat, NEW N \in SUBSET (1 .. top), NEW n \in Nat, n \notin N
  PROVE  Cardinality(bytes(N \union {n})) = Cardinality(bytes(N)) + wireSize(n)
<1> DEFINE B == bytes(N)
<1>1. IsFiniteSet(B) /\ Cardinality(B) \in Nat
  BY BytesFinite
<1>2. <<n, 1>> \notin B /\ <<n, 2>> \notin B \union {<<n, 1>>}
  BY DEF bytes
<1>3. bytes(N \union {n}) = B \union ({n} \X (1 .. wireSize(n)))
  BY DEF bytes
<1> HIDE DEF B
<1>4. IsFiniteSet(B \union {<<n, 1>>}) /\ Cardinality(B \union {<<n, 1>>}) = Cardinality(B) + 1
  BY <1>1, <1>2, FS_AddElement
<1>5. CASE wireSize(n) = 1
  <2>1. {n} \X (1 .. wireSize(n)) = {<<n, 1>>}
    BY <1>5
  <2>2. QED
    BY <1>3, <1>4, <1>5, <2>1 DEF B
<1>6. CASE wireSize(n) = 2
  <2>1. {n} \X (1 .. wireSize(n)) = {<<n, 1>>} \union {<<n, 2>>}
    BY <1>6
  <2>2. Cardinality((B \union {<<n, 1>>}) \union {<<n, 2>>}) = Cardinality(B) + 1 + 1
    BY <1>1, <1>2, <1>4, FS_AddElement
  <2>3. bytes(N \union {n}) = (B \union {<<n, 1>>}) \union {<<n, 2>>}
    BY <1>3, <2>1
  <2>4. QED
    BY <1>1, <1>6, <2>2, <2>3 DEF B
<1>7. QED
  BY <1>5, <1>6, WireSizes

LEMMA BytesRemove ==
  ASSUME NEW top \in Nat, NEW N \in SUBSET (1 .. top), NEW n \in N
  PROVE  Cardinality(bytes(N)) = Cardinality(bytes(N \ {n})) + wireSize(n)
<1>1. N = (N \ {n}) \union {n} /\ n \in Nat /\ n \notin N \ {n}
  OBVIOUS
<1>2. QED
  BY <1>1, BytesAdd

LEMMA RangeAppend ==
  ASSUME NEW b \in Seq(Nat \ {0}), NEW n \in Nat \ {0}
  PROVE  Range(Append(b, n)) = Range(b) \union {n}
<1>1. /\ DOMAIN Append(b, n) = 1 .. Len(b) + 1 /\ DOMAIN b = 1 .. Len(b) /\ Len(b) \in Nat
      /\ \A i \in 1 .. Len(b) : Append(b, n)[i] = b[i]
      /\ Append(b, n)[Len(b) + 1] = n
  OBVIOUS
<1>2. ASSUME NEW i \in DOMAIN Append(b, n) PROVE Append(b, n)[i] \in Range(b) \union {n}
  BY <1>1 DEF Range
<1>3. ASSUME NEW i \in DOMAIN b PROVE b[i] \in Range(Append(b, n))
  BY <1>1 DEF Range
<1>4. n \in Range(Append(b, n))
  BY <1>1 DEF Range
<1>5. QED
  BY <1>2, <1>3, <1>4 DEF Range

LEMMA RangeTail ==
  ASSUME NEW b \in Seq(Nat \ {0}), b # <<>>, \A i, j \in DOMAIN b : b[i] = b[j] => i = j
  PROVE  Range(Tail(b)) = Range(b) \ {Head(b)}
<1>1. /\ Len(b) \in Nat \ {0} /\ DOMAIN b = 1 .. Len(b) /\ DOMAIN Tail(b) = 1 .. Len(b) - 1
      /\ \A i \in 1 .. Len(b) - 1 : Tail(b)[i] = b[i + 1]
      /\ Head(b) = b[1]
  OBVIOUS
<1>2. ASSUME NEW i \in DOMAIN Tail(b) PROVE Tail(b)[i] \in Range(b) \ {Head(b)}
  <2>1. i + 1 \in DOMAIN b /\ i + 1 # 1 /\ 1 \in DOMAIN b /\ Tail(b)[i] = b[i + 1]
    BY <1>1
  <2>2. QED
    BY <1>1, <2>1 DEF Range
<1>3. ASSUME NEW i \in DOMAIN b, b[i] # Head(b) PROVE b[i] \in Range(Tail(b))
  <2>1. i - 1 \in DOMAIN Tail(b) /\ Tail(b)[i - 1] = b[i]
    BY <1>1, <1>3
  <2>2. QED
    BY <2>1 DEF Range
<1>4. QED
  BY <1>2, <1>3 DEF Range

LEMMA OwedBounded ==
  ASSUME BusShape, NEW s \in Subscribers
  PROVE  owed(s) \in SUBSET (1 .. sequence)
BY DEF owed, Range, BusShape, SubRec

-----------------------------------------------------------------------------
(* What watchers are charged *)

\* Subscribers are left alone, and so is the charging fibre, unless it is
\* interrupted with its charge unmade.
LEMMA ChargesKept ==
  ASSUME Charges, UNCHANGED <<sub, sizes>>, uncharged => uncharged',
         \A f \in Fibres : At(f, "charging")' => At(f, "charging") /\ fibre'[f].seq = fibre[f].seq,
         \/ uncharged'
         \/ \A f \in Fibres : At(f, "charging") => At(f, "charging")' /\ sequence' = sequence
  PROVE  Charges'
<1>1. Watchers' = Watchers /\ \A s \in Subscribers : owed(s)' = owed(s)
  BY DEF Watchers, owed
<1>2. ASSUME NEW s \in Subscribers, ~uncharged' PROVE due(s)' = due(s)
  BY <1>2 DEF due
<1>3. Watchers \subseteq Subscribers
  BY DEF Watchers
<1>4. QED
  BY <1>1, <1>2, <1>3 DEF Charges

LEMMA PublishCharges == ASSUME BusIInv, Charges, NEW f \in Fibres, Publish(f) PROVE Charges'
<1> DEFINE n == sequence
<1>1. /\ fibre[f].seq = n /\ n \in Nat \ {0} /\ At(f, "publishing") /\ Goto(f, "charging")
      /\ sequence' = sequence /\ uncharged' = uncharged
      /\ sizes' = IF Watchers = {} THEN sizes ELSE sizes \union {n}
      /\ sub' = [s \in Subscribers |->
                   IF s \in Subscribed THEN [sub[s] EXCEPT !.backlog = Append(@, n)] ELSE sub[s]]
  <2>1. At(f, "publishing") /\ fibre[f].seq = n /\ n \in Nat \ {0}
    BY DEF Publish, BusIInv, BusShape, Fresh, At, Held, Numbered
  <2> HIDE DEF n
  <2>2. QED
    BY <2>1 DEF Publish
<1>2. /\ fibre'[f].pc = "charging" /\ fibre'[f].seq = n
      /\ \A g \in Fibres \ {f} : fibre'[g] = fibre[g] /\ fibre[g].pc \notin Held
      /\ \A s \in Subscribers : \A i \in DOMAIN sub[s].backlog : sub[s].backlog[i] < n
  BY <1>1, FibreMoves, OneHolder DEF BusIInv, FibrePCs, Held, At, Fresh, Unpublished
<1>3. ASSUME NEW g \in Fibres PROVE ~At(g, "charging") /\ (At(g, "charging")' => g = f)
  BY <1>1, <1>2 DEF At, Held
<1>4. ASSUME NEW s \in Subscribers
      PROVE  /\ sub'[s].pc = sub[s].pc /\ sub'[s].since = sub[s].since
             /\ sub'[s].retained = sub[s].retained
             /\ sub'[s].backlog = IF s \in Subscribed THEN Append(sub[s].backlog, n) ELSE sub[s].backlog
             /\ sub[s].backlog \in Seq(Nat \ {0}) /\ sub[s].since \in Nat /\ sub[s].retained \in Int
  <2>1. sub[s] \in SubRec
    BY DEF BusIInv, BusShape
  <2>2. QED
    BY <1>1, <2>1 DEF SubRec
<1> HIDE DEF n
<1>5. Watchers' = Watchers
  BY <1>4 DEF Watchers
<1>6. ASSUME NEW s \in Subscribers, NEW i \in DOMAIN sub'[s].backlog, NEW j \in DOMAIN sub'[s].backlog,
             sub'[s].backlog[i] = sub'[s].backlog[j]
      PROVE  i = j
  <2> DEFINE b == sub[s].backlog
  <2>1. CASE s \notin Subscribed
    BY <1>4, <1>6, <2>1 DEF Charges
  <2>2. CASE s \in Subscribed
    <3>1. /\ b \in Seq(Nat \ {0}) /\ sub'[s].backlog = Append(b, n) /\ DOMAIN b = 1 .. Len(b)
          /\ Len(b) \in Nat /\ DOMAIN Append(b, n) = 1 .. Len(b) + 1
          /\ \A k \in 1 .. Len(b) : Append(b, n)[k] = b[k] /\ b[k] # n
          /\ Append(b, n)[Len(b) + 1] = n
      <4>1. b \in Seq(Nat \ {0}) /\ sub'[s].backlog = Append(b, n) /\ n \in Nat \ {0}
        BY <1>1, <1>4, <2>2
      <4>2. \A k \in DOMAIN b : b[k] < n /\ b[k] \in Nat
        BY <1>2, <4>1
      <4>3. \A k \in DOMAIN b : b[k] # n
        BY <4>1, <4>2
      <4>4. QED
        BY <4>1, <4>3
    <3>2. i \in 1 .. Len(b) + 1 /\ j \in 1 .. Len(b) + 1
      BY <1>6, <3>1
    <3>3. CASE i \in 1 .. Len(b) /\ j \in 1 .. Len(b)
      BY <1>6, <3>1, <3>3 DEF Charges
    <3>4. i = Len(b) + 1 => ~(j \in 1 .. Len(b))
      BY <1>6, <3>1
    <3>5. j = Len(b) + 1 => ~(i \in 1 .. Len(b))
      BY <1>6, <3>1
    <3>6. /\ i \in 1 .. Len(b) \/ i = Len(b) + 1
          /\ j \in 1 .. Len(b) \/ j = Len(b) + 1
      BY <3>1, <3>2
    <3>7. QED
      BY <3>3, <3>4, <3>5, <3>6
  <2>3. QED
    BY <2>1, <2>2
<1>7. ASSUME NEW s \in Watchers
      PROVE  /\ owed(s)' \subseteq sizes'
             /\ \A g \in Fibres : At(g, "charging")' /\ fibre'[g].seq > sub'[s].since => fibre'[g].seq \in sizes'
             /\ ~uncharged => sub'[s].retained + due(s)' = Cardinality(bytes(owed(s)'))
  <2>1. /\ s \in Subscribers /\ s \in Subscribed /\ sizes' = sizes \union {n}
        /\ sub'[s].since = sub[s].since /\ sub'[s].backlog = Append(sub[s].backlog, n)
        /\ sub'[s].retained = sub[s].retained /\ sub[s].since \in Nat
    BY <1>1, <1>4 DEF Watchers, Subscribed
  <2>2. Range(sub'[s].backlog) = Range(sub[s].backlog) \union {n}
    <3>1. sub[s].backlog \in Seq(Nat \ {0}) /\ n \in Nat \ {0}
      BY <1>1, <1>4, <2>1
    <3>2. QED
      BY <2>1, <3>1, RangeAppend
  <2>3. owed(s)' = owed(s) \union (IF n > sub[s].since THEN {n} ELSE {})
    BY <2>1, <2>2 DEF owed
  <2>4. owed(s) \subseteq sizes /\ owed(s) \in SUBSET (1 .. sequence) /\ sequence \in Nat
    BY OwedBounded, <2>1 DEF Charges, BusIInv, BusShape
  <2>5. n \notin owed(s)
    BY <1>2, <2>1, <1>4, <1>1 DEF owed, Range
  <2>6. due(s) = 0
    BY <1>3 DEF due
  <2>7. due(s)' = IF n > sub[s].since THEN wireSize(n) ELSE 0
    <3>1. (\E g \in Fibres : At(g, "charging")' /\ fibre'[g].seq > sub'[s].since) <=> n > sub[s].since
      BY <1>2, <1>3, <2>1 DEF At
    <3>2. QED
      BY <1>1, <3>1 DEF due, n
  <2>8. ~uncharged => sub[s].retained + 0 = Cardinality(bytes(owed(s)))
    BY <2>6 DEF Charges
  <2>9. ~uncharged => sub'[s].retained + due(s)' = Cardinality(bytes(owed(s)'))
    <3>1. CASE n > sub[s].since
      <4>1. Cardinality(bytes(owed(s) \union {n})) = Cardinality(bytes(owed(s))) + wireSize(n)
        BY <1>1, <2>4, <2>5, BytesAdd
      <4>2. wireSize(n) \in Int /\ Cardinality(bytes(owed(s))) \in Nat /\ sub[s].retained \in Int
        BY <1>1, <1>4, <2>1, <2>4, BytesFinite, WireSizes
      <4>3. owed(s)' = owed(s) \union {n}
        BY <2>3, <3>1
      <4>4. Cardinality(bytes(owed(s)')) = Cardinality(bytes(owed(s))) + wireSize(n)
        BY <4>1, <4>3
      <4>5. due(s)' = wireSize(n) /\ sub'[s].retained = sub[s].retained
        BY <2>1, <2>7, <3>1
      <4>6. QED
        BY <2>8, <4>2, <4>4, <4>5
    <3>2. CASE ~(n > sub[s].since)
      BY <2>1, <2>3, <2>7, <2>8, <3>2
    <3>3. QED
      BY <3>1, <3>2
  <2>10. QED
    BY <1>2, <1>3, <2>1, <2>3, <2>4, <2>9
<1>8. QED
  BY <1>1, <1>4, <1>5, <1>6, <1>7 DEF Charges

LEMMA ChargeCharges == ASSUME BusIInv, Charges, NEW f \in Fibres, Charge(f) PROVE Charges'
<1> DEFINE n == sequence
           after(s) == [sub[s] EXCEPT !.retained = @ + wireSize(n)]
<1>1. /\ fibre[f].seq = n /\ n \in Nat /\ At(f, "charging") /\ Goto(f, "sinking")
      /\ uncharged' = uncharged /\ sizes' = sizes
      /\ sub' = [s \in Subscribers |->
                   IF ~charged(s, n) THEN sub[s]
                   ELSE IF pastBound(after(s)) THEN [Away EXCEPT !.pc = "lagged"]
                   ELSE after(s)]
  <2>1. At(f, "charging") /\ fibre[f].seq = n /\ n \in Nat
    BY DEF Charge, BusIInv, BusShape, Fresh, At, Held, Numbered
  <2> HIDE DEF n
  <2>2. QED
    BY <2>1 DEF Charge
<1>2. /\ fibre'[f].pc = "sinking"
      /\ \A g \in Fibres \ {f} : fibre'[g] = fibre[g] /\ fibre[g].pc \notin Held
  BY <1>1, FibreMoves, OneHolder DEF BusIInv, FibrePCs, Held, At
<1>3. ASSUME NEW g \in Fibres PROVE ~At(g, "charging")' /\ (At(g, "charging") => g = f)
  BY <1>1, <1>2 DEF At, Held
<1>4. wireSize(n) \in 1 .. 2
  BY <1>1, WireSizes
<1>5. ASSUME NEW s \in Subscribers
      PROVE  \/ sub'[s] = sub[s] /\ ~charged(s, n)
             \/ Dropped(s) /\ sub'[s].retained = 0
             \/ KeptBut(s) /\ s \in Watchers /\ n > sub[s].since
                  /\ sub'[s].retained = sub[s].retained + wireSize(n) /\ sub'[s].retained <= MaxBytes
  <2>1. sub[s] \in SubRec /\ sub[s].retained + wireSize(n) \in Int
    BY <1>4 DEF BusIInv, BusShape, SubRec
  <2>2. CASE ~charged(s, n)
    BY <1>1, <2>2
  <2>3. CASE charged(s, n) /\ pastBound(after(s))
    <3>1. sub'[s] = [Away EXCEPT !.pc = "lagged"]
      BY <1>1, <2>3
    <3>2. QED
      BY <3>1, AwayIsRec DEF Dropped, Away
  <2>4. CASE charged(s, n) /\ ~pastBound(after(s))
    <3>1. sub'[s] = after(s) /\ s \in Watchers /\ n > sub[s].since
      BY <1>1, <2>4 DEF charged
    <3>2. /\ after(s) \in SubRec /\ after(s).retained = sub[s].retained + wireSize(n)
          /\ after(s).pc = sub[s].pc /\ after(s).since = sub[s].since
          /\ after(s).backlog = sub[s].backlog /\ after(s).closes = sub[s].closes
      BY <2>1 DEF SubRec
    <3>3. ~(after(s).retained > MaxBytes)
      BY <2>4 DEF pastBound
    <3> HIDE DEF after
    <3>4. sub'[s].retained <= MaxBytes
      BY <2>1, <3>1, <3>2, <3>3, BusAssumption
    <3>5. QED
      BY <3>1, <3>2, <3>4 DEF KeptBut
  <2>5. QED
    BY <2>2, <2>3, <2>4
<1> HIDE DEF n, after
<1>6. Watchers' \subseteq Watchers
  BY <1>5 DEF Watchers, Dropped, KeptBut
<1>7. ASSUME NEW s \in Subscribers
      PROVE  /\ \A i, j \in DOMAIN sub'[s].backlog : sub'[s].backlog[i] = sub'[s].backlog[j] => i = j
             /\ sub'[s].pc # "live" => sub'[s].retained = 0
             /\ sub'[s].pc = "live" => sub'[s].retained <= MaxBytes
  <2>1. CASE sub'[s] = sub[s]
    BY <2>1 DEF Charges
  <2>2. CASE Dropped(s) /\ sub'[s].retained = 0
    BY <2>2 DEF Dropped
  <2>3. CASE KeptBut(s) /\ s \in Watchers /\ sub'[s].retained <= MaxBytes
    BY <2>3 DEF KeptBut, Charges, Watchers
  <2>4. QED
    BY <1>5, <2>1, <2>2, <2>3
<1>8. ASSUME NEW s \in Watchers'
      PROVE  /\ owed(s)' \subseteq sizes'
             /\ \A g \in Fibres : At(g, "charging")' /\ fibre'[g].seq > sub'[s].since => fibre'[g].seq \in sizes'
             /\ ~uncharged => sub'[s].retained + due(s)' = Cardinality(bytes(owed(s)'))
  <2>1. s \in Watchers /\ s \in Subscribers /\ sub'[s].pc = "live"
    BY <1>6 DEF Watchers
  <2>2. owed(s)' = owed(s)
    BY <1>5, <2>1 DEF owed, Dropped, KeptBut
  <2>3. due(s)' = 0
    BY <1>3 DEF due
  <2>4. /\ sub[s].retained \in Int /\ sub'[s].retained \in Int /\ Cardinality(bytes(owed(s))) \in Nat
        /\ sub[s].since \in Nat
    <3>1. sub[s] \in SubRec /\ owed(s) \in SUBSET (1 .. sequence) /\ sequence \in Nat
      BY <2>1, OwedBounded DEF BusIInv, BusShape
    <3>2. sub[s].retained \in Int /\ sub[s].since \in Nat
      BY <3>1 DEF SubRec
    <3>3. sub'[s] \in SubRec
      BY <1>5, <2>1, <3>1 DEF Dropped, KeptBut
    <3>4. sub'[s].retained \in Int
      BY <3>3 DEF SubRec
    <3>5. QED
      BY <3>1, <3>2, <3>4, BytesFinite
  <2>5. CASE sub'[s] = sub[s] /\ ~charged(s, n)
    <3>1. due(s) = 0
      <4>1. ~(n > sub[s].since)
        BY <2>1, <2>5 DEF charged
      <4>2. ~(\E g \in Fibres : At(g, "charging") /\ fibre[g].seq > sub[s].since)
        BY <1>1, <1>3, <4>1
      <4>3. QED
        BY <4>2 DEF due
    <3>2. ~uncharged => sub[s].retained + due(s) = Cardinality(bytes(owed(s)))
      BY <2>1 DEF Charges
    <3>3. QED
      BY <1>1, <1>3, <2>1, <2>2, <2>3, <2>5, <3>1, <3>2 DEF Charges
  <2>6. CASE KeptBut(s) /\ n > sub[s].since /\ sub'[s].retained = sub[s].retained + wireSize(n)
    <3>1. due(s) = wireSize(n)
      BY <1>1, <2>6 DEF due, n
    <3>2. ~uncharged => sub[s].retained + due(s) = Cardinality(bytes(owed(s)))
      BY <2>1 DEF Charges
    <3>3. ~uncharged => sub'[s].retained + due(s)' = Cardinality(bytes(owed(s)'))
      BY <1>4, <2>2, <2>3, <2>4, <2>6, <3>1, <3>2
    <3>4. owed(s) \subseteq sizes
      BY <2>1 DEF Charges
    <3>5. QED
      BY <1>1, <1>3, <2>2, <3>3, <3>4
  <2>7. QED
    BY <1>5, <2>1, <2>5, <2>6 DEF Dropped
<1>9. QED
  BY <1>1, <1>7, <1>8 DEF Charges

LEMMA EmitCharges == ASSUME BusIInv, Charges, NEW f \in Fibres, Emit(f) PROVE Charges'
<1>1. CASE Enter(f) \/ TakePermit(f)
  <2>1. /\ fibre[f].pc \in {"idle", "waiting"} /\ UNCHANGED <<sequence, sizes, sub, uncharged>>
        /\ \E step \in {"waiting", "holding"} : Goto(f, step)
    BY <1>1 DEF Enter, TakePermit, At
  <2>2. \A g \in Fibres : At(g, "charging")' <=> At(g, "charging")
    BY <2>1, FibreMoves DEF At, BusIInv, FibrePCs, Held
  <2>3. \A g \in Fibres : At(g, "charging") => fibre'[g] = fibre[g]
    BY <2>1, FibreMoves DEF At, BusIInv, FibrePCs, Held
  <2>4. QED
    BY <2>1, <2>2, <2>3, ChargesKept
<1>2. CASE Number(f) \/ Retain(f)
  <2>1. /\ fibre[f].pc \in {"holding", "retaining"} /\ UNCHANGED <<sizes, sub, uncharged>>
        /\ fibre'[f].pc # "charging" /\ \A g \in Fibres \ {f} : fibre'[g] = fibre[g]
    BY <1>2 DEF Number, Retain, At, Goto, BusIInv, BusShape, FibreRec
  <2>2. \A g \in Fibres : ~At(g, "charging")
    BY <2>1, OneHolder DEF At, BusIInv, Held
  <2>3. \A g \in Fibres : ~At(g, "charging")'
    BY <2>1, <2>2 DEF At
  <2>4. QED
    BY <2>1, <2>2, <2>3, ChargesKept
<1>3. CASE Return(f)
  <2>1. /\ fibre[f].pc = "observing" /\ UNCHANGED <<sequence, sizes, sub, uncharged>>
        /\ fibre' = [fibre EXCEPT ![f] = Idle]
    BY <1>3 DEF Return, Unwind, At
  <2>2. \A g \in Fibres : At(g, "charging") => fibre'[g] = fibre[g]
    BY <2>1, FibreUnwinds DEF At, BusIInv
  <2>3. \A g \in Fibres : At(g, "charging")' => At(g, "charging") /\ fibre'[g] = fibre[g]
    BY <2>1, FibreUnwinds DEF At, BusIInv
  <2>4. QED
    BY <2>1, <2>2, <2>3, ChargesKept DEF At
<1>4. CASE InterruptEmit(f)
  <2>1. /\ fibre' = [fibre EXCEPT ![f] = Idle] /\ UNCHANGED <<sequence, sizes, sub>>
        /\ uncharged' = uncharged \/ uncharged' = (uncharged \/ At(f, "charging"))
        /\ At(f, "charging") => uncharged'
    BY <1>4 DEF InterruptEmit, Unwind, At
  <2>2. \A g \in Fibres : At(g, "charging")' => At(g, "charging") /\ fibre'[g] = fibre[g]
    BY <2>1, FibreUnwinds DEF At, BusIInv
  <2>3. uncharged' \/ \A g \in Fibres : At(g, "charging") => At(g, "charging")'
    BY <2>1, FibreUnwinds DEF At, BusIInv
  <2>4. uncharged => uncharged'
    BY <2>1
  <2>5. QED
    BY <2>1, <2>2, <2>3, <2>4, ChargesKept
<1>5. CASE Reenter(f)
  BY <1>5 DEF Reenter, BusIInv, Permit, At, Held, Numbered
<1>6. QED
  BY <1>1, <1>2, <1>3, <1>4, <1>5, PublishCharges, ChargeCharges DEF Emit

LEMMA SinkCharges ==
  ASSUME BusIInv, Charges, NEW f \in Fibres, SinkReturns(f) \/ SinkDies(f)
  PROVE  Charges'
<1>1. /\ fibre[f].pc = "sinking" /\ UNCHANGED <<sequence, sizes, sub, uncharged>>
      /\ Goto(f, "observing") \/ fibre' = [fibre EXCEPT ![f] = Idle]
  BY DEF SinkReturns, SinkDies, Unwind, At
<1>2. fibre'[f].pc # "charging" /\ \A g \in Fibres \ {f} : fibre'[g] = fibre[g]
  BY <1>1, FibreUnwinds, FibreMoves DEF BusIInv, FibrePCs, Held
<1>3. \A g \in Fibres : At(g, "charging") => fibre'[g] = fibre[g]
  BY <1>1, <1>2 DEF At
<1>4. \A g \in Fibres : At(g, "charging")' => At(g, "charging") /\ fibre'[g] = fibre[g]
  BY <1>1, <1>2 DEF At
<1>5. QED
  BY <1>1, <1>3, <1>4, ChargesKept DEF At

\* A step of one subscriber changes no charge but its own.
LEMMA ObserveChargesStep ==
  ASSUME BusShape, Charges, NEW s \in Subscribers, NEW to,
         UNCHANGED <<sequence, order, emitting, closed, sizes, fibre, uncharged>>,
         sub' = [sub EXCEPT ![s] = to],
         \A i, j \in DOMAIN to.backlog : to.backlog[i] = to.backlog[j] => i = j,
         to.pc # "live" => to.retained = 0,
         to.pc = "live" =>
            /\ to.retained <= MaxBytes
            /\ { n \in Range(to.backlog) : n > to.since } \subseteq sizes
            /\ \A f \in Fibres : At(f, "charging") /\ fibre[f].seq > to.since => fibre[f].seq \in sizes
            /\ ~uncharged => to.retained + due(s)' =
                                Cardinality(bytes({ n \in Range(to.backlog) : n > to.since }))
  PROVE  Charges'
<1>1. \A t \in Subscribers : sub'[t] = IF t = s THEN to ELSE sub[t]
  BY DEF BusShape
<1>2. ASSUME NEW t \in Subscribers \ {s} PROVE owed(t)' = owed(t) /\ due(t)' = due(t)
  BY <1>1 DEF owed, due, At
<1>3. owed(s)' = { n \in Range(to.backlog) : n > to.since }
  BY <1>1 DEF owed
<1>4. \A f \in Fibres : At(f, "charging")' = At(f, "charging")
  BY DEF At
<1>5. \A t \in Subscribers : t \in Watchers' <=> sub'[t].pc = "live"
  BY DEF Watchers
<1>6. \A t \in Subscribers : t \in Watchers <=> sub[t].pc = "live"
  BY DEF Watchers
<1>7. Watchers' \subseteq Subscribers
  BY DEF Watchers
<1>8. ASSUME NEW t \in Subscribers
      PROVE  /\ \A i, j \in DOMAIN sub'[t].backlog : sub'[t].backlog[i] = sub'[t].backlog[j] => i = j
             /\ sub'[t].pc # "live" => sub'[t].retained = 0
             /\ sub'[t].pc = "live" => sub'[t].retained <= MaxBytes
  BY <1>1 DEF Charges
<1>9. ASSUME NEW t \in Watchers'
      PROVE  /\ owed(t)' \subseteq sizes
             /\ \A f \in Fibres : At(f, "charging") /\ fibre[f].seq > sub'[t].since => fibre[f].seq \in sizes
             /\ ~uncharged => sub'[t].retained + due(t)' = Cardinality(bytes(owed(t)'))
  <2>1. CASE t = s
    BY <1>1, <1>3, <1>5, <1>7, <2>1
  <2>2. CASE t # s
    BY <1>1, <1>2, <1>5, <1>6, <1>7, <2>2 DEF Charges
  <2>3. QED
    BY <2>1, <2>2
<1>10. QED
  BY <1>4, <1>8, <1>9 DEF Charges

LEMMA ObserveCharges == ASSUME BusIInv, Charges, NEW s \in Subscribers, Observe(s) PROVE Charges'
<1> DEFINE b == sub[s].backlog
<1>1. /\ sub[s] \in SubRec /\ sub \in [Subscribers -> SubRec] /\ b \in Seq(Nat \ {0})
      /\ sequence \in Nat /\ sub[s].retained \in Int /\ sub[s].since \in Nat /\ BusShape
      /\ \A i, j \in DOMAIN b : b[i] = b[j] => i = j
      /\ sub[s].pc # "live" => sub[s].retained = 0
      /\ owed(s) = { n \in Range(b) : n > sub[s].since } /\ owed(s) \in SUBSET (1 .. sequence)
  BY OwedBounded DEF BusIInv, BusShape, SubRec, Charges, owed
<1>2. ASSUME NEW to, to.backlog = b \/ to.backlog = <<>>, to.retained = 0, to.pc # "live",
             sub' = [sub EXCEPT ![s] = to],
             UNCHANGED <<sequence, order, emitting, closed, sizes, fibre, uncharged>>
      PROVE  Charges'
  <2>1. DOMAIN <<>> = {}
    OBVIOUS
  <2>2. \A i, j \in DOMAIN to.backlog : to.backlog[i] = to.backlog[j] => i = j
    BY <1>1, <1>2, <2>1
  <2>3. QED
    BY <1>1, <1>2, <2>2, ObserveChargesStep
<1>3. Away.backlog = <<>> /\ Away.retained = 0 /\ Away.pc = "away"
  BY DEF Away
<1>4. CASE Subscribe(s)
  <2> DEFINE to == [sub[s] EXCEPT !.pc = "registered"]
  <2>1. to.backlog = b /\ to.retained = 0 /\ to.pc = "registered"
    BY <1>1, <1>4 DEF Subscribe, SubRec
  <2>2. QED
    BY <1>2, <1>4, <2>1 DEF Subscribe
<1>5. CASE ReadClosed(s)
  <2> DEFINE to == [sub[s] EXCEPT !.pc = "checked"]
             end == [Away EXCEPT !.pc = "ended", !.closes = 1]
  <2>1. to.backlog = b /\ to.retained = 0 /\ to.pc = "checked"
    BY <1>1, <1>5 DEF ReadClosed, SubRec
  <2>2. end.backlog = <<>> /\ end.retained = 0 /\ end.pc = "ended"
    BY <1>3, EndsEmpty
  <2>3. sub' = [sub EXCEPT ![s] = IF closed = 0 THEN to ELSE end]
    BY <1>5 DEF ReadClosed
  <2>4. UNCHANGED <<sequence, order, emitting, closed, sizes, fibre, uncharged>>
    BY <1>5 DEF ReadClosed
  <2> HIDE DEF to, end
  <2>5. QED
    BY <1>2, <2>1, <2>2, <2>3, <2>4
<1>6. CASE Watch(s)
  <2> DEFINE to == [sub[s] EXCEPT !.pc = "live", !.since = sequence]
  <2>1. /\ sub[s].pc = "checked" /\ UNCHANGED <<sequence, order, emitting, closed, sizes, fibre, uncharged>>
        /\ sub' = [sub EXCEPT ![s] = to]
    BY <1>1, <1>6 DEF Watch, SubRec
  <2>2. /\ to.pc = "live" /\ to.backlog = b /\ to.since = sequence /\ to.retained = 0
    BY <1>1, <2>1 DEF SubRec
  <2> HIDE DEF to
  <2>3. \A n \in Range(b) : ~(n > sequence)
    BY <1>1 DEF Range, BusIInv, BusShape
  <2>4. { n \in Range(to.backlog) : n > to.since } = {}
    BY <2>2, <2>3
  <2>5. \A f \in Fibres : ~(fibre[f].seq > sequence)
    BY <1>1 DEF BusIInv, BusShape, FibreRec
  <2>6. due(s)' = 0
    <3>1. sub'[s].since = sequence
      BY <1>1, <2>1, <2>2
    <3>2. QED
      BY <2>1, <2>5, <3>1 DEF due
  <2>7. Cardinality(bytes({})) = 0
    <3>1. bytes({}) = {}
      BY DEF bytes
    <3>2. QED
      BY <3>1, FS_EmptySet
  <2>8. 0 <= MaxBytes
    BY BusAssumption
  <2>9. to.backlog = b /\ to.pc = "live" /\ to.retained <= MaxBytes
    BY <2>2, <2>8
  <2>10. /\ { n \in Range(to.backlog) : n > to.since } \subseteq sizes
         /\ \A f \in Fibres : At(f, "charging") /\ fibre[f].seq > to.since => fibre[f].seq \in sizes
    BY <2>2, <2>4, <2>5
  <2>11. to.retained + due(s)' = Cardinality(bytes({ n \in Range(to.backlog) : n > to.since }))
    BY <2>2, <2>4, <2>6, <2>7
  <2>12. \A i, j \in DOMAIN to.backlog : to.backlog[i] = to.backlog[j] => i = j
    BY <1>1, <2>2
  <2>13. QED
    BY <1>1, <2>1, <2>9, <2>10, <2>11, <2>12, ObserveChargesStep
<1>7. CASE Pull(s)
  <2> DEFINE n == Head(b)
             end == [Away EXCEPT !.pc = "ended", !.closes = sub[s].closes + 1]
             on == [sub[s] EXCEPT !.backlog = Tail(@), !.retained = @ - credit(s, n)]
  <2>1. /\ sub[s].pc = "live" /\ b # <<>>
        /\ UNCHANGED <<sequence, order, emitting, closed, sizes, fibre, uncharged>>
        /\ sub' = [sub EXCEPT ![s] = IF n = closed THEN end ELSE on]
    BY <1>7 DEF Pull
  <2>2. CASE n = closed
    <3>1. end.backlog = <<>> /\ end.retained = 0 /\ end.pc = "ended"
      BY EndsEmpty
    <3>2. sub' = [sub EXCEPT ![s] = end]
      BY <2>1, <2>2
    <3> HIDE DEF end
    <3>3. QED
      BY <1>2, <2>1, <3>1, <3>2
  <2>3. CASE n # closed
    <3>1. /\ n \in Nat \ {0} /\ Tail(b) \in Seq(Nat \ {0})
          /\ DOMAIN Tail(b) = 1 .. Len(b) - 1 /\ DOMAIN b = 1 .. Len(b) /\ Len(b) \in Nat \ {0}
          /\ \A i \in DOMAIN Tail(b) : i + 1 \in DOMAIN b /\ Tail(b)[i] = b[i + 1]
          /\ n = b[1]
      BY <1>1, <2>1
    <3>2. /\ on.pc = "live" /\ on.backlog = Tail(b) /\ on.since = sub[s].since
          /\ on.retained = sub[s].retained - credit(s, n)
      BY <1>1, <2>1 DEF SubRec
    <3>3. sub' = [sub EXCEPT ![s] = on]
      BY <2>1, <2>3
    <3> HIDE DEF on, n
    <3>4. ASSUME NEW i \in DOMAIN Tail(b), NEW j \in DOMAIN Tail(b), Tail(b)[i] = Tail(b)[j]
          PROVE  i = j
      <4>1. i + 1 \in DOMAIN b /\ j + 1 \in DOMAIN b /\ b[i + 1] = b[j + 1]
        BY <3>1, <3>4
      <4>2. i + 1 = j + 1
        BY <1>1, <4>1
      <4>3. i \in Int /\ j \in Int
        BY <3>1
      <4>4. QED
        BY <4>2, <4>3
    <3>5. Range(Tail(b)) = Range(b) \ {n}
      BY <1>1, <2>1, RangeTail DEF n
    <3>6. { m \in Range(on.backlog) : m > on.since } = owed(s) \ {n}
      BY <1>1, <3>2, <3>5
    <3>7. n \in Range(b)
      BY <3>1 DEF Range
    <3>8. s \in Watchers
      BY <2>1 DEF Watchers
    <3>9. due(s)' = due(s)
      BY <1>1, <2>1, <3>2, <3>3 DEF due, At
    <3>10. /\ wireSize(n) \in 1 .. 2 /\ due(s) \in Int
           /\ Cardinality(bytes(owed(s))) \in Nat /\ Cardinality(bytes(owed(s) \ {n})) \in Nat
      <4>1. owed(s) \ {n} \in SUBSET (1 .. sequence)
        BY <1>1
      <4>2. wireSize(n) \in 1 .. 2 /\ wireSize(sequence) \in 1 .. 2
        BY <1>1, <3>1, WireSizes
      <4>3. due(s) \in Int
        BY <4>2 DEF due
      <4>4. QED
        BY <1>1, <4>1, <4>2, <4>3, BytesFinite
    <3>11. credit(s, n) = IF n \in owed(s) THEN wireSize(n) ELSE 0
      BY <1>1, <3>7, <3>8 DEF credit, Charges
    <3>12. Cardinality(bytes(owed(s))) = Cardinality(bytes(owed(s) \ {n})) + credit(s, n)
      <4>1. CASE n \in owed(s)
        BY <1>1, <3>11, <4>1, BytesRemove
      <4>2. CASE n \notin owed(s)
        <5>1. owed(s) \ {n} = owed(s)
          BY <4>2
        <5>2. credit(s, n) = 0
          BY <3>11, <4>2
        <5>3. Cardinality(bytes(owed(s) \ {n})) = Cardinality(bytes(owed(s)))
          BY <5>1, Zenon
        <5>4. QED
          BY <3>10, <5>2, <5>3
      <4>3. QED
        BY <4>1, <4>2
    <3>13. ~uncharged => on.retained + due(s)' = Cardinality(bytes(owed(s) \ {n}))
      <4>1. ~uncharged => sub[s].retained + due(s) = Cardinality(bytes(owed(s)))
        BY <3>8 DEF Charges
      <4>2. credit(s, n) \in Int
        BY <3>10, <3>11
      <4>3. ASSUME ~uncharged
            PROVE  sub[s].retained - credit(s, n) + due(s) = Cardinality(bytes(owed(s) \ {n}))
        <5> DEFINE r == sub[s].retained
                   d == due(s)
                   k == credit(s, n)
                   all == Cardinality(bytes(owed(s)))
                   rest == Cardinality(bytes(owed(s) \ {n}))
        <5>1. r \in Int /\ d \in Int /\ k \in Int /\ all \in Int /\ rest \in Int
          BY <1>1, <3>10, <4>2
        <5>2. r + d = all /\ all = rest + k
          BY <3>12, <4>1, <4>3
        <5> HIDE DEF r, d, k, all, rest
        <5>3. r - k + d = rest
          BY <5>1, <5>2
        <5>4. QED
          BY <5>3 DEF r, d, k, rest
      <4>4. QED
        BY <3>2, <3>9, <4>3
    <3>14. on.retained <= MaxBytes
      <4>1. sub[s].retained <= MaxBytes /\ MaxBytes \in Int
        BY <2>1, BusAssumption DEF Charges
      <4>2. credit(s, n) \in 0 .. 2
        BY <3>10, <3>11
      <4>3. QED
        BY <1>1, <3>2, <4>1, <4>2
    <3>15. /\ owed(s) \ {n} \subseteq sizes
           /\ \A f \in Fibres : At(f, "charging") /\ fibre[f].seq > on.since => fibre[f].seq \in sizes
      BY <3>2, <3>8 DEF Charges
    <3>16. /\ { m \in Range(on.backlog) : m > on.since } \subseteq sizes
           /\ ~uncharged => on.retained + due(s)' =
                                Cardinality(bytes({ m \in Range(on.backlog) : m > on.since }))
      BY <3>6, <3>13, <3>15
    <3>17. \A i, j \in DOMAIN on.backlog : on.backlog[i] = on.backlog[j] => i = j
      BY <3>2, <3>4
    <3>18. QED
      BY <1>1, <2>1, <3>2, <3>3, <3>14, <3>15, <3>16, <3>17, ObserveChargesStep
  <2>4. QED
    BY <2>2, <2>3
<1>8. CASE Leave(s)
  BY <1>2, <1>3, <1>8 DEF Leave
<1>9. QED
  BY <1>4, <1>5, <1>6, <1>7, <1>8 DEF Observe

LEMMA ChargesStep == BusIInv /\ Charges /\ [Next]_vars => Charges'
<1> SUFFICES ASSUME BusIInv, Charges, [Next]_vars PROVE Charges'
  OBVIOUS
<1>1. ASSUME NEW f \in Fibres, Emit(f) PROVE Charges'
  BY <1>1, EmitCharges
<1>2. ASSUME NEW f \in Fibres, SinkReturns(f) \/ SinkDies(f) PROVE Charges'
  BY <1>2, SinkCharges
<1>3. ASSUME NEW s \in Subscribers, Observe(s) PROVE Charges'
  BY <1>3, ObserveCharges
<1>4. CASE UNCHANGED busVars
  BY <1>4, ChargesKept DEF busVars, At
<1>5. UNCHANGED vars => UNCHANGED busVars
  BY DEF vars
<1>6. QED
  BY <1>1, <1>2, <1>3, <1>4, <1>5, BusSteps

\* Between two emissions a watcher is charged the bytes it was sent and has
\* not pulled, and they are within its bound, unless an interruption fell
\* between a publication and its charge.
THEOREM SpecRetainedIsCharged == Spec => []RetainedIsCharged
<1>1. Init => Charges
  <2> SUFFICES ASSUME Init PROVE Charges
    OBVIOUS
  <2>1. \A s \in Subscribers : sub[s].pc = "away" /\ sub[s].backlog = <<>> /\ sub[s].retained = 0
    BY DEF Init, BusInit, Away
  <2>2. DOMAIN <<>> = {}
    OBVIOUS
  <2>3. Watchers = {}
    BY <2>1 DEF Watchers
  <2>4. QED
    BY <2>1, <2>2, <2>3 DEF Charges
<1>2. BusIInv /\ Charges => RetainedIsCharged
  <2> SUFFICES ASSUME BusIInv, Charges, ~uncharged, \A f \in Fibres : ~At(f, "charging"),
                      NEW s \in Watchers
               PROVE  sub[s].retained = Cardinality(bytes(owed(s))) /\ sub[s].retained <= MaxBytes
    BY DEF RetainedIsCharged
  <2>1. due(s) = 0 /\ s \in Subscribers /\ sub[s].pc = "live"
    BY DEF due, Watchers
  <2>2. sub[s].retained \in Int
    BY <2>1 DEF BusIInv, BusShape, SubRec
  <2>3. QED
    BY <2>1, <2>2 DEF Charges
<1>3. QED
  BY <1>1, <1>2, BusInvariance, BusStep, ChargesStep, PTL DEF Spec
=============================================================================
