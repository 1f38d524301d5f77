----------------------- MODULE AgentSessionInputs_proofs ----------------------
(***************************************************************************)
(* What becomes of the inputs AgentSession accepts, for every number of    *)
(* callers, submissions, inputs and turns: none is left behind by a        *)
(* submission that completes, none is applied out of order, and none is    *)
(* applied before its caller has announced it or left.                     *)
(*                                                                         *)
(* The invariant says where each input is (Fates, Holdings), that the      *)
(* permit separates an offer from its drain (Said), and which channel is   *)
(* shut at which label of a fibre that is about to end (Shutting).         *)
(***************************************************************************)
EXTENDS AgentSessionSettling_proofs

Increasing(q) == \A m, n \in 1 .. Len(q) : m < n => q[m] < q[n]

-----------------------------------------------------------------------------
(* Where the inputs are *)

\* An input is queued where its fate says, and behind what was taken before it.
Fates ==
    /\ \A k \in Kinds : /\ Increasing(queue[k])
                        /\ \A i \in Range(queue[k]) : /\ input[i].fate = "queued"
                                                      /\ input[i].kind = k
    /\ \A i \in InputIds :
          /\ input[i].fate = "queued" => i \in Range(queue[input[i].kind])
          /\ input[i].fate = "unused" <=> i > offered
          /\ input[i].fate = "dropped" =>
                input[i].sub \in Submissions /\ pc[input[i].sub] = "done"
    /\ \A i, j \in InputIds :
          /\ input[i].fate = "queued" /\ input[j].fate \in {"taken", "applied"}
          /\ input[i].kind = input[j].kind
          => j < i

\* What a fibre has taken and not applied is in its locals: follow-ups wait in
\* order behind the next one, steering only for its announcement.
HoldingsOf(s) ==
    /\ Increasing(pending[s])
    /\ \A i \in Range(pending[s]) : /\ input[i].fate = "taken" /\ input[i].kind = "followUp"
                                    /\ next[s] < i
    /\ \A i \in Range(batch[s]) : input[i].fate = "taken" /\ input[i].kind = "steer"
    /\ next[s] \in InputIds =>
          input[next[s]].fate = "taken" /\ input[next[s]].kind = "followUp"
    /\ next[s] # None => pc[s] \in {"iterate", "done"}
    /\ batch[s] # <<>> => pc[s] \in {"applying", "lateApplying"}
    /\ pc[s] \notin Executing \ {"closeDrain"} => pending[s] = <<>>
    /\ \A i \in InputIds :
          /\ input[i].fate = "taken" /\ input[i].sub = s
          /\ pc[s] \in Executing \cup {"none", "claimed"}
          => i \in Range(pending[s]) \cup Range(batch[s]) \cup {next[s]}

Holdings == \A s \in Submissions : HoldingsOf(s)

\* Whoever offered still holds the permit, so nothing is taken unannounced.
Said ==
    /\ \A i \in InputIds :
          /\ input[i].fate \in {"taken", "applied"} => input[i].announced \/ input[i].abandoned
          /\ i <= offered => \/ input[i].announced \/ input[i].abandoned
                             \/ \E c \in Callers : caller[c].pc = "offered" /\ caller[c].input = i
    /\ \A c \in Callers : caller[c].pc = "offered" =>
          caller[c].input \in InputIds /\ input[caller[c].input].fate = "queued"

-----------------------------------------------------------------------------
(* Which channels are shut *)

\* The labels after the last look at the steering channel.
Closing == {"lateApplying", "runEnd", "closeInput", "closeDrain", "shift", "completing"}

\* Nobody may queue an input of kind k, nobody checked while it was allowed.
Shut(k) == ~accepting[k] /\ \A c \in Callers : caller[c].pc = "cleared" => caller[c].op # k

\* Each channel is shut before it is looked at for the last time.
ShuttingOf(s) ==
    /\ pc[s] \in Closing \cup {"late"} => Shut("steer")
    /\ pc[s] \in Closing => queue["steer"] = <<>>
    /\ pc[s] = "closeDrain" => ~accepting["followUp"] /\ ~steered[s]
    /\ pc[s] \in ({"claimed"} \cup Executing) \ {"closeDrain", "shift", "completing"}
          => accepting["followUp"]
    /\ pc[s] = "shift" /\ steered[s] => accepting["followUp"]
    /\ pc[s] = "completing" \/ (pc[s] = "shift" /\ pending[s] = <<>> /\ ~steered[s])
          => Shut("followUp") /\ queue["followUp"] = <<>>
    /\ "SubmissionCompleted" \in terminal[s] /\ active = s =>
          pc[s] \in Owning /\ Shut("steer") /\ Shut("followUp")

Shutting == \A s \in Submissions : ShuttingOf(s)

\* What an input goes through, and what follows from it.
Course == Fates /\ Said /\ AppliedInOrder /\ CompletedMeansApplied

Inputs == Course /\ Holdings /\ Shutting

-----------------------------------------------------------------------------
(* Sequences of input numbers *)

\* What Append, \o, Head and Tail do to the elements, exactly.
LEMMA RangeExact ==
    ASSUME NEW S, NEW q \in Seq(S), NEW r \in Seq(S)
    PROVE  /\ Range(q \o r) = Range(q) \cup Range(r)
           /\ \A e \in S : Range(Append(q, e)) = Range(q) \cup {e}
           /\ q # <<>> => Range(q) = {Head(q)} \cup Range(Tail(q))
           /\ q = <<>> <=> Range(q) = {}
<1>1. Range(q \o r) = Range(q) \cup Range(r)
  <2>1. ASSUME NEW n \in 1 .. Len(q) PROVE q[n] \in Range(q \o r)
    <3>1. n \in 1 .. Len(q \o r) /\ (q \o r)[n] = q[n]
      OBVIOUS
    <3>2. QED
      BY <3>1 DEF Range
  <2>2. ASSUME NEW n \in 1 .. Len(r) PROVE r[n] \in Range(q \o r)
    <3>1. n + Len(q) \in 1 .. Len(q \o r) /\ (q \o r)[n + Len(q)] = r[n]
      OBVIOUS
    <3>2. QED
      BY <3>1 DEF Range
  <2>3. Range(q \o r) \subseteq Range(q) \cup Range(r)
    BY RangeFacts
  <2>4. Range(q) = {q[n] : n \in 1 .. Len(q)} /\ Range(r) = {r[n] : n \in 1 .. Len(r)}
    BY DEF Range
  <2>5. QED
    BY <2>1, <2>2, <2>3, <2>4
<1>2. ASSUME NEW e \in S PROVE Range(Append(q, e)) = Range(q) \cup {e}
  <2>1. /\ \A n \in 1 .. Len(q) : n \in 1 .. Len(q) + 1 /\ Append(q, e)[n] = q[n]
        /\ Append(q, e)[Len(q) + 1] = e /\ Len(q) + 1 \in 1 .. Len(q) + 1
        /\ \A n \in 1 .. Len(q) + 1 : n \in 1 .. Len(q) \/ n = Len(q) + 1
    OBVIOUS
  <2>2. /\ Range(q) = {q[n] : n \in 1 .. Len(q)}
        /\ Range(Append(q, e)) = {Append(q, e)[n] : n \in 1 .. Len(q) + 1}
    BY DEF Range
  <2>3. QED
    BY <2>1, <2>2
<1>3. ASSUME q # <<>> PROVE Range(q) = {Head(q)} \cup Range(Tail(q))
  <2>1. /\ Head(q) = q[1] /\ Len(q) \in Nat \ {0} /\ Len(Tail(q)) = Len(q) - 1
        /\ \A n \in 1 .. Len(q) - 1 : Tail(q)[n] = q[n + 1]
    BY <1>3
  <2>0. Tail(q) \in Seq(S) /\ DOMAIN Tail(q) = 1 .. Len(q) - 1 /\ DOMAIN q = 1 .. Len(q)
    BY <1>3
  <2>2. /\ Range(q) = {q[n] : n \in 1 .. Len(q)}
        /\ Range(Tail(q)) = {Tail(q)[n] : n \in 1 .. Len(q) - 1}
    BY <2>0 DEF Range
  <2>3. \A n \in 1 .. Len(q) : n = 1 \/ (n - 1 \in 1 .. Len(q) - 1 /\ Tail(q)[n - 1] = q[n])
    BY <2>1
  <2>4. Range(q) \subseteq {q[1]} \cup Range(Tail(q))
    BY <2>2, <2>3
  <2>5. {q[1]} \cup Range(Tail(q)) \subseteq Range(q)
    <3>1. \A n \in 1 .. Len(q) - 1 : n + 1 \in 1 .. Len(q) /\ Tail(q)[n] = q[n + 1]
      BY <2>1
    <3>2. 1 \in 1 .. Len(q)
      BY <2>1
    <3>3. QED
      BY <2>2, <3>1, <3>2
  <2>6. QED
    BY <2>1, <2>4, <2>5
<1>4. q = <<>> <=> Range(q) = {}
  BY <1>3 DEF Range
<1>5. QED
  BY <1>1, <1>2, <1>3, <1>4

LEMMA IncreasingFacts ==
    ASSUME NEW q \in Seq(InputIds)
    PROVE  /\ Increasing(<<>>)
           /\ Increasing(q) /\ q # <<>> =>
                Increasing(Tail(q)) /\ \A i \in Range(Tail(q)) : Head(q) < i
           /\ \A e \in InputIds : Increasing(q) /\ (\A i \in Range(q) : i < e) =>
                Increasing(Append(q, e))
<1>1. Increasing(<<>>)
  BY DEF Increasing
<1>2. ASSUME Increasing(q), q # <<>>
      PROVE  Increasing(Tail(q)) /\ \A i \in Range(Tail(q)) : Head(q) < i
  <2>1. /\ Head(q) = q[1] /\ Len(q) \in Nat \ {0} /\ Len(Tail(q)) = Len(q) - 1
        /\ \A n \in 1 .. Len(q) - 1 : Tail(q)[n] = q[n + 1]
    BY <1>2
  <2>2. Range(Tail(q)) = {Tail(q)[n] : n \in 1 .. Len(q) - 1}
    BY <1>2 DEF Range
  <2>3. \A m, n \in 1 .. Len(q) - 1 : m < n => q[m + 1] < q[n + 1]
    BY <1>2, <2>1 DEF Increasing
  <2>4. \A n \in 1 .. Len(q) - 1 : q[1] < q[n + 1]
    BY <1>2, <2>1 DEF Increasing
  <2>5. QED
    BY <2>1, <2>2, <2>3, <2>4 DEF Increasing
<1>3. ASSUME NEW e \in InputIds, Increasing(q), \A i \in Range(q) : i < e PROVE Increasing(Append(q, e))
  <2>1. \A n \in 1 .. Len(q) : q[n] < e
    BY <1>3 DEF Range
  <2>2. QED
    BY <1>3, <2>1 DEF Increasing
<1>4. QED
  BY <1>1, <1>2, <1>3

-----------------------------------------------------------------------------
(* What the steps do to the inputs *)

LEMMA Numbers ==
    ASSUME TypeOK
    PROVE  offered \in Nat /\ InputIds \subseteq Nat /\ \A i \in InputIds : input[i] \in InputRecord
<1>1. offered \in 0 .. MaxInputs /\ input \in [InputIds -> InputRecord]
  BY DEF TypeOK
<1>2. offered \in Nat
  BY <1>1, SessionAssumption
<1>3. QED
  BY <1>1, <1>2, Labels

LEMMA TakenFacts ==
    ASSUME TypeOK, NEW q, NEW s, NEW fate, input' = Taken(q, s, fate), NEW i \in InputIds
    PROVE  /\ input'[i].kind = input[i].kind /\ input'[i].sub = input[i].sub
           /\ input'[i].announced = input[i].announced
           /\ input'[i].abandoned = input[i].abandoned
           /\ input'[i].fate = IF i \in Range(q) THEN fate ELSE input[i].fate
BY DEF TypeOK, Taken, InputRecord

\* A finished fibre stays finished, and only the stepping fibre moves.
LEMMA FiberMoves ==
    ASSUME TypeOK, NEW s \in Submissions, FiberStep(s)
    PROVE  /\ pc[s] \in Owning \cup {"drop"}
           /\ \A t \in Submissions : t # s => pc'[t] = pc[t]
           /\ UNCHANGED caller
<1>1. pc[s] \in Owning \cup {"drop"} /\ UNCHANGED caller
  BY DEF FiberStep, Register, Absorb, StartRun, Boundary, LateDrain, TakeSteering, ApplySteering,
     CommitTurn, Tally, Continue, Stop, EndRun, CloseInput, CloseDrain, NextRun, Complete, Break,
     Fail, Finish, Unwind, Settle, ClearActive, Withdraw, DropLeftovers, At, Owning, Executing
<1>2. \E label : Goto(s, label)
  BY DEF FiberStep, Register, Absorb, StartRun, Boundary, LateDrain, TakeSteering, ApplySteering,
     CommitTurn, Tally, Continue, Stop, EndRun, CloseInput, CloseDrain, NextRun, Complete, Break,
     Fail, Finish, Unwind, Settle, ClearActive, Withdraw, DropLeftovers, Exit
<1>3. QED
  BY <1>1, <1>2 DEF Goto, TypeOK

\* A step that touches no input, offers none and answers none that was offered.
LEMMA CourseIdle ==
    ASSUME TypeOK, Course, UNCHANGED inputVars,
           \A t \in Submissions : /\ pc[t] = "done" => pc'[t] = "done"
                                  /\ "SubmissionCompleted" \in terminal'[t] =>
                                        "SubmissionCompleted" \in terminal[t],
           \A c \in Callers : /\ caller'[c].pc = "offered" <=> caller[c].pc = "offered"
                              /\ caller[c].pc = "offered" => caller'[c].input = caller[c].input
    PROVE  Course'
<1> USE DEF Course, inputVars
<1>1. Fates'
  BY DEF Fates
<1>2. Said'
  BY DEF Said
<1>3. AppliedInOrder' /\ CompletedMeansApplied'
  BY DEF AppliedInOrder, CompletedMeansApplied
<1>4. QED
  BY <1>1, <1>2, <1>3

\* A fibre empties a channel under the permit.
LEMMA CourseTakes ==
    ASSUME IInv, Settling, Course, NEW s \in Submissions, NEW k \in Kinds,
           pc[s] \in Executing \ {"completing"}, gate = None,
           queue' = [queue EXCEPT ![k] = <<>>], input' = Taken(queue[k], s, "taken"),
           UNCHANGED <<offered, caller, terminal>>,
           \A t \in Submissions : pc[t] = "done" => pc'[t] = "done"
    PROVE  Course'
<1> USE DEF Course
<1>t. /\ TypeOK /\ PermitHeld /\ SessionHeld /\ Custody
      /\ queue \in [Kinds -> Seq(InputIds)] /\ Range(queue[k]) \subseteq InputIds
  BY HeldInputs DEF IInv, GateDiscipline, TypeOK
<1>1. \A i \in InputIds :
         /\ input'[i].kind = input[i].kind /\ input'[i].sub = input[i].sub
         /\ input'[i].announced = input[i].announced /\ input'[i].abandoned = input[i].abandoned
         /\ input'[i].fate = IF i \in Range(queue[k]) THEN "taken" ELSE input[i].fate
  BY <1>t, TakenFacts
<1>2. \A i \in Range(queue[k]) : input[i].fate = "queued" /\ input[i].kind = k /\ input[i].sub = s
  <2>1. pc[s] \in Owning
    BY DEF Owning
  <2>2. QED
    BY <1>t, <2>1, FreeMeansOwn DEF Fates
<1>3. Fates'
  <2>1. ASSUME NEW k2 \in Kinds
        PROVE  Increasing(queue'[k2]) /\ \A i \in Range(queue'[k2]) : /\ input'[i].fate = "queued"
                                                                     /\ input'[i].kind = k2
    <3>1. CASE k2 = k
      <4>1. queue'[k2] = <<>> /\ Range(<<>>) = {} /\ Increasing(<<>>)
        BY <1>t, <3>1 DEF Range, Increasing
      <4>2. QED
        BY <4>1
    <3>2. CASE k2 # k
      <4>1. queue'[k2] = queue[k2] /\ Range(queue[k2]) \subseteq InputIds
        BY <1>t, <3>2, HeldInputs
      <4>2. \A i \in Range(queue[k2]) : i \in InputIds /\ input[i].kind = k2 /\ i \notin Range(queue[k])
        BY <1>2, <3>2, <4>1 DEF Fates
      <4>3. QED
        BY <1>1, <4>1, <4>2 DEF Fates
    <3>3. QED
      BY <3>1, <3>2
  <2>2. ASSUME NEW i \in InputIds
        PROVE  /\ input'[i].fate = "queued" => i \in Range(queue'[input'[i].kind])
               /\ input'[i].fate = "unused" <=> i > offered'
               /\ input'[i].fate = "dropped" =>
                     input'[i].sub \in Submissions /\ pc'[input'[i].sub] = "done"
    <3>1. CASE i \in Range(queue[k])
      BY <1>1, <1>2, <3>1 DEF Fates
    <3>2. CASE i \notin Range(queue[k])
      <4>1. input'[i].fate = input[i].fate /\ input'[i].kind = input[i].kind /\ input'[i].sub = input[i].sub
        BY <1>1, <3>2
      <4>2. input[i].kind \in Kinds /\ (input[i].fate = "queued" => input[i].kind # k)
        BY <1>t, <3>2 DEF Fates, TypeOK, InputRecord
      <4>3. QED
        BY <1>t, <4>1, <4>2 DEF Fates
    <3>3. QED
      BY <3>1, <3>2
  <2>3. ASSUME NEW i \in InputIds, NEW j \in InputIds,
               input'[i].fate = "queued", input'[j].fate \in {"taken", "applied"},
               input'[i].kind = input'[j].kind
        PROVE  j < i
    <3>1. i \notin Range(queue[k]) /\ input[i].fate = "queued" /\ input[i].kind # k
      BY <1>1, <2>3 DEF Fates
    <3>2. j \notin Range(queue[k]) /\ input[j].fate \in {"taken", "applied"}
      BY <1>1, <1>2, <2>3, <3>1
    <3>3. QED
      BY <1>1, <2>3, <3>1, <3>2 DEF Fates
  <2>4. QED
    BY <2>1, <2>2, <2>3 DEF Fates
<1>4. Said'
  <2>1. \A c \in Callers : caller[c].pc # "offered"
    BY <1>t, Labels DEF PermitHeld
  <2>2. \A i \in InputIds : i <= offered => input[i].announced \/ input[i].abandoned
    BY <2>1 DEF Said
  <2>3. \A i \in Range(queue[k]) : i <= offered
    <3>1. ASSUME NEW i \in Range(queue[k]) PROVE i <= offered
      <4>1. i \in InputIds /\ input[i].fate # "unused"
        BY <1>t, <1>2
      <4>2. QED
        BY <4>1, <1>t, Numbers DEF Fates
    <3>2. QED
      BY <3>1
  <2>4. QED
    BY <1>t, <1>1, <2>1, <2>2, <2>3 DEF Said
<1>5. AppliedInOrder' /\ CompletedMeansApplied'
  <2>1. terminal[s] = {}
    BY DEF Settling, Ends
  <2>2. AppliedInOrder'
    BY <1>1, <1>2 DEF AppliedInOrder
  <2>3. CompletedMeansApplied'
    BY <1>1, <1>2, <2>1 DEF CompletedMeansApplied
  <2>4. QED
    BY <2>2, <2>3
<1>6. QED
  BY <1>3, <1>4, <1>5

\* A fibre applies inputs it has taken: the next oldest of its kind.
LEMMA CourseApplies ==
    ASSUME IInv, Settling, Course, NEW s \in Submissions, NEW q,
           pc[s] \in Executing \ {"completing"}, Range(q) \subseteq InputIds,
           \A j \in Range(q) : /\ input[j].fate = "taken" /\ input[j].sub = s
                               /\ \A i \in InputIds :
                                     /\ i < j /\ input[i].fate = "taken" /\ input[i].sub = s
                                     /\ input[i].kind = input[j].kind
                                     => i \in Range(q),
           input' = Taken(q, s, "applied"),
           UNCHANGED <<queue, offered, caller, terminal>>,
           \A t \in Submissions : pc[t] = "done" => pc'[t] = "done"
    PROVE  Course'
<1> USE DEF Course
<1>t. /\ TypeOK /\ \A k \in Kinds : Range(queue[k]) \subseteq InputIds
      /\ \A i \in InputIds : i \in Nat /\ input[i] \in InputRecord
      /\ offered \in Nat
  BY HeldInputs, Numbers DEF IInv
<1>1. \A i \in InputIds :
         /\ input'[i].kind = input[i].kind /\ input'[i].sub = input[i].sub
         /\ input'[i].announced = input[i].announced /\ input'[i].abandoned = input[i].abandoned
         /\ input'[i].fate = IF i \in Range(q) THEN "applied" ELSE input[i].fate
  BY <1>t, TakenFacts
<1>2. Fates'
  <2>1. ASSUME NEW k \in Kinds
        PROVE  Increasing(queue'[k]) /\ \A i \in Range(queue'[k]) : /\ input'[i].fate = "queued"
                                                                   /\ input'[i].kind = k
    BY <1>t, <1>1 DEF Fates
  <2>2. ASSUME NEW i \in InputIds
        PROVE  /\ input'[i].fate = "queued" => i \in Range(queue'[input'[i].kind])
               /\ input'[i].fate = "unused" <=> i > offered'
               /\ input'[i].fate = "dropped" =>
                     input'[i].sub \in Submissions /\ pc'[input'[i].sub] = "done"
    BY <1>1 DEF Fates
  <2>3. ASSUME NEW i \in InputIds, NEW j \in InputIds,
               input'[i].fate = "queued", input'[j].fate \in {"taken", "applied"},
               input'[i].kind = input'[j].kind
        PROVE  j < i
    BY <1>1, <2>3 DEF Fates
  <2>4. QED
    BY <2>1, <2>2, <2>3 DEF Fates
<1>3. Said'
  BY <1>1 DEF Said
<1>4. AppliedInOrder'
  <2> SUFFICES ASSUME NEW i \in InputIds, NEW j \in InputIds, i < j, j \in Range(q),
                      input[i].kind = input[j].kind, input[i].sub = input[j].sub
               PROVE  input'[i].fate = "applied"
    BY <1>1 DEF AppliedInOrder
  <2>1. input[i].fate # "queued"
    BY <1>t DEF Fates
  <2>2. input[i].fate # "unused"
    <3>1. ~(j > offered)
      BY DEF Fates
    <3>2. QED
      BY <1>t, <3>1 DEF Fates
  <2>3. input[i].fate # "dropped"
    BY DEF Fates, Executing
  <2>4. input[i].fate = "taken" => i \in Range(q)
    OBVIOUS
  <2>5. QED
    BY <1>t, <1>1, <2>1, <2>2, <2>3, <2>4 DEF InputRecord
<1>5. CompletedMeansApplied'
  BY <1>1 DEF CompletedMeansApplied
<1>6. QED
  BY <1>2, <1>3, <1>4, <1>5

\* The last fibre of a session withdraws what nobody took.
LEMMA CourseDrops ==
    ASSUME IInv, Settling, Course, NEW s \in Submissions, DropLeftovers(s)
    PROVE  Course'
<1> USE DEF Course
<1>t. /\ TypeOK /\ PermitHeld /\ Custody /\ pc[s] = "drop" /\ pc' = [pc EXCEPT ![s] = "done"]
      /\ input' = Taken(queue["steer"] \o queue["followUp"], s, "dropped")
      /\ queue' = EmptyQueues /\ UNCHANGED <<offered, caller, terminal>>
      /\ pc \in [Submissions -> PCs] /\ queue \in [Kinds -> Seq(InputIds)]
      /\ Kinds = {"steer", "followUp"}
  BY DEF IInv, GateDiscipline, TypeOK, DropLeftovers, Goto, outcomeVars, Kinds
<1> DEFINE left == Range(queue["steer"]) \cup Range(queue["followUp"])
<1>0. left \subseteq InputIds /\ Range(queue["steer"] \o queue["followUp"]) = left
  BY <1>t, RangeExact, HeldInputs
<1>1. \A i \in InputIds :
         /\ input'[i].kind = input[i].kind /\ input'[i].sub = input[i].sub
         /\ input'[i].announced = input[i].announced /\ input'[i].abandoned = input[i].abandoned
         /\ input'[i].fate = IF i \in left THEN "dropped" ELSE input[i].fate
  BY <1>t, <1>0, TakenFacts
<1>2. \A i \in left : i \in InputIds /\ input[i].fate = "queued" /\ input[i].sub = s
  BY <1>t, <1>0 DEF Fates, Custody, Addressed
<1>3. \A i \in InputIds : input[i].fate = "queued" => i \in left
  <2>1. \A i \in InputIds : input[i].kind \in Kinds
    BY <1>t DEF TypeOK, InputRecord
  <2>2. QED
    BY <1>t, <2>1 DEF Fates
<1> HIDE DEF left
<1>4. Fates'
  <2>1. \A k \in Kinds : queue'[k] = <<>> /\ Range(queue'[k]) = {} /\ Increasing(queue'[k])
    BY <1>t DEF EmptyQueues, Range, Increasing
  <2>2. ASSUME NEW i \in InputIds
        PROVE  /\ input'[i].fate # "queued"
               /\ input'[i].fate = "unused" <=> i > offered'
               /\ input'[i].fate = "dropped" =>
                     input'[i].sub \in Submissions /\ pc'[input'[i].sub] = "done"
    BY <1>t, <1>1, <1>2, <1>3 DEF Fates
  <2>3. QED
    BY <2>1, <2>2 DEF Fates
<1>5. Said'
  <2>1. \A c \in Callers : caller[c].pc # "offered"
    BY <1>t, Labels DEF PermitHeld
  <2>2. QED
    BY <1>t, <1>1, <2>1 DEF Said
<1>6. AppliedInOrder'
  BY <1>1, <1>2 DEF AppliedInOrder
<1>7. CompletedMeansApplied'
  BY <1>t, <1>1, <1>2 DEF CompletedMeansApplied
<1>8. QED
  BY <1>4, <1>5, <1>6, <1>7

\* A caller says that it has queued its input, or leaves without a word.
LEMMA CourseMarks ==
    ASSUME IInv, Settling, Course, NEW c \in Callers, AnnounceQueued(c) \/ CallerLeaves(c)
    PROVE  Course'
<1> USE DEF Course
<1>t. /\ TypeOK /\ PermitHeld /\ UNCHANGED <<queue, offered, terminal, pc>>
      /\ caller' = [caller EXCEPT ![c] = NoCall] /\ caller \in [Callers -> CallRecord]
      /\ \A d \in Callers : d # c => caller[d].pc # "offered"
  <2>1. gate = c
    BY DEF IInv, GateDiscipline, PermitHeld, AnnounceQueued, CallerLeaves
  <2>2. QED
    BY <2>1 DEF IInv, GateDiscipline, PermitHeld, AnnounceQueued, CallerLeaves, callerFrame,
       outcomeVars, TypeOK
<1> DEFINE o == caller[c].input
<1>1. \A i \in InputIds :
         /\ input'[i].kind = input[i].kind /\ input'[i].sub = input[i].sub
         /\ input'[i].fate = input[i].fate
         /\ input[i].announced => input'[i].announced
         /\ input[i].abandoned => input'[i].abandoned
         /\ caller[c].pc = "offered" /\ i = o => input'[i].announced \/ input'[i].abandoned
  <2>1. \/ input' = input /\ caller[c].pc # "offered"
        \/ input' = [input EXCEPT ![o].announced = TRUE]
        \/ input' = [input EXCEPT ![o].abandoned = TRUE]
    BY DEF AnnounceQueued, CallerLeaves
  <2>2. input \in [InputIds -> InputRecord]
    BY <1>t DEF TypeOK
  <2> HIDE DEF o
  <2>3. QED
    BY <2>1, <2>2 DEF InputRecord
<1> HIDE DEF o
<1>2. Fates'
  <2>1. \A k \in Kinds : Range(queue[k]) \subseteq InputIds
    BY <1>t, HeldInputs
  <2>2. ASSUME NEW k \in Kinds
        PROVE  Increasing(queue'[k]) /\ \A i \in Range(queue'[k]) : /\ input'[i].fate = "queued"
                                                                   /\ input'[i].kind = k
    BY <1>t, <1>1, <2>1 DEF Fates
  <2>3. ASSUME NEW i \in InputIds
        PROVE  /\ input'[i].fate = "queued" => i \in Range(queue'[input'[i].kind])
               /\ input'[i].fate = "unused" <=> i > offered'
               /\ input'[i].fate = "dropped" =>
                     input'[i].sub \in Submissions /\ pc'[input'[i].sub] = "done"
    BY <1>t, <1>1 DEF Fates
  <2>4. ASSUME NEW i \in InputIds, NEW j \in InputIds,
               input'[i].fate = "queued", input'[j].fate \in {"taken", "applied"},
               input'[i].kind = input'[j].kind
        PROVE  j < i
    BY <1>1, <2>4 DEF Fates
  <2>5. QED
    BY <2>2, <2>3, <2>4 DEF Fates
<1>3. Said'
  <2>1. \A d \in Callers : caller'[d].pc # "offered"
    BY <1>t DEF NoCall
  <2>2. \A i \in InputIds : i <= offered => \/ input[i].announced \/ input[i].abandoned
                                            \/ caller[c].pc = "offered" /\ i = o
    BY <1>t DEF Said, o
  <2>3. \A i \in InputIds : input[i].fate \in {"taken", "applied"} =>
           input[i].announced \/ input[i].abandoned
    BY DEF Said
  <2>4. QED
    BY <1>t, <1>1, <2>1, <2>2, <2>3 DEF Said
<1>4. AppliedInOrder' /\ CompletedMeansApplied'
  BY <1>t, <1>1 DEF AppliedInOrder, CompletedMeansApplied
<1>5. QED
  BY <1>2, <1>3, <1>4

\* What Offer does: one more input, the youngest of its channel, for a submission
\* that has not completed.
LEMMA OfferFacts ==
    ASSUME IInv, Inputs, NEW c \in Callers, Offer(c)
    PROVE  /\ offered' = offered + 1 /\ offered' \in InputIds /\ caller[c].op \in Kinds
           /\ queue' = [queue EXCEPT ![caller[c].op] = Append(queue[caller[c].op], offered')]
           /\ \A i \in InputIds : i # offered' => input'[i] = input[i]
           /\ input'[offered'].kind = caller[c].op /\ input'[offered'].fate = "queued"
           /\ input'[offered'].sub = active /\ active \in Submissions
           /\ input[offered'].fate = "unused"
           /\ "SubmissionCompleted" \notin terminal[active] 
           /\ gate = c /\ caller[c].pc = "cleared"
           /\ caller'[c].pc = "offered" /\ caller'[c].input = offered'
           /\ \A d \in Callers : d # c => caller'[d] = caller[d]
<1>1. /\ gate = c /\ caller[c].target = active /\ active \in Submissions
      /\ caller[c].op \in Kinds /\ offered < MaxInputs /\ caller[c].pc = "cleared"
  BY DEF Offer, IInv, GateDiscipline, PermitHeld, SessionHeld, TypeOK
<1>2. /\ offered \in Nat /\ input \in [InputIds -> InputRecord]
      /\ caller \in [Callers -> CallRecord]
  BY Numbers DEF IInv, TypeOK
<1>3. offered' = offered + 1 /\ offered' \in InputIds
  BY <1>1, <1>2, SessionAssumption DEF Offer, InputIds
<1>4. /\ queue' = [queue EXCEPT ![caller[c].op] = Append(queue[caller[c].op], offered')]
      /\ input' = [input EXCEPT ![offered'] =
                     [input[offered'] EXCEPT !.kind = caller[c].op, !.fate = "queued",
                                             !.sub = caller[c].target]]
      /\ caller' = [caller EXCEPT ![c].pc = "offered", ![c].input = offered']
  BY DEF Offer
<1>5. /\ \A i \in InputIds : i # offered' => input'[i] = input[i]
      /\ input'[offered'].kind = caller[c].op /\ input'[offered'].fate = "queued"
      /\ input'[offered'].sub = active
  BY <1>1, <1>2, <1>3, <1>4 DEF InputRecord
<1>6. input[offered'].fate = "unused"
  <2>1. offered' > offered
    BY <1>2, <1>3
  <2>2. QED
    BY <1>3, <2>1 DEF Inputs, Course, Fates
<1>7. /\ caller'[c].pc = "offered" /\ caller'[c].input = offered'
      /\ \A d \in Callers : d # c => caller'[d] = caller[d]
  BY <1>2, <1>4 DEF CallRecord
<1>8. "SubmissionCompleted" \notin terminal[active]
  <2>1. ~Shut(caller[c].op)
    BY <1>1 DEF Shut
  <2>2. QED
    BY <1>1, <2>1 DEF Inputs, Shutting, ShuttingOf, Kinds
<1>9. QED
  BY <1>1, <1>3, <1>4, <1>5, <1>6, <1>7, <1>8

LEMMA CourseOffers ==
    ASSUME IInv, Settling, Inputs, NEW c \in Callers, Offer(c)
    PROVE  Course'
<1> USE DEF Course, Inputs
<1> DEFINE o == offered'
           k == caller[c].op
<1>1. /\ o = offered + 1 /\ o \in InputIds /\ k \in Kinds
      /\ queue' = [queue EXCEPT ![k] = Append(queue[k], o)]
      /\ \A i \in InputIds : i # o => input'[i] = input[i]
      /\ input'[o].kind = k /\ input'[o].fate = "queued" /\ input'[o].sub = active
      /\ active \in Submissions /\ input[o].fate = "unused"
      /\ "SubmissionCompleted" \notin terminal[active]
      /\ gate = c /\ caller'[c].pc = "offered" /\ caller'[c].input = o
      /\ \A d \in Callers : d # c => caller'[d] = caller[d]
  BY OfferFacts
<1>2. /\ TypeOK /\ offered \in Nat /\ InputIds \subseteq Nat /\ UNCHANGED <<pc, terminal>>
      /\ queue \in [Kinds -> Seq(InputIds)] /\ PermitHeld
      /\ \A k2 \in Kinds : Range(queue[k2]) \subseteq InputIds
      /\ \A i \in InputIds : input[i] \in InputRecord
  BY Numbers, HeldInputs DEF IInv, GateDiscipline, TypeOK, Offer, callerFrame, outcomeVars
<1> HIDE DEF o, k
<1>3. \A i \in InputIds : input[i].fate # "unused" => i < o
  BY <1>1, <1>2 DEF Fates
<1>4. Fates'
  <2>1. ASSUME NEW k2 \in Kinds
        PROVE  Increasing(queue'[k2]) /\ \A i \in Range(queue'[k2]) : /\ input'[i].fate = "queued"
                                                                     /\ input'[i].kind = k2
    <3>1. \A i \in Range(queue[k2]) : /\ i \in InputIds /\ i # o /\ i < o
                                      /\ input[i].fate = "queued" /\ input[i].kind = k2
      BY <1>1, <1>2, <1>3 DEF Fates
    <3>2. CASE k2 = k
      <4>1. queue'[k2] = Append(queue[k2], o) /\ queue[k2] \in Seq(InputIds)
        BY <1>1, <1>2, <3>2
      <4>2. Range(queue'[k2]) = Range(queue[k2]) \cup {o}
        BY <1>1, <4>1, RangeExact
      <4>3. Increasing(queue'[k2])
        BY <1>1, <3>1, <4>1, IncreasingFacts DEF Fates
      <4>4. QED
        BY <1>1, <3>1, <3>2, <4>2, <4>3
    <3>3. CASE k2 # k
      <4>1. queue'[k2] = queue[k2]
        BY <1>1, <1>2, <3>3
      <4>2. \A i \in Range(queue[k2]) : input'[i] = input[i]
        BY <1>1, <3>1
      <4>3. Increasing(queue[k2])
        BY DEF Fates
      <4>4. Increasing(queue'[k2])
        BY <4>1, <4>3
      <4>5. ASSUME NEW i \in Range(queue'[k2]) PROVE input'[i].fate = "queued" /\ input'[i].kind = k2
        BY <3>1, <4>1, <4>2
      <4>6. QED
        BY <4>4, <4>5
    <3>4. QED
      BY <3>2, <3>3
  <2>2. ASSUME NEW i \in InputIds
        PROVE  /\ input'[i].fate = "queued" => i \in Range(queue'[input'[i].kind])
               /\ input'[i].fate = "unused" <=> i > offered'
               /\ input'[i].fate = "dropped" =>
                     input'[i].sub \in Submissions /\ pc'[input'[i].sub] = "done"
    <3>1. \A k2 \in Kinds : Range(queue[k2]) \subseteq Range(queue'[k2])
      <4>1. queue[k] \in Seq(InputIds) /\ Range(Append(queue[k], o)) = Range(queue[k]) \cup {o}
        BY <1>1, <1>2, RangeExact
      <4>2. QED
        BY <1>1, <1>2, <4>1
    <3>2. CASE i = o
      <4>1. queue'[k] = Append(queue[k], o) /\ queue[k] \in Seq(InputIds)
        BY <1>1, <1>2
      <4>2. o \in Range(queue'[k])
        BY <1>1, <4>1, RangeExact
      <4>3. QED
        BY <1>1, <1>2, <3>2, <4>2 DEF o
    <3>3. CASE i # o
      <4>1. input'[i] = input[i] /\ input[i].kind \in Kinds
        BY <1>1, <1>2, <3>3 DEF InputRecord
      <4>2. i > offered <=> i > o
        BY <1>1, <1>2, <3>3
      <4>3. QED
        BY <1>2, <3>1, <4>1, <4>2 DEF Fates, o
    <3>4. QED
      BY <3>2, <3>3
  <2>3. ASSUME NEW i \in InputIds, NEW j \in InputIds,
               input'[i].fate = "queued", input'[j].fate \in {"taken", "applied"},
               input'[i].kind = input'[j].kind
        PROVE  j < i
    BY <1>1, <1>3, <2>3 DEF Fates
  <2>4. QED
    BY <2>1, <2>2, <2>3 DEF Fates
<1>5. Said'
  <2>1. \A d \in Callers : d # c => caller[d].pc # "offered"
    BY <1>1, <1>2 DEF PermitHeld
  <2>2. caller[c].pc # "offered"
    BY DEF Offer
  <2>3. \A i \in InputIds : i # o => (i <= offered' <=> i <= offered)
    BY <1>1, <1>2 DEF o
  <2>4. QED
    BY <1>1, <2>1, <2>2, <2>3 DEF Said
<1>6. AppliedInOrder'
  <2> SUFFICES ASSUME NEW i \in InputIds, NEW j \in InputIds, i < j, input'[j].fate = "applied",
                      input'[i].kind = input'[j].kind, input'[i].sub = input'[j].sub
               PROVE  input'[i].fate = "applied"
    BY DEF AppliedInOrder
  <2>1. j # o /\ j < o /\ i # o
    BY <1>1, <1>2, <1>3
  <2>2. QED
    BY <1>1, <2>1 DEF AppliedInOrder
<1>7. CompletedMeansApplied'
  BY <1>1, <1>2 DEF CompletedMeansApplied
<1>8. QED
  BY <1>4, <1>5, <1>6, <1>7

-----------------------------------------------------------------------------
(* What a step leaves in the locals of a fibre *)

\* A fibre re-labels inputs of its own only.
LEMMA FiberTakes ==
    ASSUME IInv, NEW s \in Submissions, FiberStep(s)
    PROVE  \/ input' = input
           \/ \E q, fate : /\ input' = Taken(q, s, fate)
                           /\ \A i \in Range(q) : i \in InputIds /\ input[i].sub = s
<1>t. TypeOK /\ PermitHeld /\ SessionHeld /\ Custody
  BY DEF IInv, GateDiscipline
<1>f. gate = None /\ pc[s] \in Owning =>
         \A k \in Kinds : \A i \in Range(queue[k]) : i \in InputIds /\ input[i].sub = s
  BY <1>t, FreeMeansOwn, HeldInputs
<1>1. CASE Boundary(s) \/ LateDrain(s)
  <2>1. gate = None /\ pc[s] \in Owning
        /\ (input' = input \/ input' = Taken(queue["steer"], s, "taken"))
    BY <1>1 DEF Boundary, LateDrain, TakeSteering, GateFree, At, Owning, Executing
  <2>2. QED
    BY <1>f, <2>1 DEF Kinds
<1>2. CASE EndRun(s) \/ CloseDrain(s)
  <2>1. \/ input' = input
        \/ /\ gate = None /\ pc[s] \in Owning
           /\ input' = Taken(queue["followUp"], s, "taken")
    BY <1>2 DEF EndRun, CloseDrain, TakeFollowUps, GateFree, At, Owning, Executing
  <2>2. QED
    BY <1>f, <2>1 DEF Kinds
<1>3. CASE Absorb(s)
  <2>1. input' = Taken(IF next[s] \in InputIds THEN <<next[s]>> ELSE <<>>, s, "applied")
    BY <1>3 DEF Absorb
  <2>2. \A i \in Range(IF next[s] \in InputIds THEN <<next[s]>> ELSE <<>>) :
           i \in InputIds /\ input[i].sub = s
    BY <1>t, OwnLocals DEF Range
  <2>3. QED
    BY <2>1, <2>2
<1>4. CASE ApplySteering(s)
  <2>1. input' = Taken(batch[s], s, "applied")
    BY <1>4 DEF ApplySteering
  <2>2. \A i \in Range(batch[s]) : i \in InputIds /\ input[i].sub = s
    BY <1>t, OwnLocals
  <2>3. QED
    BY <2>1, <2>2
<1>5. CASE DropLeftovers(s)
  <2>1. /\ pc[s] = "drop"
        /\ input' = Taken(queue["steer"] \o queue["followUp"], s, "dropped")
    BY <1>5 DEF DropLeftovers
  <2>2. /\ queue["steer"] \in Seq(InputIds) /\ queue["followUp"] \in Seq(InputIds)
        /\ \A k \in {"steer", "followUp"} : \A i \in Range(queue[k]) :
              i \in InputIds /\ input[i].sub = s
    BY <1>t, <2>1, HeldInputs DEF TypeOK, Custody, Addressed, Kinds
  <2>3. \A i \in Range(queue["steer"] \o queue["followUp"]) : i \in InputIds /\ input[i].sub = s
    BY <2>2, RangeExact
  <2>4. QED
    BY <2>1, <2>3
<1>6. CASE ~(\/ Boundary(s) \/ LateDrain(s) \/ EndRun(s) \/ CloseDrain(s) \/ Absorb(s)
             \/ ApplySteering(s) \/ DropLeftovers(s))
  BY <1>6 DEF FiberStep, Register, StartRun, CommitTurn, Tally, Continue, Stop, CloseInput,
     NextRun, Complete, Break, Fail, Finish, Unwind, Settle, ClearActive, Withdraw, inputVars
<1>7. QED
  BY <1>1, <1>2, <1>3, <1>4, <1>5, <1>6

\* A fibre whose locals and whose taken inputs a step leaves alone.
LEMMA HoldingsBystander ==
    ASSUME TypeOK, Custody, NEW t \in Submissions, HoldingsOf(t),
           pc'[t] = pc[t], pending'[t] = pending[t], batch'[t] = batch[t], next'[t] = next[t],
           \A i \in InputIds :
              /\ input[i].fate = "taken" /\ input[i].sub = t =>
                    input'[i].fate = "taken" /\ input'[i].kind = input[i].kind
              /\ input'[i].fate = "taken" /\ input'[i].sub = t =>
                    input[i].fate = "taken" /\ input[i].sub = t
    PROVE  HoldingsOf(t)'
BY OwnLocals DEF HoldingsOf

LEMMA HoldingsOthers ==
    ASSUME IInv, Holdings, NEW s \in Submissions, FiberStep(s), NEW t \in Submissions, t # s
    PROVE  HoldingsOf(t)'
<1>1. TypeOK /\ Custody /\ HoldingsOf(t)
  BY DEF IInv, GateDiscipline, Holdings
<1>2. pc'[t] = pc[t]
  BY <1>1, FiberMoves
<1>3. pending'[t] = pending[t] /\ batch'[t] = batch[t] /\ next'[t] = next[t]
  BY <1>1 DEF TypeOK, FiberStep, Register, Absorb, StartRun, Boundary, LateDrain, TakeSteering,
     ApplySteering, CommitTurn, Tally, Continue, Stop, EndRun, TakeFollowUps, CloseInput,
     CloseDrain, NextRun, Complete, Break, Fail, Finish, Unwind, Exit, Settle, ClearActive,
     Withdraw, DropLeftovers, localVars
<1>4. \A i \in InputIds :
         /\ input[i].fate = "taken" /\ input[i].sub = t =>
               input'[i].fate = "taken" /\ input'[i].kind = input[i].kind
         /\ input'[i].fate = "taken" /\ input'[i].sub = t =>
               input[i].fate = "taken" /\ input[i].sub = t
  <2>1. CASE input' = input
    BY <2>1
  <2>2. ASSUME NEW q, NEW fate, input' = Taken(q, s, fate),
               \A i \in Range(q) : i \in InputIds /\ input[i].sub = s,
               NEW i \in InputIds
        PROVE  /\ input[i].fate = "taken" /\ input[i].sub = t =>
                     input'[i].fate = "taken" /\ input'[i].kind = input[i].kind
               /\ input'[i].fate = "taken" /\ input'[i].sub = t =>
                     input[i].fate = "taken" /\ input[i].sub = t
    BY <1>1, <2>2, TakenFacts
  <2>3. QED
    BY <2>1, <2>2, FiberTakes
<1>5. QED
  BY <1>1, <1>2, <1>3, <1>4, HoldingsBystander

\* A fibre that moves on with its locals as they are.
LEMMA HoldingsStay ==
    ASSUME TypeOK, NEW s \in Submissions, HoldingsOf(s), UNCHANGED <<next, pending, batch>>,
           \A i \in InputIds : /\ input'[i].sub = input[i].sub /\ input'[i].kind = input[i].kind
                               /\ input'[i].fate = "taken" <=> input[i].fate = "taken",
           pc[s] \notin {"iterate", "done", "applying", "lateApplying"},
           \/ pc[s] \in Executing /\ pc'[s] \in Executing \ {"closeDrain"}
           \/ pc[s] \in Executing /\ pending[s] = <<>> /\ pc'[s] = "closeDrain"
           \/ pc[s] \notin Executing /\ pc'[s] \in Releasing \cup {"done"}
    PROVE  HoldingsOf(s)'
<1>1. next[s] = None /\ batch[s] = <<>> /\ Range(pending[s]) \subseteq InputIds /\ None \notin InputIds
      /\ Range(<<>>) = {}
  BY HeldInputs, Labels DEF HoldingsOf, Range
<1>2. pc'[s] \in Releasing \cup {"done"} => pc'[s] \notin Executing \cup {"none", "claimed"}
  BY DEF Releasing, Executing
<1>3. QED
  BY <1>1, <1>2 DEF HoldingsOf

\* `execute` is over and its locals are gone.
LEMMA HoldingsExit ==
    ASSUME TypeOK, NEW s \in Submissions, NEW c, NEW event, Exit(s, c, event)
    PROVE  HoldingsOf(s)'
<1>1. next'[s] = None /\ pending'[s] = <<>> /\ batch'[s] = <<>> /\ pc'[s] = "settle"
  BY DEF Exit, Goto, TypeOK
<1>2. Range(<<>>) = {} /\ Increasing(<<>>) /\ None \notin InputIds
  BY Labels DEF Range, Increasing
<1>3. QED
  BY <1>1, <1>2 DEF HoldingsOf, Executing

\* The last drain's batch waits for the next runs, in the order it was queued.
LEMMA HoldingsFollowUps ==
    ASSUME IInv, Course, NEW s \in Submissions, HoldingsOf(s), TakeFollowUps(s),
           pc[s] \in {"runEnd", "closeDrain"}, pending[s] = <<>>, UNCHANGED <<next, batch>>,
           pc'[s] \in {"closeInput", "shift"}
    PROVE  HoldingsOf(s)'
<1> DEFINE q == queue["followUp"]
<1>t. /\ TypeOK /\ PermitHeld /\ SessionHeld /\ Custody /\ q \in Seq(InputIds)
      /\ Range(q) \subseteq InputIds /\ "followUp" \in Kinds /\ InputIds \subseteq Nat
      /\ pending \in [Submissions -> Seq(InputIds)]
  BY HeldInputs, Labels DEF IInv, GateDiscipline, TypeOK, Kinds
<1>1. /\ gate = None /\ pending'[s] = q /\ input' = Taken(q, s, "taken")
  BY <1>t DEF TakeFollowUps, GateFree
<1>2. /\ next[s] = None /\ batch[s] = <<>> /\ Range(<<>>) = {}
      /\ pc[s] \in Executing /\ pc'[s] \in Executing
  BY DEF HoldingsOf, Range, Executing
<1>3. /\ Increasing(q)
      /\ \A i \in Range(q) : /\ input[i].fate = "queued" /\ input[i].kind = "followUp"
                              /\ input[i].sub = s
  <2>1. pc[s] \in Owning
    BY <1>2 DEF Owning
  <2>2. QED
    BY <1>t, <1>1, <2>1, FreeMeansOwn DEF Course, Fates
<1> HIDE DEF q
<1>4. \A i \in InputIds :
         /\ input'[i].kind = input[i].kind /\ input'[i].sub = input[i].sub
         /\ input'[i].fate = IF i \in Range(q) THEN "taken" ELSE input[i].fate
  BY <1>t, <1>1, TakenFacts DEF q
<1>5. \A i \in Range(q) : input'[i].fate = "taken" /\ input'[i].kind = "followUp" /\ None < i
  <2>1. \A i \in InputIds : None < i
    BY SessionAssumption DEF InputIds, None
  <2>2. QED
    BY <1>t, <1>3, <1>4, <2>1
<1>6. \A i \in InputIds : input'[i].fate = "taken" /\ input'[i].sub = s => i \in Range(q)
  <2> SUFFICES ASSUME NEW i \in InputIds, input[i].fate = "taken", input[i].sub = s,
                      i \notin Range(q)
               PROVE  FALSE
    BY <1>4
  <2>1. i \in Range(pending[s]) \cup Range(batch[s]) \cup {next[s]}
    BY <1>2 DEF HoldingsOf
  <2>2. QED
    BY <1>2, <2>1, Labels
<1>7. /\ next'[s] = None /\ batch'[s] = <<>> /\ None \notin InputIds
      /\ pc'[s] \in Executing \ {"closeDrain"}
  BY <1>2, Labels DEF Executing
<1>8. QED
  BY <1>1, <1>2, <1>3, <1>5, <1>6, <1>7 DEF HoldingsOf

\* The steering just taken is the whole of a batch.
LEMMA HoldingsSteering ==
    ASSUME IInv, Course, NEW s \in Submissions, HoldingsOf(s), NEW label,
           label \in {"applying", "lateApplying"}, pc[s] \in {"boundary", "late"}, gate = None,
           batch' = [batch EXCEPT ![s] = queue["steer"]],
           input' = Taken(queue["steer"], s, "taken"), UNCHANGED <<next, pending>>,
           pc'[s] = label
    PROVE  HoldingsOf(s)'
<1> DEFINE q == queue["steer"]
<1>t. /\ TypeOK /\ PermitHeld /\ SessionHeld /\ Custody /\ q \in Seq(InputIds)
      /\ Range(q) \subseteq InputIds /\ "steer" \in Kinds
      /\ Range(pending[s]) \subseteq InputIds /\ batch'[s] = q
  BY HeldInputs DEF IInv, GateDiscipline, TypeOK, Kinds
<1>1. /\ next[s] = None /\ batch[s] = <<>> /\ Range(<<>>) = {} /\ None \notin InputIds
      /\ pc[s] \in Executing /\ pc'[s] \in Executing \ {"closeDrain"}
  BY Labels DEF HoldingsOf, Range, Executing
<1>2. \A i \in Range(q) : /\ input[i].fate = "queued" /\ input[i].kind = "steer"
                          /\ input[i].sub = s
  <2>1. pc[s] \in Owning
    BY <1>1 DEF Owning
  <2>2. QED
    BY <1>t, <2>1, FreeMeansOwn DEF Course, Fates
<1>3. \A i \in InputIds :
         /\ input'[i].kind = input[i].kind /\ input'[i].sub = input[i].sub
         /\ input'[i].fate = IF i \in Range(q) THEN "taken" ELSE input[i].fate
  BY <1>t, TakenFacts DEF q
<1> HIDE DEF q
<1>4. /\ \A i \in Range(pending[s]) : /\ input'[i].fate = "taken" /\ input'[i].kind = "followUp"
                                      /\ next[s] < i
      /\ \A i \in Range(q) : input'[i].fate = "taken" /\ input'[i].kind = "steer"
  BY <1>t, <1>2, <1>3 DEF HoldingsOf
<1>5. \A i \in InputIds : input'[i].fate = "taken" /\ input'[i].sub = s =>
         i \in Range(pending[s]) \cup Range(q)
  BY <1>1, <1>3 DEF HoldingsOf
<1>6. QED
  BY <1>t, <1>1, <1>4, <1>5 DEF HoldingsOf

\* What a fibre applies leaves its locals, and nothing else does.
LEMMA HoldingsApply ==
    ASSUME IInv, NEW s \in Submissions, HoldingsOf(s), Absorb(s) \/ ApplySteering(s)
    PROVE  HoldingsOf(s)'
<1>t. /\ TypeOK /\ Range(pending[s]) \subseteq InputIds /\ Range(batch[s]) \subseteq InputIds
      /\ InputIds \subseteq Nat /\ next \in [Submissions -> InputIds \cup {None, Prompt}]
      /\ pc \in [Submissions -> PCs] /\ batch \in [Submissions -> Seq(InputIds)]
      /\ None \notin InputIds /\ Prompt \notin InputIds
  BY HeldInputs, Labels DEF IInv, TypeOK
<1>n. Range(<<>>) = {} /\ \A i \in InputIds : None < i
  BY DEF Range, InputIds, None
<1>1. CASE Absorb(s)
  <2> DEFINE q == IF next[s] \in InputIds THEN <<next[s]>> ELSE <<>>
  <2>1. /\ pc[s] = "iterate" /\ pc'[s] = "runStart" /\ next'[s] = None
        /\ UNCHANGED <<pending, batch>> /\ input' = Taken(q, s, "applied")
    BY <1>1, <1>t DEF Absorb, At, Goto
  <2>2. Range(q) = {next[s]} \cap InputIds
    BY <1>n DEF Range
  <2>3. \A i \in InputIds :
           /\ input'[i].kind = input[i].kind /\ input'[i].sub = input[i].sub
           /\ input'[i].fate = IF i \in Range(q) THEN "applied" ELSE input[i].fate
    BY <1>t, <2>1, TakenFacts
  <2> HIDE DEF q
  <2>4. batch[s] = <<>> /\ pc[s] \in Executing /\ pc'[s] \in Executing \ {"closeDrain"}
    BY <2>1 DEF HoldingsOf, Executing
  <2>5. \A i \in Range(pending[s]) :
           /\ input[i].fate = "taken" /\ input[i].kind = "followUp" /\ next[s] < i
    BY DEF HoldingsOf
  <2>6. \A i \in Range(pending[s]) : i \notin Range(q)
    <3>1. next[s] \in InputIds => next[s] \in Nat
      BY <1>t
    <3>2. \A i \in Range(pending[s]) : next[s] \in InputIds => i # next[s]
      BY <1>t, <2>5, <3>1
    <3>3. QED
      BY <2>2, <3>2
  <2>7. \A i \in Range(pending[s]) :
           /\ input'[i].fate = "taken" /\ input'[i].kind = "followUp" /\ next'[s] < i
    BY <1>t, <1>n, <2>1, <2>3, <2>5, <2>6
  <2>8. \A i \in InputIds : input'[i].fate = "taken" /\ input'[i].sub = s => i \in Range(pending[s])
    BY <1>t, <1>n, <2>2, <2>3, <2>4 DEF HoldingsOf
  <2>9. QED
    BY <1>t, <1>n, <2>1, <2>4, <2>7, <2>8 DEF HoldingsOf
<1>2. CASE ApplySteering(s)
  <2>1. /\ pc[s] \in {"applying", "lateApplying"} /\ pc'[s] \in {"turn", "runEnd"}
        /\ batch'[s] = <<>> /\ UNCHANGED <<pending, next>> /\ input' = Taken(batch[s], s, "applied")
    BY <1>2, <1>t DEF ApplySteering, At, Goto
  <2>2. \A i \in InputIds :
           /\ input'[i].kind = input[i].kind /\ input'[i].sub = input[i].sub
           /\ input'[i].fate = IF i \in Range(batch[s]) THEN "applied" ELSE input[i].fate
    BY <1>t, <2>1, TakenFacts
  <2>3. next[s] = None /\ pc[s] \in Executing /\ pc'[s] \in Executing \ {"closeDrain"}
    BY <2>1 DEF HoldingsOf, Executing
  <2>4. \A i \in Range(pending[s]) :
           /\ i \in InputIds /\ i \notin Range(batch[s])
           /\ input[i].fate = "taken" /\ input[i].kind = "followUp" /\ next[s] < i
    BY <1>t DEF HoldingsOf
  <2>5. \A i \in Range(pending[s]) :
           /\ input'[i].fate = "taken" /\ input'[i].kind = "followUp" /\ next'[s] < i
    BY <2>1, <2>2, <2>4
  <2>6. \A i \in InputIds : input'[i].fate = "taken" /\ input'[i].sub = s => i \in Range(pending[s])
    BY <1>t, <1>n, <2>2, <2>3 DEF HoldingsOf
  <2>7. next'[s] = None /\ Range(batch'[s]) = {} /\ pending'[s] = pending[s] /\ Increasing(pending[s])
    BY <1>t, <1>n, <2>1, <2>3 DEF HoldingsOf
  <2>8. QED
    BY <1>t, <2>1, <2>3, <2>5, <2>6, <2>7 DEF HoldingsOf
<1>3. QED
  BY <1>1, <1>2

\* The oldest pending follow-up opens the next run.
LEMMA HoldingsNext ==
    ASSUME IInv, NEW s \in Submissions, HoldingsOf(s), NextRun(s)
    PROVE  HoldingsOf(s)'
<1>t. /\ TypeOK /\ pending[s] \in Seq(InputIds) /\ Range(pending[s]) \subseteq InputIds
      /\ next \in [Submissions -> InputIds \cup {None, Prompt}] /\ pc \in [Submissions -> PCs]
      /\ pending \in [Submissions -> Seq(InputIds)]
  BY HeldInputs DEF IInv, TypeOK
<1>1. /\ pc[s] = "shift" /\ pc'[s] = "iterate" /\ UNCHANGED <<input, batch>>
      /\ \/ /\ pending[s] # <<>> /\ next'[s] = Head(pending[s]) /\ pending'[s] = Tail(pending[s])
         \/ pending[s] = <<>> /\ UNCHANGED <<next, pending>>
  BY <1>t DEF NextRun, At, Goto, inputVars
<1>2. CASE pending[s] = <<>> /\ UNCHANGED <<next, pending>>
  <2>1. pc[s] \in Executing /\ pc'[s] \in Executing \ {"closeDrain"}
    BY <1>1 DEF Executing
  <2>2. QED
    BY <1>t, <1>1, <1>2, <2>1, HoldingsStay
<1>3. CASE pending[s] # <<>> /\ next'[s] = Head(pending[s]) /\ pending'[s] = Tail(pending[s])
  <2>1. /\ Range(pending[s]) = {next'[s]} \cup Range(pending'[s])
        /\ Increasing(pending'[s]) /\ \A i \in Range(pending'[s]) : next'[s] < i
    BY <1>t, <1>3, RangeExact, IncreasingFacts DEF HoldingsOf
  <2>2. /\ batch[s] = <<>> /\ Range(<<>>) = {} /\ next[s] = None /\ None \notin InputIds
        /\ pc[s] \in Executing /\ pc'[s] \in Executing \ {"closeDrain"}
    BY <1>1, Labels DEF HoldingsOf, Range, Executing
  <2>3. /\ \A i \in Range(pending'[s]) : /\ input'[i].fate = "taken" /\ input'[i].kind = "followUp"
                                         /\ next'[s] < i
        /\ input'[next'[s]].fate = "taken" /\ input'[next'[s]].kind = "followUp"
    BY <1>1, <2>1 DEF HoldingsOf
  <2>4. \A i \in InputIds : input'[i].fate = "taken" /\ input'[i].sub = s =>
           i \in Range(pending'[s]) \cup {next'[s]}
    BY <1>1, <2>1, <2>2 DEF HoldingsOf
  <2>5. QED
    BY <1>1, <2>1, <2>2, <2>3, <2>4 DEF HoldingsOf
<1>4. QED
  BY <1>1, <1>2, <1>3

LEMMA HoldingsFiber ==
    ASSUME IInv, Inputs, NEW s \in Submissions, FiberStep(s)
    PROVE  Holdings'
<1> SUFFICES HoldingsOf(s)'
  BY HoldingsOthers DEF Inputs, Holdings
<1>t. /\ TypeOK /\ HoldingsOf(s) /\ Course /\ pc \in [Submissions -> PCs]
  BY DEF IInv, TypeOK, Inputs, Holdings
<1>1. CASE Register(s)
  <2>1. /\ pc[s] = "claimed" /\ pc'[s] \in {"iterate", "done"} /\ next'[s] = Prompt
        /\ UNCHANGED <<pending, batch, input>>
    BY <1>1, <1>t DEF Register, Goto, TypeOK, inputVars
  <2>2. /\ pending[s] = <<>> /\ batch[s] = <<>> /\ next[s] = None
        /\ None \notin InputIds /\ Prompt \notin InputIds
    BY <1>t, <2>1, Labels DEF HoldingsOf, Executing
  <2>3. Range(<<>>) = {} /\ Increasing(<<>>)
    BY DEF Range, Increasing
  <2>4. \A i \in InputIds : ~(input[i].fate = "taken" /\ input[i].sub = s)
    BY <1>t, <2>1, <2>2, <2>3 DEF HoldingsOf
  <2>5. pc'[s] \notin {"closeDrain", "none", "claimed"} /\ Prompt # None
    BY <2>1 DEF Prompt, None
  <2>6. QED
    BY <2>1, <2>2, <2>3, <2>4, <2>5 DEF HoldingsOf
<1>2. CASE Absorb(s) \/ ApplySteering(s)
  BY <1>2, <1>t, HoldingsApply
<1>3. CASE NextRun(s)
  BY <1>3, <1>t, HoldingsNext
<1>4. CASE Boundary(s) \/ LateDrain(s)
  <2>1. /\ pc[s] \in {"boundary", "late"} /\ gate = None /\ UNCHANGED <<next, pending>>
        /\ \/ /\ UNCHANGED <<batch, input>> /\ pc'[s] \in {"turn", "runEnd"}
           \/ /\ batch' = [batch EXCEPT ![s] = queue["steer"]]
              /\ input' = Taken(queue["steer"], s, "taken")
              /\ pc'[s] \in {"applying", "lateApplying"}
    BY <1>4, <1>t DEF Boundary, LateDrain, TakeSteering, GateFree, At, Goto
  <2>2. CASE UNCHANGED <<batch, input>> /\ pc'[s] \in {"turn", "runEnd"}
    <3>1. pc[s] \in Executing /\ pc'[s] \in Executing \ {"closeDrain"}
      BY <2>1, <2>2 DEF Executing
    <3>2. QED
      BY <1>t, <2>1, <2>2, <3>1, HoldingsStay
  <2>3. CASE /\ batch' = [batch EXCEPT ![s] = queue["steer"]]
             /\ input' = Taken(queue["steer"], s, "taken")
             /\ pc'[s] \in {"applying", "lateApplying"}
    BY <1>t, <2>1, <2>3, HoldingsSteering
  <2>4. QED
    BY <2>1, <2>2, <2>3
<1>5. CASE EndRun(s) \/ CloseDrain(s)
  <2>1. /\ pc[s] \in {"runEnd", "closeDrain"} /\ pc'[s] \in {"closeInput", "shift"}
        /\ UNCHANGED <<next, batch>>
        /\ \/ TakeFollowUps(s) /\ pending[s] = <<>>
           \/ UNCHANGED <<pending, input>>
    BY <1>5, <1>t DEF EndRun, CloseDrain, At, Goto, HoldingsOf
  <2>2. CASE TakeFollowUps(s) /\ pending[s] = <<>>
    BY <1>t, <2>1, <2>2, HoldingsFollowUps
  <2>3. CASE UNCHANGED <<pending, input>>
    <3>1. pc[s] \in Executing /\ pc'[s] \in Executing \ {"closeDrain"}
      BY <2>1 DEF Executing
    <3>2. QED
      BY <1>t, <2>1, <2>3, <3>1, HoldingsStay
  <2>4. QED
    BY <2>1, <2>2, <2>3
<1>6. CASE Finish(s) \/ Fail(s) \/ Unwind(s)
  BY <1>6, <1>t, HoldingsExit DEF Finish, Fail, Unwind
<1>7. CASE \/ StartRun(s) \/ CommitTurn(s) \/ Tally(s) \/ Continue(s) \/ Stop(s) \/ CloseInput(s)
           \/ Complete(s) \/ Break(s) \/ Settle(s) \/ ClearActive(s) \/ Withdraw(s)
  <2>1. /\ UNCHANGED <<next, pending, batch, input>>
        /\ \/ /\ pc[s] \in {"runStart", "turn", "tally", "decide", "closeInput", "shift"}
              /\ \/ pc'[s] \in {"boundary", "tally", "decide", "late", "completing", "failing", "shift"}
                 \/ pending[s] = <<>> /\ pc'[s] = "closeDrain"
           \/ pc[s] \in {"settle", "clear", "withdraw"} /\ pc'[s] \in {"clear", "withdraw", "drop"}
    BY <1>7, <1>t DEF StartRun, CommitTurn, Tally, Continue, Stop, CloseInput, Complete, Break,
       Settle, ClearActive, Withdraw, At, Goto, localVars, inputVars
  <2>2. /\ {"runStart", "turn", "tally", "decide", "closeInput", "shift"} \subseteq Executing
        /\ {"boundary", "tally", "decide", "late", "completing", "failing", "shift"}
              \subseteq Executing \ {"closeDrain"}
        /\ {"settle", "clear", "withdraw"} \cap Executing = {}
        /\ {"clear", "withdraw", "drop"} \subseteq Releasing
    BY DEF Executing, Releasing
  <2>3. pc[s] \notin {"iterate", "done", "applying", "lateApplying"}
    BY <2>1
  <2>4. \/ pc[s] \in Executing /\ pc'[s] \in Executing \ {"closeDrain"}
        \/ pc[s] \in Executing /\ pending[s] = <<>> /\ pc'[s] = "closeDrain"
        \/ pc[s] \notin Executing /\ pc'[s] \in Releasing \cup {"done"}
    BY <2>1, <2>2
  <2>5. QED
    BY <1>t, <2>1, <2>3, <2>4, HoldingsStay
<1>8. CASE DropLeftovers(s)
  <2>1. /\ UNCHANGED <<next, pending, batch>> /\ pc[s] = "drop" /\ pc'[s] = "done"
        /\ input' = Taken(queue["steer"] \o queue["followUp"], s, "dropped")
        /\ queue["steer"] \in Seq(InputIds) /\ queue["followUp"] \in Seq(InputIds)
    BY <1>8, <1>t DEF DropLeftovers, Goto, localVars, TypeOK, Kinds
  <2>2. \A i \in Range(queue["steer"] \o queue["followUp"]) : input[i].fate = "queued"
    BY <1>t, <2>1, RangeExact DEF Course, Fates, Kinds
  <2>3. \A i \in InputIds : /\ input'[i].sub = input[i].sub /\ input'[i].kind = input[i].kind
                            /\ input'[i].fate = "taken" <=> input[i].fate = "taken"
    BY <1>t, <2>1, <2>2, TakenFacts
  <2>4. pc[s] \notin Executing
    BY <2>1 DEF Executing
  <2>5. QED
    BY <1>t, <2>1, <2>3, <2>4, HoldingsStay
<1>9. QED
  BY <1>1, <1>2, <1>3, <1>4, <1>5, <1>6, <1>7, <1>8 DEF FiberStep

\* What a caller, the owner or a claim does touches nothing a fibre has taken.
LEMMA HoldingsRest ==
    ASSUME IInv, Inputs,
           \/ \E c \in Callers : \/ CallerStep(c) \/ CallerLeaves(c)
                                 \/ \E op \in Kinds \cup {"interrupt"} : Ask(c, op)
           \/ Claim \/ OwnerStep \/ UNCHANGED vars \/ \E s \in Submissions : Cancel(s)
    PROVE  Holdings'
<1>t. TypeOK /\ Custody /\ SessionHeld /\ input \in [InputIds -> InputRecord]
  BY DEF IInv, GateDiscipline, TypeOK
<1>1. CASE Claim
  <2>1. /\ UNCHANGED <<next, pending, batch, input>> /\ submissionCount' \in Submissions
        /\ pc[submissionCount'] = "none" /\ pc' = [pc EXCEPT ![submissionCount'] = "claimed"]
    <3>1. submissionCount' = submissionCount + 1 /\ submissionCount \in 0 .. MaxSubmissions
      BY <1>1, <1>t, ClaimOpensIdle DEF TypeOK
    <3>2. submissionCount' > submissionCount
      BY <3>1, SessionAssumption
    <3>3. QED
      BY <1>1, <1>t, <3>2, ClaimOpensIdle DEF SessionHeld, Goto, localVars, inputVars
  <2>2. \A t \in Submissions : \/ pc'[t] = pc[t]
                               \/ pc[t] = "none" /\ pc'[t] = "claimed"
    BY <1>t, <2>1 DEF TypeOK
  <2>3. {"none", "claimed"} \cap (Executing \cup {"iterate", "done", "applying", "lateApplying"}) = {}
    BY DEF Executing
  <2>4. QED
    BY <2>1, <2>2, <2>3 DEF Inputs, Holdings, HoldingsOf
<1>2. CASE ~Claim
  <2>1. UNCHANGED <<pc, next, pending, batch>>
    BY <1>2 DEF CallerStep, Enter, Offer, AnnounceQueued, Hit, CallerLeaves, Ask, callerFrame,
       localVars, OwnerStep, BeginClose, FinalizerInterrupts, FinalizerCloses, ownerFrame, Cancel, vars
  <2>2. \A i \in InputIds : \/ input[i].fate = "unused" /\ input'[i].fate = "queued"
                            \/ /\ input'[i].fate = input[i].fate /\ input'[i].kind = input[i].kind
                               /\ input'[i].sub = input[i].sub
    <3>1. ASSUME NEW c \in Callers, Offer(c) PROVE <2>2!:
      <4>1. \A i \in InputIds : \/ i # offered' /\ input'[i] = input[i]
                                \/ i = offered' /\ input[i].fate = "unused" /\ input'[i].fate = "queued"
        BY <3>1, OfferFacts
      <4>2. QED
        BY <4>1
    <3>2. ASSUME NEW c \in Callers, AnnounceQueued(c) \/ CallerLeaves(c) PROVE <2>2!:
      <4>1. \E i : input' \in {input, [input EXCEPT ![i].announced = TRUE],
                                      [input EXCEPT ![i].abandoned = TRUE]}
        BY <3>2 DEF AnnounceQueued, CallerLeaves
      <4>2. QED
        BY <1>t, <4>1 DEF InputRecord
    <3>3. CASE UNCHANGED input
      BY <3>3
    <3>4. QED
      BY <1>2, <3>1, <3>2, <3>3 DEF CallerStep, Enter, Hit, Ask, inputVars, OwnerStep, BeginClose,
         FinalizerInterrupts, FinalizerCloses, ownerFrame, Cancel, vars
  <2>3. ASSUME NEW t \in Submissions PROVE HoldingsOf(t)'
    <3>1. HoldingsOf(t)
      BY DEF Inputs, Holdings
    <3>2. QED
      BY <1>t, <2>1, <2>2, <3>1, HoldingsBystander
  <2>4. QED
    BY <2>3 DEF Holdings
<1>3. QED
  BY <1>1, <1>2

-----------------------------------------------------------------------------
(* What becomes of the inputs *)

LEMMA CourseFiber ==
    ASSUME IInv, Settling, Inputs, NEW s \in Submissions, FiberStep(s)
    PROVE  Course'
<1>t. /\ TypeOK /\ HoldingsOf(s) /\ Course /\ pc \in [Submissions -> PCs]
      /\ InputIds \subseteq Nat /\ Range(pending[s]) \subseteq InputIds /\ Range(batch[s]) \subseteq InputIds
      /\ None \notin InputIds
  BY HeldInputs, Labels DEF IInv, TypeOK, Inputs, Holdings
<1>d. UNCHANGED caller /\ \A t \in Submissions : pc[t] = "done" => pc'[t] = "done"
  <2>1. pc[s] # "done"
    BY <1>t, FiberMoves DEF Owning, Executing
  <2>2. QED
    BY <1>t, <2>1, FiberMoves
<1>c. Custody
  BY DEF IInv, GateDiscipline
<1>1. CASE Boundary(s) \/ LateDrain(s)
  <2>1. /\ pc[s] \in Executing \ {"completing"} /\ gate = None /\ UNCHANGED <<offered, terminal>>
        /\ \/ UNCHANGED <<queue, input>>
           \/ /\ queue' = [queue EXCEPT !["steer"] = <<>>]
              /\ input' = Taken(queue["steer"], s, "taken")
    BY <1>1 DEF Boundary, LateDrain, TakeSteering, GateFree, At, Executing, outcomeVars
  <2>2. "steer" \in Kinds
    BY DEF Kinds
  <2>3. CASE UNCHANGED <<queue, input>>
    BY <1>t, <1>d, <2>1, <2>3, CourseIdle DEF inputVars
  <2>4. CASE /\ queue' = [queue EXCEPT !["steer"] = <<>>]
             /\ input' = Taken(queue["steer"], s, "taken")
    BY <1>t, <1>d, <2>1, <2>2, <2>4, CourseTakes
  <2>5. QED
    BY <2>1, <2>3, <2>4
<1>2. CASE EndRun(s) \/ CloseDrain(s)
  <2>1. /\ pc[s] \in Executing \ {"completing"} /\ UNCHANGED <<offered, terminal>>
        /\ \/ UNCHANGED <<queue, input>>
           \/ /\ gate = None /\ queue' = [queue EXCEPT !["followUp"] = <<>>]
              /\ input' = Taken(queue["followUp"], s, "taken")
    BY <1>2 DEF EndRun, CloseDrain, TakeFollowUps, GateFree, At, Executing, outcomeVars
  <2>2. "followUp" \in Kinds
    BY DEF Kinds
  <2>3. CASE UNCHANGED <<queue, input>>
    BY <1>t, <1>d, <2>1, <2>3, CourseIdle DEF inputVars
  <2>4. CASE /\ gate = None /\ queue' = [queue EXCEPT !["followUp"] = <<>>]
             /\ input' = Taken(queue["followUp"], s, "taken")
    BY <1>t, <1>d, <2>1, <2>2, <2>4, CourseTakes
  <2>5. QED
    BY <2>1, <2>3, <2>4
<1>3. CASE Absorb(s)
  <2> DEFINE q == IF next[s] \in InputIds THEN <<next[s]>> ELSE <<>>
  <2>1. /\ pc[s] = "iterate" /\ input' = Taken(q, s, "applied")
        /\ UNCHANGED <<queue, offered, terminal>>
    BY <1>3 DEF Absorb, At, outcomeVars
  <2>2. Range(q) = {next[s]} \cap InputIds
    BY DEF Range
  <2> HIDE DEF q
  <2>3. pc[s] \in Executing \ {"completing"} /\ Range(batch[s]) = {}
    <3>1. pc[s] \in Executing \ {"completing"} /\ batch[s] = <<>>
      BY <1>t, <2>1 DEF HoldingsOf, Executing
    <3>2. QED
      BY <3>1 DEF Range
  <2>4. ASSUME NEW j \in Range(q)
        PROVE  /\ input[j].fate = "taken" /\ input[j].sub = s
               /\ \A i \in InputIds : /\ i < j /\ input[i].fate = "taken" /\ input[i].sub = s
                                      /\ input[i].kind = input[j].kind
                                      => i \in Range(q)
    <3>1. j = next[s] /\ j \in InputIds /\ input[j].fate = "taken" /\ input[j].sub = s
      BY <1>t, <1>c, <2>2, <2>4, OwnLocals DEF HoldingsOf
    <3>2. ASSUME NEW i \in InputIds, i < j, input[i].fate = "taken", input[i].sub = s
          PROVE  i \in Range(q)
      <4>1. i \in Range(pending[s]) \cup {j}
        BY <1>t, <2>3, <3>1, <3>2 DEF HoldingsOf
      <4>2. i \in Range(pending[s]) => j < i
        BY <1>t, <3>1 DEF HoldingsOf
      <4>3. i \in Nat /\ j \in Nat
        BY <1>t, <3>1
      <4>4. QED
        BY <3>2, <4>1, <4>2, <4>3
    <3>3. QED
      BY <3>1, <3>2
  <2>5. Range(q) \subseteq InputIds
    BY <2>2
  <2>6. QED
    BY <1>t, <1>d, <2>1, <2>3, <2>4, <2>5, CourseApplies
<1>4. CASE ApplySteering(s)
  <2>1. /\ pc[s] \in Executing \ {"completing"} /\ pc[s] \notin {"iterate", "done"}
        /\ input' = Taken(batch[s], s, "applied") /\ UNCHANGED <<queue, offered, terminal>>
    BY <1>4 DEF ApplySteering, At, Executing, outcomeVars
  <2>2. next[s] = None
    BY <1>t, <2>1 DEF HoldingsOf
  <2>3. ASSUME NEW j \in Range(batch[s])
        PROVE  /\ input[j].fate = "taken" /\ input[j].sub = s
               /\ \A i \in InputIds : /\ i < j /\ input[i].fate = "taken" /\ input[i].sub = s
                                      /\ input[i].kind = input[j].kind
                                      => i \in Range(batch[s])
    <3>1. input[j].fate = "taken" /\ input[j].sub = s /\ input[j].kind = "steer"
      BY <1>t, <1>c, <2>3, OwnLocals DEF HoldingsOf
    <3>2. ASSUME NEW i \in InputIds, input[i].fate = "taken", input[i].sub = s,
                 input[i].kind = "steer"
          PROVE  i \in Range(batch[s])
      <4>1. i \in Range(pending[s]) \cup Range(batch[s])
        BY <1>t, <2>1, <2>2, <3>2 DEF HoldingsOf
      <4>2. i \notin Range(pending[s])
        BY <1>t, <3>2 DEF HoldingsOf
      <4>3. QED
        BY <4>1, <4>2
    <3>3. QED
      BY <3>1, <3>2
  <2>4. QED
    BY <1>t, <1>d, <2>1, <2>3, CourseApplies
<1>5. CASE DropLeftovers(s)
  BY <1>5, <1>t, CourseDrops
<1>6. CASE Complete(s)
  <2>1. /\ pc[s] = "shift" /\ pending[s] = <<>> /\ ~steered[s] /\ UNCHANGED inputVars
        /\ terminal' = [terminal EXCEPT ![s] = @ \cup {"SubmissionCompleted"}]
    BY <1>6 DEF Complete, At
  <2>2. Fates' /\ Said' /\ AppliedInOrder'
    BY <1>t, <1>d, <2>1 DEF Course, Fates, Said, AppliedInOrder, inputVars
  <2>3. /\ next[s] = None /\ batch[s] = <<>> /\ queue["followUp"] = <<>> /\ queue["steer"] = <<>>
        /\ pc[s] \in Executing
    BY <1>t, <2>1 DEF HoldingsOf, Inputs, Shutting, ShuttingOf, Closing, Executing
  <2>4. Range(<<>>) = {}
    BY DEF Range
  <2>5. ASSUME NEW i \in InputIds, input[i].sub = s PROVE input[i].fate = "applied"
    <3>1. input[i] \in InputRecord
      BY <1>t, Numbers
    <3>2. input[i].fate # "queued"
      BY <1>t, <2>3, <2>4, <3>1 DEF Course, Fates, InputRecord, Kinds
    <3>3. input[i].fate # "unused"
      BY <1>t, <1>c, <2>5, Labels DEF Course, Fates, Custody
    <3>4. input[i].fate # "dropped"
      BY <1>t, <2>1, <2>5 DEF Course, Fates
    <3>5. input[i].fate # "taken"
      BY <1>t, <2>1, <2>3, <2>4, <2>5 DEF HoldingsOf
    <3>6. QED
      BY <3>1, <3>2, <3>3, <3>4, <3>5 DEF InputRecord
  <2>6. CompletedMeansApplied'
    <3>1. \A t \in Submissions : t # s => terminal'[t] = terminal[t]
      BY <1>t, <2>1 DEF TypeOK
    <3>2. QED
      BY <1>t, <2>1, <2>5, <3>1 DEF Course, CompletedMeansApplied, inputVars
  <2>7. QED
    BY <2>2, <2>6 DEF Course
<1>7. CASE \/ Register(s) \/ StartRun(s) \/ CommitTurn(s) \/ Tally(s) \/ Continue(s) \/ Stop(s)
           \/ CloseInput(s) \/ NextRun(s) \/ Break(s) \/ Fail(s) \/ Finish(s) \/ Unwind(s)
           \/ Settle(s) \/ ClearActive(s) \/ Withdraw(s)
  <2>1. UNCHANGED inputVars
    BY <1>7 DEF Register, StartRun, CommitTurn, Tally, Continue, Stop, CloseInput, NextRun, Break,
       Fail, Finish, Unwind, Settle, ClearActive, Withdraw
  <2>2. \/ UNCHANGED terminal
        \/ \E event \in SUBSET {"SubmissionInterrupted", "SubmissionFailed"} :
              terminal' = [terminal EXCEPT ![s] = @ \cup event]
    BY <1>7 DEF Register, StartRun, CommitTurn, Tally, Continue, Stop, CloseInput, NextRun, Break,
       Fail, Finish, Unwind, Exit, Settle, ClearActive, Withdraw, outcomeVars
  <2>3. \A t \in Submissions : "SubmissionCompleted" \in terminal'[t] =>
                                  "SubmissionCompleted" \in terminal[t]
    <3>1. DOMAIN terminal = Submissions
      BY <1>t DEF TypeOK
    <3>2. ASSUME NEW event \in SUBSET {"SubmissionInterrupted", "SubmissionFailed"},
                 terminal' = [terminal EXCEPT ![s] = @ \cup event], NEW t \in Submissions,
                 "SubmissionCompleted" \in terminal'[t]
          PROVE  "SubmissionCompleted" \in terminal[t]
      BY <3>1, <3>2
    <3>3. QED
      BY <2>2, <3>2
  <2>4. QED
    BY <1>t, <1>d, <2>1, <2>3, CourseIdle
<1>8. QED
  BY <1>1, <1>2, <1>3, <1>4, <1>5, <1>6, <1>7 DEF FiberStep

LEMMA CourseRest ==
    ASSUME IInv, Settling, Inputs,
           \/ \E c \in Callers : \/ CallerStep(c) \/ CallerLeaves(c)
                                 \/ \E op \in Kinds \cup {"interrupt"} : Ask(c, op)
           \/ Claim \/ OwnerStep \/ UNCHANGED vars \/ \E s \in Submissions : Cancel(s)
    PROVE  Course'
<1>t. TypeOK /\ Course /\ caller \in [Callers -> CallRecord]
  BY DEF IInv, Inputs, TypeOK
<1>1. ASSUME NEW c \in Callers, Offer(c) PROVE Course'
  BY <1>1, CourseOffers
<1>2. ASSUME NEW c \in Callers, AnnounceQueued(c) \/ CallerLeaves(c) PROVE Course'
  BY <1>2, <1>t, CourseMarks
<1>3. ASSUME NEW c \in Callers,
             Enter(c) \/ Hit(c) \/ \E op \in Kinds \cup {"interrupt"} : Ask(c, op)
      PROVE  Course'
  <2>1. UNCHANGED inputVars /\ UNCHANGED <<pc, terminal>>
    BY <1>3 DEF Enter, Hit, Ask, callerFrame, outcomeVars
  <2>2. /\ caller[c].pc # "offered" /\ caller'[c].pc # "offered"
        /\ \A d \in Callers : d # c => caller'[d] = caller[d]
    <3>1. CASE Enter(c)
      <4>1. caller' \in {[caller EXCEPT ![c].pc = "cleared"], [caller EXCEPT ![c] = NoCall]}
        BY <3>1 DEF Enter
      <4>2. [caller[c] EXCEPT !.pc = "cleared"].pc = "cleared" /\ NoCall.pc = "idle"
        BY <1>t DEF NoCall, CallRecord
      <4>3. QED
        BY <1>t, <3>1, <4>1, <4>2 DEF Enter
    <3>2. CASE Hit(c)
      BY <1>t, <3>2 DEF Hit, NoCall
    <3>3. ASSUME NEW op \in Kinds \cup {"interrupt"}, Ask(c, op) PROVE <2>2!:
      BY <1>t, <3>3 DEF Ask, NoCall
    <3>4. QED
      BY <1>3, <3>1, <3>2, <3>3
  <2>3. QED
    BY <1>t, <2>1, <2>2, CourseIdle
<1>4. CASE Claim
  <2>1. /\ UNCHANGED inputVars /\ UNCHANGED <<terminal, caller>> /\ submissionCount' > submissionCount
        /\ submissionCount' \in Submissions /\ pc' = [pc EXCEPT ![submissionCount'] = "claimed"]
    <3>1. submissionCount' = submissionCount + 1 /\ submissionCount \in 0 .. MaxSubmissions
      BY <1>4, <1>t, ClaimOpensIdle DEF TypeOK
    <3>2. submissionCount' > submissionCount
      BY <3>1, SessionAssumption
    <3>3. QED
      BY <1>4, <1>t, <3>2, ClaimOpensIdle DEF Goto, outcomeVars
  <2>2. pc[submissionCount'] = "none" /\ pc \in [Submissions -> PCs]
    BY <2>1 DEF IInv, GateDiscipline, SessionHeld, TypeOK
  <2>3. QED
    BY <1>t, <2>1, <2>2, CourseIdle
<1>5. CASE OwnerStep \/ UNCHANGED vars \/ \E s \in Submissions : Cancel(s)
  <2>1. UNCHANGED inputVars /\ UNCHANGED <<pc, terminal, caller>>
    BY <1>5 DEF OwnerStep, BeginClose, FinalizerInterrupts, FinalizerCloses, ownerFrame, Cancel,
       callerFrame, outcomeVars, vars
  <2>2. QED
    BY <1>t, <2>1, CourseIdle
<1>6. QED
  BY <1>1, <1>2, <1>3, <1>4, <1>5 DEF CallerStep

-----------------------------------------------------------------------------
(* What a step leaves shut *)

\* Nobody is cleared for a channel that does not accept, and whoever was cleared
\* and leaves its label leaves it for good.
LEMMA ShutStays ==
    ASSUME UNCHANGED accepting, NEW k,
           \A c \in Callers : caller'[c].pc = "cleared" =>
              \/ caller[c].pc = "cleared" /\ caller[c].op = caller'[c].op
              \/ accepting[caller'[c].op],
           Shut(k)
    PROVE  Shut(k)'
BY DEF Shut

\* While the permit is free no caller is between its check and its offer.
LEMMA ShutWhenFree ==
    ASSUME PermitHeld, gate = None, UNCHANGED caller, NEW k, ~accepting'[k]
    PROVE  Shut(k)'
BY Labels DEF PermitHeld, Shut

LEMMA ShuttingFrame ==
    ASSUME NEW t \in Submissions, ShuttingOf(t), UNCHANGED <<accepting, active, terminal>>,
           pc'[t] = pc[t], steered'[t] = steered[t], pending'[t] = pending[t],
           \A k \in Kinds : /\ Shut(k) => Shut(k)'
                            /\ Shut(k) /\ queue[k] = <<>> => queue'[k] = <<>>
    PROVE  ShuttingOf(t)'
<1>1. Kinds = {"steer", "followUp"} /\ Closing \subseteq Closing \cup {"late"}
  BY DEF Kinds
<1>2. QED
  BY <1>1 DEF ShuttingOf

\* A fibre moves on, with both channels as they are.
LEMMA ShuttingMove ==
    ASSUME IInv, Settling, NEW s \in Submissions, ShuttingOf(s), pc[s] \in Owning \ {"withdraw"},
           \/ Register(s) \/ Absorb(s) \/ ApplySteering(s) \/ CommitTurn(s) \/ Tally(s)
           \/ Continue(s) \/ Complete(s) \/ Break(s) \/ Fail(s) \/ Finish(s) \/ Unwind(s)
           \/ Settle(s) \/ ClearActive(s)
    PROVE  ShuttingOf(s)'
<1>t. /\ TypeOK /\ pc \in [Submissions -> PCs] /\ terminal \in [Submissions -> SUBSET Terminals]
      /\ pending \in [Submissions -> Seq(InputIds)] /\ steered \in [Submissions -> BOOLEAN]
      /\ SessionHeld
  BY DEF IInv, TypeOK, GateDiscipline
<1>1. UNCHANGED <<accepting, queue, active, caller>>
  BY DEF Register, Absorb, ApplySteering, CommitTurn, Tally, Continue, Complete, Break, Fail, Finish,
     Unwind, Settle, ClearActive, sessionVars, inputVars
<1>2. \A k : Shut(k)' <=> Shut(k)
  BY <1>1 DEF Shut
<1>e. /\ pc[s] \in {"claimed"} \cup (Executing \ {"completing"}) => terminal[s] = {}
      /\ active = s
  BY <1>t DEF Settling, Ends, SessionHeld
<1>3. CASE Register(s)
  <2>1. pc[s] = "claimed" /\ pc'[s] \in {"iterate", "done"} /\ terminal' = terminal
    BY <1>3, <1>t DEF Register, Goto
  <2>2. QED
    BY <1>1, <1>e, <2>1 DEF ShuttingOf, Closing, Executing
<1>4. CASE Absorb(s) \/ CommitTurn(s) \/ Tally(s) \/ Continue(s) \/ Break(s)
  <2>1. /\ pc[s] \in {"iterate", "turn", "tally", "decide"}
        /\ pc'[s] \in {"runStart", "tally", "decide", "boundary", "failing"}
        /\ terminal' = terminal
    BY <1>4, <1>t DEF Absorb, CommitTurn, Tally, Continue, Break, At, Goto, outcomeVars
  <2>2. QED
    BY <1>1, <1>e, <2>1 DEF ShuttingOf, Closing, Executing
<1>5. CASE ApplySteering(s)
  <2>1. /\ \/ pc[s] = "applying" /\ pc'[s] = "turn"
           \/ pc[s] = "lateApplying" /\ pc'[s] = "runEnd"
        /\ terminal' = terminal
    BY <1>5, <1>t DEF ApplySteering, At, Goto, outcomeVars
  <2>2. QED
    BY <1>1, <1>2, <1>e, <2>1 DEF ShuttingOf, Closing, Executing
<1>6. CASE Complete(s)
  <2>1. /\ pc[s] = "shift" /\ pc'[s] = "completing" /\ pending[s] = <<>> /\ ~steered[s]
    BY <1>6, <1>t DEF Complete, At, Goto
  <2>2. QED
    BY <1>1, <1>2, <2>1 DEF ShuttingOf, Closing, Executing, Owning
<1>7. CASE Fail(s) \/ Finish(s) \/ Unwind(s) \/ Settle(s) \/ ClearActive(s)
  <2>1. pc'[s] \in {"settle", "clear", "withdraw"}
    BY <1>7, <1>t DEF Fail, Finish, Unwind, Exit, Settle, ClearActive, Goto
  <2>2. "SubmissionCompleted" \in terminal'[s] => "SubmissionCompleted" \in terminal[s]
    <3>1. \/ UNCHANGED terminal
          \/ \E event \in SUBSET {"SubmissionInterrupted", "SubmissionFailed"} :
                terminal' = [terminal EXCEPT ![s] = @ \cup event]
      BY <1>7 DEF Fail, Finish, Unwind, Exit, Settle, ClearActive, outcomeVars
    <3>2. ASSUME NEW event \in SUBSET {"SubmissionInterrupted", "SubmissionFailed"},
                 terminal' = [terminal EXCEPT ![s] = @ \cup event]
          PROVE  <2>2!:
      BY <1>t, <3>2
    <3>3. QED
      BY <3>1, <3>2
  <2>3. QED
    BY <1>1, <1>2, <2>1, <2>2 DEF ShuttingOf, Closing, Executing, Owning
<1>8. QED
  BY <1>3, <1>4, <1>5, <1>6, <1>7

\* The steps that open, shut or empty a channel.
LEMMA ShuttingDrains ==
    ASSUME IInv, Settling, NEW s \in Submissions, ShuttingOf(s), pc[s] \in Owning \ {"withdraw"},
           \/ StartRun(s) \/ Boundary(s) \/ Stop(s) \/ LateDrain(s) \/ EndRun(s)
           \/ CloseInput(s) \/ CloseDrain(s) \/ NextRun(s)
    PROVE  ShuttingOf(s)'
<1>t. /\ TypeOK /\ pc \in [Submissions -> PCs] /\ PermitHeld /\ SessionHeld
      /\ accepting \in [Kinds -> BOOLEAN] /\ queue \in [Kinds -> Seq(InputIds)]
      /\ pending \in [Submissions -> Seq(InputIds)] /\ steered \in [Submissions -> BOOLEAN]
      /\ Kinds = {"steer", "followUp"}
  BY DEF IInv, TypeOK, GateDiscipline, Kinds
<1>1. UNCHANGED <<active, caller, terminal>> /\ pc[s] \in Executing \ {"completing"}
  BY DEF StartRun, Boundary, Stop, LateDrain, TakeSteering, EndRun, CloseInput, CloseDrain, NextRun,
     At, sessionVars, outcomeVars, Executing
<1>e. terminal'[s] = {}
  BY <1>1 DEF Settling, Ends
<1>2. \A k \in Kinds : accepting'[k] = accepting[k] => (Shut(k)' <=> Shut(k))
  BY <1>1 DEF Shut
<1>3. CASE StartRun(s) \/ NextRun(s)
  <2>1. /\ pc[s] \in {"runStart", "shift"} /\ pc'[s] \in {"boundary", "iterate"}
        /\ \/ pc[s] = "runStart" /\ accepting'["followUp"] = accepting["followUp"]
           \/ pc[s] = "shift" /\ steered[s] /\ accepting' = accepting
           \/ accepting'["followUp"]
    BY <1>3, <1>t DEF StartRun, NextRun, At, Goto
  <2>2. QED
    BY <1>e, <2>1 DEF ShuttingOf, Closing, Executing
<1>4. CASE Boundary(s)
  <2>1. pc[s] = "boundary" /\ pc'[s] \in {"applying", "turn"} /\ accepting' = accepting
    BY <1>4, <1>t DEF Boundary, TakeSteering, At, Goto, sessionVars
  <2>2. QED
    BY <1>e, <2>1 DEF ShuttingOf, Closing, Executing
<1>5. CASE LateDrain(s)
  <2>1. /\ pc[s] = "late" /\ pc'[s] \in {"lateApplying", "runEnd"} /\ accepting' = accepting
        /\ queue'["steer"] = <<>>
    BY <1>5, <1>t DEF LateDrain, TakeSteering, At, Goto, sessionVars
  <2>2. QED
    BY <1>2, <1>t, <1>e, <2>1 DEF ShuttingOf, Closing, Executing
<1>6. CASE Stop(s)
  <2>1. /\ pc[s] = "decide" /\ pc'[s] = "late" /\ gate = None
        /\ ~accepting'["steer"] /\ accepting'["followUp"] = accepting["followUp"]
    BY <1>6, <1>t DEF Stop, At, Goto, GateFree
  <2>2. Shut("steer")'
    BY <1>t, <1>1, <2>1, ShutWhenFree
  <2>3. QED
    BY <1>e, <2>1, <2>2 DEF ShuttingOf, Closing, Executing
<1>7. CASE EndRun(s)
  <2>1. /\ pc[s] = "runEnd" /\ pc'[s] = "closeInput" /\ accepting' = accepting
        /\ queue'["steer"] = queue["steer"]
    BY <1>7, <1>t DEF EndRun, TakeFollowUps, At, Goto, sessionVars
  <2>2. QED
    BY <1>2, <1>t, <1>e, <2>1 DEF ShuttingOf, Closing, Executing
<1>8. CASE CloseInput(s)
  <2>1. /\ pc[s] = "closeInput" /\ accepting'["steer"] = accepting["steer"]
        /\ UNCHANGED <<queue, pending, steered>>
        /\ \/ /\ pc'[s] = "closeDrain" /\ ~accepting'["followUp"] /\ ~steered[s]
           \/ /\ pc'[s] = "shift" /\ accepting' = accepting
              /\ pending[s] # <<>> \/ steered[s] \/ ~accepting["followUp"]
    BY <1>8, <1>t DEF CloseInput, At, Goto, localVars, inputVars
  <2>2. accepting["followUp"]
    BY <2>1 DEF ShuttingOf, Executing
  <2>3. QED
    BY <1>2, <1>t, <1>e, <2>1, <2>2 DEF ShuttingOf, Closing, Executing
<1>9. CASE CloseDrain(s)
  <2>1. /\ pc[s] = "closeDrain" /\ pc'[s] = "shift" /\ gate = None
        /\ accepting'["steer"] = accepting["steer"] /\ queue'["steer"] = queue["steer"]
        /\ steered' = steered /\ pending'[s] = queue["followUp"] /\ queue'["followUp"] = <<>>
        /\ ~accepting["followUp"] /\ queue["followUp"] = <<>> => ~accepting'["followUp"]
    BY <1>9, <1>t DEF CloseDrain, TakeFollowUps, GateFree, At, Goto
  <2>2. pending'[s] = <<>> => Shut("followUp")'
    BY <1>t, <1>1, <2>1, ShutWhenFree DEF ShuttingOf
  <2>3. QED
    BY <1>2, <1>t, <1>e, <2>1, <2>2 DEF ShuttingOf, Closing, Executing
<1>10. QED
  BY <1>3, <1>4, <1>5, <1>6, <1>7, <1>8, <1>9

LEMMA ShuttingFiber ==
    ASSUME IInv, Settling, Inputs, NEW s \in Submissions, FiberStep(s)
    PROVE  Shutting'
<1>t. /\ TypeOK /\ SessionHeld /\ pc[s] \in Owning \cup {"drop"} /\ UNCHANGED caller
      /\ pc \in [Submissions -> PCs]
      /\ \A t \in Submissions : ShuttingOf(t) /\ (t # s => pc'[t] = pc[t])
  BY FiberMoves DEF IInv, TypeOK, GateDiscipline, Inputs, Shutting
<1>1. CASE pc[s] = "drop"
  <2>1. DropLeftovers(s)
    BY <1>1 DEF FiberStep, Register, Absorb, StartRun, Boundary, LateDrain, TakeSteering,
       ApplySteering, CommitTurn, Tally, Continue, Stop, EndRun, CloseInput, CloseDrain, NextRun,
       Complete, Break, Fail, Finish, Unwind, Settle, ClearActive, Withdraw, At, Executing
  <2>2. /\ UNCHANGED <<accepting, active, terminal, steered, pending>> /\ pc'[s] = "done"
        /\ \A k \in Kinds : queue'[k] = <<>>
    BY <1>t, <2>1 DEF DropLeftovers, Goto, EmptyQueues, sessionVars, outcomeVars, localVars
  <2>3. \A k \in Kinds : Shut(k) => Shut(k)'
    BY <1>t, <2>2 DEF Shut
  <2>4. ASSUME NEW t \in Submissions PROVE ShuttingOf(t)'
    <3>1. CASE t = s
      BY <1>1, <1>t, <2>2, <3>1 DEF ShuttingOf, Closing, Executing, Owning
    <3>2. CASE t # s
      BY <1>t, <2>2, <2>3, <3>2, ShuttingFrame
    <3>3. QED
      BY <3>1, <3>2
  <2>5. QED
    BY <2>4 DEF Shutting
<1>2. CASE pc[s] \in Owning
  <2>1. active = s /\ active' \in {s, None}
    BY <1>2, <1>t DEF SessionHeld, FiberStep, Register, Absorb, StartRun, Boundary, LateDrain,
       TakeSteering, ApplySteering, CommitTurn, Tally, Continue, Stop, EndRun, CloseInput,
       CloseDrain, NextRun, Complete, Break, Fail, Finish, Unwind, Settle, ClearActive, Withdraw,
       DropLeftovers, sessionVars
  <2>2. ASSUME NEW t \in Submissions, t # s PROVE ShuttingOf(t)'
    <3>1. pc'[t] \notin Owning /\ active' # t
      BY <1>t, <2>1, <2>2, Labels DEF SessionHeld
    <3>2. QED
      BY <3>1 DEF ShuttingOf, Closing, Executing, Owning
  <2>3. ShuttingOf(s)'
    <3>1. CASE pc[s] = "withdraw"
      <4>1. Withdraw(s)
        BY <3>1 DEF FiberStep, Register, Absorb, StartRun, Boundary, LateDrain, TakeSteering,
           ApplySteering, CommitTurn, Tally, Continue, Stop, EndRun, CloseInput, CloseDrain, NextRun,
           Complete, Break, Fail, Finish, Unwind, Settle, ClearActive, DropLeftovers, At, Executing
      <4>2. pc'[s] = "drop" /\ active' = None
        BY <1>t, <4>1 DEF Withdraw, Goto
      <4>3. QED
        BY <4>2, Labels DEF ShuttingOf, Closing, Executing
    <3>2. CASE pc[s] # "withdraw"
      <4>1. pc[s] \in Owning \ {"withdraw"} /\ pc[s] # "drop"
        BY <1>2, <3>2 DEF Owning, Executing
      <4>2. ~Withdraw(s) /\ ~DropLeftovers(s)
        BY <3>2, <4>1 DEF Withdraw, DropLeftovers
      <4>3. QED
        BY <1>t, <4>1, <4>2, ShuttingMove, ShuttingDrains DEF FiberStep
    <3>3. QED
      BY <3>1, <3>2
  <2>4. QED
    BY <2>2, <2>3 DEF Shutting
<1>3. QED
  BY <1>1, <1>2, <1>t

LEMMA ShuttingRest ==
    ASSUME IInv, Settling, Inputs,
           \/ \E c \in Callers : \/ CallerStep(c) \/ CallerLeaves(c)
                                 \/ \E op \in Kinds \cup {"interrupt"} : Ask(c, op)
           \/ Claim \/ OwnerStep \/ UNCHANGED vars \/ \E s \in Submissions : Cancel(s)
    PROVE  Shutting'
<1>t. /\ TypeOK /\ SessionHeld /\ caller \in [Callers -> CallRecord]
      /\ queue \in [Kinds -> Seq(InputIds)] /\ pc \in [Submissions -> PCs]
      /\ \A t \in Submissions : ShuttingOf(t)
  BY DEF IInv, TypeOK, GateDiscipline, Inputs, Shutting
<1>1. CASE Claim
  <2>1. /\ status = "idle" /\ UNCHANGED <<terminal, caller>> /\ submissionCount' \in Submissions
        /\ submissionCount' > submissionCount /\ active' = submissionCount'
        /\ pc' = [pc EXCEPT ![submissionCount'] = "claimed"] /\ accepting' = [k \in Kinds |-> TRUE]
    <3>1. submissionCount' = submissionCount + 1 /\ submissionCount \in 0 .. MaxSubmissions
      BY <1>1, <1>t, ClaimOpensIdle DEF TypeOK
    <3>2. submissionCount' > submissionCount
      BY <3>1, SessionAssumption
    <3>3. QED
      BY <1>1, <1>t, <3>2, ClaimOpensIdle DEF Goto, outcomeVars
  <2>2. /\ pc[submissionCount'] = "none" /\ terminal[submissionCount'] = {}
        /\ \A t \in Submissions : pc[t] \notin Owning
    BY <1>t, <2>1 DEF SessionHeld, Settling, Ends
  <2>3. ASSUME NEW t \in Submissions PROVE ShuttingOf(t)'
    <3>1. CASE t = submissionCount'
      <4>1. pc'[t] = "claimed" /\ terminal'[t] = {} /\ accepting'["followUp"]
        BY <1>t, <2>1, <2>2, <3>1 DEF Kinds
      <4>2. QED
        BY <4>1 DEF ShuttingOf, Closing, Executing
    <3>2. CASE t # submissionCount'
      <4>1. pc'[t] \notin Owning /\ active' # t
        BY <1>t, <2>1, <2>2, <3>2
      <4>2. QED
        BY <4>1 DEF ShuttingOf, Closing, Executing, Owning
    <3>3. QED
      BY <3>1, <3>2
  <2>4. QED
    BY <2>3 DEF Shutting
<1>2. CASE ~Claim
  <2>1. UNCHANGED <<pc, accepting, active, terminal, steered, pending>>
    BY <1>2 DEF CallerStep, Enter, Offer, AnnounceQueued, Hit, CallerLeaves, Ask, callerFrame,
       sessionVars, localVars, outcomeVars, OwnerStep, BeginClose, FinalizerInterrupts,
       FinalizerCloses, ownerFrame, Cancel, vars
  <2>2. \A d \in Callers : caller'[d].pc = "cleared" =>
           \/ caller[d].pc = "cleared" /\ caller[d].op = caller'[d].op
           \/ accepting[caller'[d].op]
    <3>1. ASSUME NEW c \in Callers, Enter(c) PROVE <2>2!:
      <4>1. \/ caller' = [caller EXCEPT ![c] = NoCall]
            \/ /\ caller' = [caller EXCEPT ![c].pc = "cleared"] /\ accepting[caller[c].op]
        BY <3>1 DEF Enter
      <4>2. NoCall.pc = "idle" /\ [caller[c] EXCEPT !.pc = "cleared"].op = caller[c].op
        BY <1>t DEF NoCall, CallRecord
      <4>3. QED
        BY <1>t, <4>1, <4>2
    <3>2. ASSUME NEW c \in Callers, Offer(c) PROVE <2>2!:
      BY <3>2, OfferFacts
    <3>3. ASSUME NEW c \in Callers,
                 \/ AnnounceQueued(c) \/ CallerLeaves(c) \/ Hit(c)
                 \/ \E op \in Kinds \cup {"interrupt"} : Ask(c, op)
          PROVE  <2>2!:
      <4>1. /\ caller'[c].pc # "cleared" /\ \A d \in Callers : d # c => caller'[d] = caller[d]
        <5>1. ASSUME NEW op \in Kinds \cup {"interrupt"}, Ask(c, op) PROVE <4>1!:
          <6>1. \E call : call.pc = "validated" /\ caller' = [caller EXCEPT ![c] = call]
            BY <5>1 DEF Ask, NoCall
          <6>2. QED
            BY <1>t, <6>1
        <5>2. CASE AnnounceQueued(c) \/ CallerLeaves(c) \/ Hit(c)
          <6>1. caller' = [caller EXCEPT ![c] = NoCall] /\ NoCall.pc = "idle"
            BY <5>2 DEF AnnounceQueued, CallerLeaves, Hit, NoCall
          <6>2. QED
            BY <1>t, <6>1
        <5>3. QED
          BY <3>3, <5>1, <5>2
      <4>2. QED
        BY <4>1
    <3>4. CASE UNCHANGED caller
      BY <3>4
    <3>5. QED
      BY <1>2, <3>1, <3>2, <3>3, <3>4 DEF CallerStep, OwnerStep, BeginClose, FinalizerInterrupts,
         FinalizerCloses, ownerFrame, Cancel, vars
  <2>3. \A k \in Kinds : Shut(k) => Shut(k)'
    BY <2>1, <2>2, ShutStays
  <2>4. \A k \in Kinds : Shut(k) /\ queue[k] = <<>> => queue'[k] = <<>>
    <3>1. ASSUME NEW c \in Callers, Offer(c) PROVE <2>4!:
      <4>1. /\ caller[c].op \in Kinds /\ caller[c].pc = "cleared"
            /\ queue' = [queue EXCEPT ![caller[c].op] = Append(queue[caller[c].op], offered')]
        BY <3>1, OfferFacts
      <4>2. ~Shut(caller[c].op)
        BY <4>1 DEF Shut
      <4>3. QED
        BY <1>t, <4>1, <4>2
    <3>2. CASE UNCHANGED queue
      BY <3>2
    <3>3. QED
      BY <1>2, <3>1, <3>2 DEF CallerStep, Enter, AnnounceQueued, Hit, CallerLeaves, Ask, inputVars,
         OwnerStep, BeginClose, FinalizerInterrupts, FinalizerCloses, ownerFrame, Cancel, callerFrame,
         vars
  <2>5. ASSUME NEW t \in Submissions PROVE ShuttingOf(t)'
    BY <1>t, <2>1, <2>3, <2>4, ShuttingFrame
  <2>6. QED
    BY <2>5 DEF Shutting
<1>3. QED
  BY <1>1, <1>2

-----------------------------------------------------------------------------
(* The inductive invariant, and what follows from it *)

LEMMA InputsInit == Init => Inputs
<1> SUFFICES ASSUME Init PROVE Inputs
  OBVIOUS
<1>1. /\ \A k \in Kinds : queue[k] = <<>>
      /\ \A s \in Submissions : /\ pc[s] = "none" /\ next[s] = None /\ pending[s] = <<>>
                                /\ batch[s] = <<>> /\ terminal[s] = {}
      /\ \A i \in InputIds : input[i].fate = "unused"
      /\ \A c \in Callers : caller[c].pc = "idle"
      /\ offered = 0 /\ \A i \in InputIds : i > 0
  BY SessionAssumption DEF Init, EmptyQueues, NoInput, NoCall, InputIds
<1>2. Range(<<>>) = {} /\ Increasing(<<>>) /\ None \notin InputIds
  BY Labels DEF Range, Increasing
<1>3. Fates
  BY <1>1, <1>2 DEF Fates
<1>4. Said
  <2>1. \A i \in InputIds : ~(i <= offered)
    BY <1>1, Labels
  <2>2. QED
    BY <1>1, <2>1 DEF Said
<1>5. AppliedInOrder /\ CompletedMeansApplied
  BY <1>1 DEF AppliedInOrder, CompletedMeansApplied
<1>6. Holdings
  BY <1>1, <1>2 DEF Holdings, HoldingsOf
<1>7. Shutting
  BY <1>1 DEF Shutting, ShuttingOf, Closing, Executing
<1>8. QED
  BY <1>3, <1>4, <1>5, <1>6, <1>7 DEF Inputs, Course

LEMMA InputsStep == IInv /\ Settling /\ Inputs /\ [Next]_vars => Inputs'
<1> SUFFICES ASSUME IInv, Settling, Inputs, [Next]_vars PROVE Inputs'
  OBVIOUS
<1>1. ASSUME NEW s \in Submissions, FiberStep(s) PROVE Inputs'
  BY <1>1, CourseFiber, HoldingsFiber, ShuttingFiber DEF Inputs
<1>2. CASE \/ \E c \in Callers : \/ CallerStep(c) \/ CallerLeaves(c)
                                 \/ \E op \in Kinds \cup {"interrupt"} : Ask(c, op)
           \/ Claim \/ OwnerStep \/ UNCHANGED vars \/ \E s \in Submissions : Cancel(s)
  <2>1. Course' /\ Holdings' /\ Shutting'
    BY <1>2, CourseRest, HoldingsRest, ShuttingRest
  <2>2. QED
    BY <2>1 DEF Inputs
<1>3. QED
  BY <1>1, <1>2 DEF Next, OwnerStep, Over

LEMMA InputsInvariance == Spec => [](IInv /\ Settling /\ Inputs)
BY InputsInit, InputsStep, SettlingInit, SettlingStep, InvInit, InvStep, PTL DEF Spec

-----------------------------------------------------------------------------
\* No follow-up and no steer is left behind by a submission that completes: each
\* channel is shut, under the permit, before the look that finds it empty
\* (AgentSubmission.execute's closing drain, AgentRun's late one).
THEOREM SpecCompletedMeansApplied == Spec => []CompletedMeansApplied
<1>1. Inputs => CompletedMeansApplied
  BY DEF Inputs, Course
<1>2. QED
  BY InputsInvariance, <1>1, PTL

\* Inputs of a kind are applied in the order they were queued, whatever batches,
\* late arrivals and pending follow-ups they went through.
THEOREM SpecAppliedInOrder == Spec => []AppliedInOrder
<1>1. Inputs => AppliedInOrder
  BY DEF Inputs, Course
<1>2. QED
  BY InputsInvariance, <1>1, PTL

\* Nothing is applied before its caller has announced it, or left: the permit is
\* held from the offer to the announcement, and a drain waits for it.
THEOREM SpecQueuedBeforeApplied == Spec => []QueuedBeforeApplied
<1>1. Inputs => QueuedBeforeApplied
  BY DEF Inputs, Course, Said, QueuedBeforeApplied
<1>2. QED
  BY InputsInvariance, <1>1, PTL

\* Once SubmissionCompleted is published the submission commits no turn and
\* announces no input; only the interrupt of an emission that is still being
\* observed may follow (AgentSubmission.execute, onExit).
THEOREM SpecCompletionIsLastWord == Spec => CompletionIsLastWord
<1> DEFINE Silent == \A s \in Submissions :
                        "SubmissionCompleted" \in terminal[s] /\ Speaks(s)
                        => terminal'[s] = {"SubmissionCompleted", "SubmissionInterrupted"}
<1>1. ASSUME IInv, Settling, Inputs, [Next]_vars PROVE [Silent]_vars
  <2> SUFFICES ASSUME Next, NEW s \in Submissions, "SubmissionCompleted" \in terminal[s], Speaks(s)
               PROVE  terminal'[s] = {"SubmissionCompleted", "SubmissionInterrupted"}
    BY <1>1
  <2>t. /\ TypeOK /\ pc \in [Submissions -> PCs] /\ terminal \in [Submissions -> SUBSET Terminals]
        /\ committed \in [Submissions -> Nat] /\ input \in [InputIds -> InputRecord]
    BY <1>1 DEF IInv, TypeOK
  <2>1. /\ pc[s] \notin {"none", "claimed"} \cup (Executing \ {"completing"})
        /\ pc[s] = "completing" => terminal[s] = {"SubmissionCompleted"}
    BY <1>1 DEF Settling, Ends
  <2>2. \A i \in InputIds : input[i].sub = s => input[i].fate = "applied"
    BY <1>1 DEF Inputs, Course, CompletedMeansApplied
  <2>3. ~\E i \in InputIds : input[i].sub = s /\ input'[i].announced /\ ~input[i].announced
    <3> SUFFICES ASSUME NEW i \in InputIds, input[i].sub = s, input'[i].announced,
                        ~input[i].announced
                 PROVE  FALSE
      OBVIOUS
    <3>1. CASE \E u \in Submissions : FiberStep(u)
      BY <1>1, <2>t, <3>1, FiberTakes, TakenFacts
    <3>2. ASSUME NEW c \in Callers, Offer(c) PROVE FALSE
      <4>1. i = offered' => input[i].fate = "unused"
        BY <1>1, <3>2, OfferFacts
      <4>2. i # offered' => input'[i] = input[i]
        BY <1>1, <3>2, OfferFacts
      <4>3. QED
        BY <2>2, <4>1, <4>2
    <3>3. ASSUME NEW c \in Callers, AnnounceQueued(c) PROVE FALSE
      <4>1. caller[c].input \in InputIds /\ input[caller[c].input].fate = "queued"
        BY <1>1, <3>3 DEF AnnounceQueued, Inputs, Course, Said
      <4>2. i # caller[c].input => input'[i] = input[i]
        BY <2>t, <3>3 DEF AnnounceQueued
      <4>3. QED
        BY <2>2, <4>1, <4>2
    <3>4. ASSUME NEW c \in Callers, CallerLeaves(c) PROVE FALSE
      BY <2>t, <3>4 DEF CallerLeaves, InputRecord
    <3>5. CASE UNCHANGED input
      BY <3>5
    <3>6. QED
      BY <3>1, <3>2, <3>3, <3>4, <3>5, ClaimOpensIdle, <2>t
         DEF Next, CallerStep, Enter, Hit, Ask, inputVars, BeginClose, FinalizerInterrupts,
             FinalizerCloses, ownerFrame, Cancel, Over, vars
  <2>4. terminal'[s] # terminal[s] \/ committed'[s] # committed[s]
    BY <2>3 DEF Speaks
  <2>5. PICK u \in Submissions : FiberStep(u)
    BY <2>4, <2>t, ClaimOpensIdle DEF Next, CallerStep, CallerLeaves, Enter, Offer, AnnounceQueued,
       Hit, Ask, callerFrame, BeginClose, FinalizerInterrupts, FinalizerCloses, ownerFrame, Cancel,
       Over, vars, outcomeVars
  <2>6. u = s
    BY <2>4, <2>5, <2>t DEF FiberStep, Register, Absorb, StartRun, Boundary, LateDrain, TakeSteering,
       ApplySteering, CommitTurn, Tally, Continue, Stop, EndRun, CloseInput, CloseDrain, NextRun,
       Complete, Break, Fail, Finish, Unwind, Exit, Settle, ClearActive, Withdraw, DropLeftovers,
       outcomeVars
  <2>7. Unwind(s)
    BY <2>1, <2>4, <2>5, <2>6, <2>t DEF FiberStep, Register, Absorb, StartRun, Boundary, LateDrain,
       TakeSteering, ApplySteering, CommitTurn, Tally, Continue, Stop, EndRun, CloseInput,
       CloseDrain, NextRun, Complete, Break, Fail, Finish, Exit, Settle, ClearActive, Withdraw,
       DropLeftovers, outcomeVars, At, Executing
  <2>8. QED
    BY <2>1, <2>7, <2>t DEF Unwind, Exit
<1>2. IInv /\ Settling /\ Inputs /\ [Next]_vars => [Silent]_vars
  BY <1>1
<1>3. QED
  BY <1>2, InputsInvariance, PTL DEF Spec, CompletionIsLastWord, Silent
=============================================================================
