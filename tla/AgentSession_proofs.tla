------------------------- MODULE AgentSession_proofs -------------------------
(***************************************************************************)
(* What holds of AgentSession for every number of callers, submissions,    *)
(* inputs and turns.  The argument is in three layers: the state keeps its *)
(* shape while the permit and the session have one holder (Inv), then the  *)
(* inputs stay in that holder's custody (IInv), and the properties follow. *)
(***************************************************************************)
EXTENDS AgentSession, TLAPS

-----------------------------------------------------------------------------
(* Sequences and their elements *)

\* The elements of a sequence over S are in S; Append and \o add elements, Head
\* and Tail add none.
LEMMA RangeFacts ==
    ASSUME NEW S, NEW q \in Seq(S), NEW r \in Seq(S)
    PROVE  /\ Range(q) \subseteq S
           /\ Range(<<>>) = {}
           /\ \A e \in S : /\ Range(<<e>>) = {e}
                          /\ Range(Append(q, e)) \subseteq Range(q) \cup {e}
           /\ Range(q \o r) \subseteq Range(q) \cup Range(r)
           /\ q # <<>> => Head(q) \in Range(q) /\ Range(Tail(q)) \subseteq Range(q)
<1>1. Range(q) \subseteq S
  BY DEF Range
<1>2. Range(<<>>) = {}
  BY DEF Range
<1>3. ASSUME NEW e \in S PROVE Range(<<e>>) = {e}
  BY DEF Range
<1>4. ASSUME NEW e \in S PROVE Range(Append(q, e)) \subseteq Range(q) \cup {e}
  BY DEF Range
<1>5. Range(q \o r) \subseteq Range(q) \cup Range(r)
  <2> SUFFICES ASSUME NEW n \in 1 .. Len(q) + Len(r)
               PROVE  (q \o r)[n] \in Range(q) \cup Range(r)
    BY DEF Range
  <2>1. CASE n <= Len(q)
    BY <2>1 DEF Range
  <2>2. CASE n > Len(q)
    <3>1. n - Len(q) \in 1 .. Len(r) /\ (q \o r)[n] = r[n - Len(q)]
      BY <2>2
    <3>2. QED
      BY <3>1 DEF Range
  <2>3. QED
    BY <2>1, <2>2
<1>6. q # <<>> => Head(q) \in Range(q) /\ Range(Tail(q)) \subseteq Range(q)
  BY DEF Range
<1>7. QED
  BY <1>1, <1>2, <1>3, <1>4, <1>5, <1>6

-----------------------------------------------------------------------------
(* Admission *)

\* The shared decision opens an idle slot only, under its next ordinal.
LEMMA AdmitOpensIdle ==
    ASSUME NEW slot, NEW key
    PROVE  /\ slot.tag = "Closed" => Adm!admit(slot, key).tag = "Closed"
           /\ slot.tag = "Held" => Adm!admit(slot, key).tag \in {"Rejoin", "Busy"}
           /\ slot.tag = "Idle" =>
                Adm!admit(slot, key) = [tag |-> "Open", ordinal |-> slot.count + 1]
<1>1. CASE slot.tag = "Closed"
  BY <1>1 DEF Adm!admit
<1>2. CASE slot.tag = "Held"
  BY <1>2 DEF Adm!admit
<1>3. CASE slot.tag = "Idle"
  BY <1>3 DEF Adm!admit
<1>4. QED
  BY <1>1, <1>2, <1>3

\* Only an idle session is claimed, and by the next submission number.
LEMMA ClaimOpensIdle ==
    ASSUME TypeOK, Claim
    PROVE  /\ status = "idle" /\ status' = "running"
           /\ submissionCount' = submissionCount + 1
           /\ submissionCount' \in Submissions /\ active' = submissionCount'
           /\ accepting' = [k \in Kinds |-> TRUE]
           /\ Goto(submissionCount', "claimed")
           /\ UNCHANGED <<fiberVars, localVars, inputVars, outcomeVars, gate,
                          interrupted, caller, owner>>
<1>1. Adm!admit(claimSlot, None).tag = "Open"
  BY DEF Claim
<1>2. status # "closed"
  <2> SUFFICES ASSUME status = "closed" PROVE FALSE
    OBVIOUS
  <2>1. claimSlot.tag = "Closed"
    BY DEF claimSlot, Adm!ClosedSlot
  <2>2. QED
    BY <1>1, <2>1, AdmitOpensIdle
<1>3. status # "running"
  <2> SUFFICES ASSUME status = "running" PROVE FALSE
    OBVIOUS
  <2>1. claimSlot.tag = "Held"
    BY DEF claimSlot, Adm!HeldSlot
  <2>2. QED
    BY <1>1, <2>1, AdmitOpensIdle
<1>4. status = "idle"
  BY <1>2, <1>3 DEF TypeOK
<1>5. claimSlot.tag = "Idle" /\ claimSlot.count = submissionCount
  BY <1>4 DEF claimSlot, Adm!IdleSlot
<1>6. Adm!admit(claimSlot, None).ordinal = submissionCount + 1
  BY <1>5, AdmitOpensIdle
<1>7. QED
  BY <1>4, <1>6 DEF Claim

-----------------------------------------------------------------------------
(* The shape of the state *)

\* The labels that are assigned are labels, and the references are in range.
LEMMA Labels ==
    /\ Executing \subseteq PCs /\ Releasing \subseteq PCs /\ Owning \subseteq PCs
    /\ {"none", "claimed", "done"} \subseteq PCs
    /\ None \notin Submissions /\ None \notin InputIds /\ Prompt \notin InputIds
    /\ None \notin Callers /\ Submissions \cap Callers = {}
    /\ Submissions \subseteq Nat /\ InputIds \subseteq Nat
BY SessionAssumption DEF PCs, Executing, Releasing, Owning, None, Prompt, Submissions, InputIds

LEMMA TypeInit == Init => TypeOK
BY SessionAssumption DEF Init, TypeOK, NoInput, NoCall, Refusing, EmptyQueues, Submissions,
   InputIds, None, Prompt, Kinds, PCs, Causes, Terminals, InputRecord, CallRecord

LEMMA GotoType ==
    ASSUME pc \in [Submissions -> PCs], NEW s, NEW label \in PCs, Goto(s, label)
    PROVE  pc' \in [Submissions -> PCs]
BY DEF Goto

\* Taking inputs off a channel rewrites their fate and nothing of their shape.
LEMMA TakenType ==
    ASSUME input \in [InputIds -> InputRecord], NEW s \in Submissions, NEW q,
           NEW fate \in {"taken", "applied", "dropped"}
    PROVE  Taken(q, s, fate) \in [InputIds -> InputRecord]
BY DEF Taken, InputRecord

LEMMA ExitType ==
    ASSUME TypeOK, NEW s \in Submissions, NEW c \in Causes, NEW event \in SUBSET Terminals,
           Exit(s, c, event)
    PROVE  /\ cause' \in [Submissions -> Causes]
           /\ terminal' \in [Submissions -> SUBSET Terminals]
           /\ next' \in [Submissions -> InputIds \cup {None, Prompt}]
           /\ pending' \in [Submissions -> Seq(InputIds)]
           /\ batch' \in [Submissions -> Seq(InputIds)]
           /\ turn' \in [Submissions -> Nat]
           /\ steered' \in [Submissions -> BOOLEAN]
           /\ pc' \in [Submissions -> PCs]
<1>1. cause' \in [Submissions -> Causes]
  BY DEF Exit, TypeOK
<1>2. terminal' \in [Submissions -> SUBSET Terminals]
  BY DEF Exit, TypeOK
<1>3. next' \in [Submissions -> InputIds \cup {None, Prompt}]
  BY DEF Exit, TypeOK
<1>4. pending' \in [Submissions -> Seq(InputIds)]
  BY DEF Exit, TypeOK
<1>5. batch' \in [Submissions -> Seq(InputIds)]
  BY DEF Exit, TypeOK
<1>6. turn' \in [Submissions -> Nat] /\ steered' \in [Submissions -> BOOLEAN]
  BY DEF Exit, TypeOK
<1>7. pc' \in [Submissions -> PCs]
  BY Labels, GotoType DEF Exit, TypeOK, Releasing
<1>8. QED
  BY <1>1, <1>2, <1>3, <1>4, <1>5, <1>6, <1>7

\* A step keeps TypeOK if it keeps each variable or gives it a value of its type.
LEMMA Typed ==
    ASSUME TypeOK,
           status' = status \/ status' \in {"idle", "running", "closed"},
           submissionCount' = submissionCount \/ submissionCount' \in 0 .. MaxSubmissions,
           active' = active \/ active' \in Submissions \cup {None},
           accepting' = accepting \/ accepting' \in [Kinds -> BOOLEAN],
           queue' = queue \/ queue' \in [Kinds -> Seq(InputIds)],
           gate' = gate \/ gate' \in Submissions \cup Callers \cup {None},
           activeFiber' = activeFiber \/ activeFiber' \in Submissions \cup {None},
           settled' = settled \/ settled' \in [sub : Submissions \cup {None}, turns : Nat],
           progress' = progress \/ progress' \in Nat,
           pc' = pc \/ pc' \in [Submissions -> PCs],
           next' = next \/ next' \in [Submissions -> InputIds \cup {None, Prompt}],
           pending' = pending \/ pending' \in [Submissions -> Seq(InputIds)],
           batch' = batch \/ batch' \in [Submissions -> Seq(InputIds)],
           turn' = turn \/ turn' \in [Submissions -> Nat],
           steered' = steered \/ steered' \in [Submissions -> BOOLEAN],
           cause' = cause \/ cause' \in [Submissions -> Causes],
           interrupted' = interrupted \/ interrupted' \in [Submissions -> BOOLEAN],
           committed' = committed \/ committed' \in [Submissions -> Nat],
           terminal' = terminal \/ terminal' \in [Submissions -> SUBSET Terminals],
           caller' = caller \/ caller' \in [Callers -> CallRecord],
           input' = input \/ input' \in [InputIds -> InputRecord],
           offered' = offered \/ offered' \in 0 .. MaxInputs,
           owner' = owner \/ owner' \in [pc : {"open", "closing", "awaiting", "closed"},
                     target : Submissions \cup {None}]
    PROVE  TypeOK'
<1>1. status' \in {"idle", "running", "closed"}
  BY DEF TypeOK
<1>2. submissionCount' \in 0 .. MaxSubmissions
  BY DEF TypeOK
<1>3. active' \in Submissions \cup {None}
  BY DEF TypeOK
<1>4. accepting' \in [Kinds -> BOOLEAN]
  BY DEF TypeOK
<1>5. queue' \in [Kinds -> Seq(InputIds)]
  BY DEF TypeOK
<1>6. gate' \in Submissions \cup Callers \cup {None}
  BY DEF TypeOK
<1>7. activeFiber' \in Submissions \cup {None}
  BY DEF TypeOK
<1>8. settled' \in [sub : Submissions \cup {None}, turns : Nat]
  BY DEF TypeOK
<1>9. progress' \in Nat
  BY DEF TypeOK
<1>10. pc' \in [Submissions -> PCs]
  BY DEF TypeOK
<1>11. next' \in [Submissions -> InputIds \cup {None, Prompt}]
  BY DEF TypeOK
<1>12. pending' \in [Submissions -> Seq(InputIds)]
  BY DEF TypeOK
<1>13. batch' \in [Submissions -> Seq(InputIds)]
  BY DEF TypeOK
<1>14. turn' \in [Submissions -> Nat]
  BY DEF TypeOK
<1>15. steered' \in [Submissions -> BOOLEAN]
  BY DEF TypeOK
<1>16. cause' \in [Submissions -> Causes]
  BY DEF TypeOK
<1>17. interrupted' \in [Submissions -> BOOLEAN]
  BY DEF TypeOK
<1>18. committed' \in [Submissions -> Nat]
  BY DEF TypeOK
<1>19. terminal' \in [Submissions -> SUBSET Terminals]
  BY DEF TypeOK
<1>20. caller' \in [Callers -> CallRecord]
  BY DEF TypeOK
<1>21. input' \in [InputIds -> InputRecord]
  BY DEF TypeOK
<1>22. offered' \in 0 .. MaxInputs
  BY DEF TypeOK
<1>23. owner' \in [pc : {"open", "closing", "awaiting", "closed"}, target : Submissions \cup {None}]
  BY DEF TypeOK
<1>24. QED
  BY <1>1, <1>2, <1>3, <1>4, <1>5, <1>6, <1>7, <1>8, <1>9, <1>10, <1>11, <1>12,
     <1>13, <1>14, <1>15, <1>16, <1>17, <1>18, <1>19, <1>20, <1>21, <1>22, <1>23
     DEF TypeOK

LEMMA TypeFiber ==
    ASSUME TypeOK, NEW s \in Submissions, FiberStep(s)
    PROVE  TypeOK'
<1> USE DEF At
<1>1. CASE Register(s)
  <2>1. pc' \in [Submissions -> PCs]
    <3>1. \E label \in {"iterate", "done"} : label \in PCs /\ Goto(s, label)
      BY <1>1 DEF Register, PCs, Executing, Releasing
    <3>2. QED
      BY <3>1, GotoType DEF TypeOK
  <2>2. cause' \in [Submissions -> Causes]
    BY <1>1 DEF TypeOK, Register, Causes
  <2>3. next' \in [Submissions -> InputIds \cup {None, Prompt}]
    BY <1>1 DEF TypeOK, Register, Prompt
  <2>4. progress' \in Nat /\ activeFiber' \in Submissions \cup {None}
    BY <1>1 DEF Register
  <2>5. UNCHANGED <<sessionVars, settled, pending, batch, turn, steered, inputVars,
                    committed, terminal, gate, interrupted, caller, owner>>
    BY <1>1 DEF Register
  <2>6. QED
    BY <2>1, <2>2, <2>3, <2>4, <2>5, Typed
       DEF sessionVars, fiberVars, localVars, inputVars, outcomeVars
<1>2. CASE Absorb(s)
  <2>1. pc' \in [Submissions -> PCs]
    <3>1. Goto(s, "runStart") /\ "runStart" \in PCs
      BY <1>2 DEF Absorb, PCs, Executing, Releasing
    <3>2. QED
      BY <3>1, GotoType DEF TypeOK
  <2>2. input' \in [InputIds -> InputRecord]
    BY <1>2, TakenType DEF TypeOK, Absorb
  <2>3. next' \in [Submissions -> InputIds \cup {None, Prompt}]
    BY <1>2 DEF TypeOK, Absorb
  <2>4. UNCHANGED <<sessionVars, fiberVars, pending, batch, turn, steered, queue,
                    offered, outcomeVars, gate, interrupted, caller, owner>>
    BY <1>2 DEF Absorb
  <2>5. QED
    BY <2>1, <2>2, <2>3, <2>4, Typed
       DEF sessionVars, fiberVars, localVars, inputVars, outcomeVars
<1>3. CASE StartRun(s)
  <2>1. pc' \in [Submissions -> PCs]
    <3>1. Goto(s, "boundary") /\ "boundary" \in PCs
      BY <1>3 DEF StartRun, PCs, Executing, Releasing
    <3>2. QED
      BY <3>1, GotoType DEF TypeOK
  <2>2. accepting' \in [Kinds -> BOOLEAN]
    BY <1>3 DEF TypeOK, StartRun, Kinds
  <2>3. turn' \in [Submissions -> Nat]
    BY <1>3 DEF TypeOK, StartRun
  <2>4. steered' \in [Submissions -> BOOLEAN]
    BY <1>3 DEF TypeOK, StartRun
  <2>5. UNCHANGED <<status, submissionCount, active, fiberVars, next, pending, batch,
                    inputVars, outcomeVars, gate, interrupted, caller, owner>>
    BY <1>3 DEF StartRun
  <2>6. QED
    BY <2>1, <2>2, <2>3, <2>4, <2>5, Typed
       DEF sessionVars, fiberVars, localVars, inputVars, outcomeVars
<1>4. CASE Boundary(s)
  <2>1. pc' \in [Submissions -> PCs]
    <3>1. \E label \in {"applying", "turn"} : label \in PCs /\ Goto(s, label)
      BY <1>4 DEF Boundary, TakeSteering, PCs, Executing, Releasing
    <3>2. QED
      BY <3>1, GotoType DEF TypeOK
  <2>2. input' \in [InputIds -> InputRecord]
    <3>1. CASE queue["steer"] = <<>>
      BY <1>4, <3>1 DEF TypeOK, Boundary, TakeSteering
    <3>2. CASE queue["steer"] # <<>>
      <4>1. input' = Taken(queue["steer"], s, "taken")
        BY <1>4, <3>2 DEF Boundary, TakeSteering
      <4>2. QED
        BY <4>1, TakenType DEF TypeOK
    <3>3. QED
      BY <3>1, <3>2
  <2>3. batch' \in [Submissions -> Seq(InputIds)]
    BY <1>4 DEF TypeOK, Boundary, TakeSteering, Kinds
  <2>4. queue' \in [Kinds -> Seq(InputIds)]
    <3>1. <<>> \in Seq(InputIds) /\ queue \in [Kinds -> Seq(InputIds)]
      BY DEF TypeOK
    <3>2. queue' \in {queue, [queue EXCEPT !["steer"] = <<>>]}
      BY <1>4 DEF Boundary, TakeSteering
    <3>3. QED
      BY <3>1, <3>2
  <2>5. gate' \in Submissions \cup Callers \cup {None}
    BY <1>4 DEF TypeOK, Boundary, TakeSteering
  <2>6. QED
    BY <1>4, <2>1, <2>2, <2>3, <2>4, <2>5 DEF TypeOK, Boundary, TakeSteering, sessionVars, fiberVars, localVars, inputVars, outcomeVars
<1>5. CASE ApplySteering(s)
  <2>1. pc' \in [Submissions -> PCs]
    <3>1. \E label \in {"turn", "runEnd"} : label \in PCs /\ Goto(s, label)
      BY <1>5 DEF ApplySteering, PCs, Executing, Releasing
    <3>2. QED
      BY <3>1, GotoType DEF TypeOK
  <2>2. input' \in [InputIds -> InputRecord]
    BY <1>5, TakenType DEF TypeOK, ApplySteering
  <2>3. batch' \in [Submissions -> Seq(InputIds)]
    BY <1>5 DEF TypeOK, ApplySteering
  <2>4. steered' \in [Submissions -> BOOLEAN]
    BY <1>5 DEF TypeOK, ApplySteering
  <2>5. gate' \in Submissions \cup Callers \cup {None}
    BY <1>5 DEF TypeOK, ApplySteering
  <2>6. UNCHANGED <<sessionVars, fiberVars, next, pending, turn, queue, offered,
                    outcomeVars, interrupted, caller, owner>>
    BY <1>5 DEF ApplySteering
  <2>7. QED
    BY <2>1, <2>2, <2>3, <2>4, <2>5, <2>6, Typed
       DEF sessionVars, fiberVars, localVars, inputVars, outcomeVars
<1>6. CASE CommitTurn(s)
  <2>1. pc' \in [Submissions -> PCs]
    <3>1. Goto(s, "tally") /\ "tally" \in PCs
      BY <1>6 DEF CommitTurn, PCs, Executing, Releasing
    <3>2. QED
      BY <3>1, GotoType DEF TypeOK
  <2>2. turn' \in [Submissions -> Nat]
    <3>1. turn \in [Submissions -> Nat]
      BY DEF TypeOK
    <3>2. QED
      BY <1>6, <3>1 DEF CommitTurn
  <2>3. committed' \in [Submissions -> Nat]
    <3>1. committed \in [Submissions -> Nat]
      BY DEF TypeOK
    <3>2. QED
      BY <1>6, <3>1 DEF CommitTurn
  <2>4. UNCHANGED <<sessionVars, fiberVars, next, pending, batch, steered, inputVars,
                    cause, terminal, gate, interrupted, caller, owner>>
    BY <1>6 DEF CommitTurn
  <2>5. QED
    BY <2>1, <2>2, <2>3, <2>4, Typed
       DEF sessionVars, fiberVars, localVars, inputVars, outcomeVars
<1>7. CASE Tally(s)
  <2>1. pc' \in [Submissions -> PCs]
    <3>1. Goto(s, "decide") /\ "decide" \in PCs
      BY <1>7 DEF Tally, PCs, Executing, Releasing
    <3>2. QED
      BY <3>1, GotoType DEF TypeOK
  <2>2. progress' \in Nat
    BY <1>7 DEF TypeOK, Tally
  <2>3. UNCHANGED <<sessionVars, activeFiber, settled, localVars, inputVars,
                    outcomeVars, gate, interrupted, caller, owner>>
    BY <1>7 DEF Tally
  <2>4. QED
    BY <2>1, <2>2, <2>3, Typed
       DEF sessionVars, fiberVars, localVars, inputVars, outcomeVars
<1>8. CASE Continue(s)
  <2>1. pc' \in [Submissions -> PCs]
    <3>1. Goto(s, "boundary") /\ "boundary" \in PCs
      BY <1>8 DEF Continue, PCs, Executing, Releasing
    <3>2. QED
      BY <3>1, GotoType DEF TypeOK
  <2>2. UNCHANGED <<sessionVars, fiberVars, localVars, inputVars, outcomeVars, gate,
                    interrupted, caller, owner>>
    BY <1>8 DEF Continue
  <2>3. QED
    BY <2>1, <2>2, Typed
       DEF sessionVars, fiberVars, localVars, inputVars, outcomeVars
<1>9. CASE Stop(s)
  <2>1. pc' \in [Submissions -> PCs]
    <3>1. Goto(s, "late") /\ "late" \in PCs
      BY <1>9 DEF Stop, PCs, Executing, Releasing
    <3>2. QED
      BY <3>1, GotoType DEF TypeOK
  <2>2. accepting' \in [Kinds -> BOOLEAN]
    BY <1>9 DEF TypeOK, Stop, Kinds
  <2>3. UNCHANGED <<status, submissionCount, active, fiberVars, localVars, inputVars,
                    outcomeVars, gate, interrupted, caller, owner>>
    BY <1>9 DEF Stop
  <2>4. QED
    BY <2>1, <2>2, <2>3, Typed
       DEF sessionVars, fiberVars, localVars, inputVars, outcomeVars
<1>10. CASE LateDrain(s)
  <2>1. pc' \in [Submissions -> PCs]
    <3>1. \E label \in {"lateApplying", "runEnd"} : label \in PCs /\ Goto(s, label)
      BY <1>10 DEF LateDrain, TakeSteering, PCs, Executing, Releasing
    <3>2. QED
      BY <3>1, GotoType DEF TypeOK
  <2>2. input' \in [InputIds -> InputRecord]
    <3>1. CASE queue["steer"] = <<>>
      BY <1>10, <3>1 DEF TypeOK, LateDrain, TakeSteering
    <3>2. CASE queue["steer"] # <<>>
      <4>1. input' = Taken(queue["steer"], s, "taken")
        BY <1>10, <3>2 DEF LateDrain, TakeSteering
      <4>2. QED
        BY <4>1, TakenType DEF TypeOK
    <3>3. QED
      BY <3>1, <3>2
  <2>3. batch' \in [Submissions -> Seq(InputIds)]
    BY <1>10 DEF TypeOK, LateDrain, TakeSteering, Kinds
  <2>4. queue' \in [Kinds -> Seq(InputIds)]
    <3>1. <<>> \in Seq(InputIds) /\ queue \in [Kinds -> Seq(InputIds)]
      BY DEF TypeOK
    <3>2. queue' \in {queue, [queue EXCEPT !["steer"] = <<>>]}
      BY <1>10 DEF LateDrain, TakeSteering
    <3>3. QED
      BY <3>1, <3>2
  <2>5. gate' \in Submissions \cup Callers \cup {None}
    BY <1>10 DEF TypeOK, LateDrain, TakeSteering
  <2>6. QED
    BY <1>10, <2>1, <2>2, <2>3, <2>4, <2>5 DEF TypeOK, LateDrain, TakeSteering, sessionVars, fiberVars, localVars, inputVars, outcomeVars
<1>11. CASE EndRun(s)
  <2>1. pc' \in [Submissions -> PCs]
    <3>1. Goto(s, "closeInput") /\ "closeInput" \in PCs
      BY <1>11 DEF EndRun, PCs, Executing, Releasing
    <3>2. QED
      BY <3>1, GotoType DEF TypeOK
  <2>2. input' \in [InputIds -> InputRecord]
    BY <1>11, TakenType DEF TypeOK, EndRun, TakeFollowUps
  <2>3. pending' \in [Submissions -> Seq(InputIds)]
    BY <1>11 DEF TypeOK, EndRun, TakeFollowUps, Kinds
  <2>4. queue' \in [Kinds -> Seq(InputIds)]
    BY <1>11 DEF TypeOK, EndRun, TakeFollowUps, Kinds
  <2>5. UNCHANGED <<sessionVars, fiberVars, next, batch, turn, steered, offered,
                    outcomeVars, gate, interrupted, caller, owner>>
    BY <1>11 DEF EndRun
  <2>6. QED
    BY <2>1, <2>2, <2>3, <2>4, <2>5, Typed
       DEF sessionVars, fiberVars, localVars, inputVars, outcomeVars
<1>12. CASE CloseInput(s)
  <2>1. pc' \in [Submissions -> PCs]
    <3>1. \E label \in {"closeDrain", "shift"} : label \in PCs /\ Goto(s, label)
      BY <1>12 DEF CloseInput, PCs, Executing, Releasing
    <3>2. QED
      BY <3>1, GotoType DEF TypeOK
  <2>2. accepting' \in [Kinds -> BOOLEAN]
    <3>1. accepting' \in {accepting, [accepting EXCEPT !["followUp"] = FALSE]}
      BY <1>12 DEF CloseInput
    <3>2. QED
      BY <3>1 DEF TypeOK
  <2>3. UNCHANGED <<status, submissionCount, active, fiberVars, localVars, inputVars,
                    outcomeVars, gate, interrupted, caller, owner>>
    BY <1>12 DEF CloseInput
  <2>4. QED
    BY <2>1, <2>2, <2>3, Typed
       DEF sessionVars, fiberVars, localVars, inputVars, outcomeVars
<1>13. CASE CloseDrain(s)
  <2>1. pc' \in [Submissions -> PCs]
    <3>1. Goto(s, "shift") /\ "shift" \in PCs
      BY <1>13 DEF CloseDrain, PCs, Executing, Releasing
    <3>2. QED
      BY <3>1, GotoType DEF TypeOK
  <2>2. input' \in [InputIds -> InputRecord]
    BY <1>13, TakenType DEF TypeOK, CloseDrain, TakeFollowUps
  <2>3. pending' \in [Submissions -> Seq(InputIds)]
    BY <1>13 DEF TypeOK, CloseDrain, TakeFollowUps, Kinds
  <2>4. queue' \in [Kinds -> Seq(InputIds)]
    BY <1>13 DEF TypeOK, CloseDrain, TakeFollowUps, Kinds
  <2>5. accepting' \in [Kinds -> BOOLEAN]
    BY <1>13 DEF TypeOK, CloseDrain, Kinds
  <2>6. UNCHANGED <<status, submissionCount, active, fiberVars, next, batch, turn, steered,
                    offered, outcomeVars, gate, interrupted, caller, owner>>
    BY <1>13 DEF CloseDrain
  <2>7. QED
    BY <2>1, <2>2, <2>3, <2>4, <2>5, <2>6, Typed
       DEF sessionVars, fiberVars, localVars, inputVars, outcomeVars
<1>14. CASE NextRun(s)
  <2>1. pc' \in [Submissions -> PCs]
    <3>1. Goto(s, "iterate") /\ "iterate" \in PCs
      BY <1>14 DEF NextRun, PCs, Executing
    <3>2. QED
      BY <3>1, GotoType DEF TypeOK
  <2>2. accepting' \in [Kinds -> BOOLEAN]
    BY <1>14 DEF TypeOK, NextRun, Kinds
  <2>3. pending' \in [Submissions -> Seq(InputIds)]
    <3>1. pending[s] \in Seq(InputIds)
      BY DEF TypeOK
    <3>2. pending[s] # <<>> => Tail(pending[s]) \in Seq(InputIds)
      BY <3>1
    <3>3. QED
      BY <1>14, <3>2 DEF TypeOK, NextRun
  <2>4. next' \in [Submissions -> InputIds \cup {None, Prompt}]
    <3>1. pending[s] \in Seq(InputIds)
      BY DEF TypeOK
    <3>2. pending[s] # <<>> => Head(pending[s]) \in InputIds
      BY <3>1
    <3>3. QED
      BY <1>14, <3>2 DEF TypeOK, NextRun
  <2>5. UNCHANGED <<status, submissionCount, active, fiberVars, batch, turn, steered,
                    inputVars, outcomeVars, gate, interrupted, caller, owner>>
    BY <1>14 DEF NextRun
  <2>6. QED
    BY <2>1, <2>2, <2>3, <2>4, <2>5, Typed
       DEF sessionVars, fiberVars, localVars, inputVars, outcomeVars
<1>15. CASE Complete(s)
  <2>1. pc' \in [Submissions -> PCs]
    <3>1. Goto(s, "completing") /\ "completing" \in PCs
      BY <1>15 DEF Complete, PCs, Executing, Releasing
    <3>2. QED
      BY <3>1, GotoType DEF TypeOK
  <2>2. terminal' \in [Submissions -> SUBSET Terminals]
    BY <1>15 DEF TypeOK, Complete, Terminals
  <2>3. UNCHANGED <<sessionVars, fiberVars, localVars, inputVars, cause, committed,
                    gate, interrupted, caller, owner>>
    BY <1>15 DEF Complete
  <2>4. QED
    BY <2>1, <2>2, <2>3, Typed
       DEF sessionVars, fiberVars, localVars, inputVars, outcomeVars
<1>16. CASE Finish(s)
  <2>1. /\ cause' \in [Submissions -> Causes]
        /\ terminal' \in [Submissions -> SUBSET Terminals]
        /\ next' \in [Submissions -> InputIds \cup {None, Prompt}]
        /\ pending' \in [Submissions -> Seq(InputIds)]
        /\ batch' \in [Submissions -> Seq(InputIds)]
        /\ turn' \in [Submissions -> Nat]
        /\ steered' \in [Submissions -> BOOLEAN]
        /\ pc' \in [Submissions -> PCs]
    <3>1. "completed" \in Causes /\ {} \in SUBSET Terminals
      BY DEF Causes
    <3>2. QED
      BY <1>16, <3>1, ExitType DEF Finish
  <2>2. UNCHANGED <<sessionVars, fiberVars, inputVars, committed, gate, interrupted,
                    caller, owner>>
    BY <1>16 DEF Finish
  <2>3. QED
    BY <2>1, <2>2, Typed
       DEF sessionVars, fiberVars, localVars, inputVars, outcomeVars
<1>17. CASE Break(s)
  <2>1. pc' \in [Submissions -> PCs]
    <3>1. Goto(s, "failing") /\ "failing" \in PCs
      BY <1>17 DEF Break, PCs, Executing, Releasing
    <3>2. QED
      BY <3>1, GotoType DEF TypeOK
  <2>2. cause' \in [Submissions -> Causes]
    BY <1>17 DEF TypeOK, Break, Causes
  <2>3. UNCHANGED <<sessionVars, fiberVars, localVars, inputVars, committed, terminal,
                    gate, interrupted, caller, owner>>
    BY <1>17 DEF Break
  <2>4. QED
    BY <2>1, <2>2, <2>3, Typed
       DEF sessionVars, fiberVars, localVars, inputVars, outcomeVars
<1>18. CASE Fail(s)
  <2>1. /\ cause' \in [Submissions -> Causes]
        /\ terminal' \in [Submissions -> SUBSET Terminals]
        /\ next' \in [Submissions -> InputIds \cup {None, Prompt}]
        /\ pending' \in [Submissions -> Seq(InputIds)]
        /\ batch' \in [Submissions -> Seq(InputIds)]
        /\ turn' \in [Submissions -> Nat]
        /\ steered' \in [Submissions -> BOOLEAN]
        /\ pc' \in [Submissions -> PCs]
    <3>1. cause[s] \in Causes
      BY DEF TypeOK
    <3>2. {IF cause[s] = "interrupted" THEN "SubmissionInterrupted" ELSE "SubmissionFailed"}
            \in SUBSET Terminals
      BY DEF Terminals
    <3>3. QED
      BY <1>18, <3>1, <3>2, ExitType DEF Fail
  <2>2. UNCHANGED <<sessionVars, fiberVars, inputVars, committed, gate, interrupted,
                    caller, owner>>
    BY <1>18 DEF Fail
  <2>3. QED
    BY <2>1, <2>2, Typed
       DEF sessionVars, fiberVars, localVars, inputVars, outcomeVars
<1>19. CASE Unwind(s)
  <2>1. /\ cause' \in [Submissions -> Causes]
        /\ terminal' \in [Submissions -> SUBSET Terminals]
        /\ next' \in [Submissions -> InputIds \cup {None, Prompt}]
        /\ pending' \in [Submissions -> Seq(InputIds)]
        /\ batch' \in [Submissions -> Seq(InputIds)]
        /\ turn' \in [Submissions -> Nat]
        /\ steered' \in [Submissions -> BOOLEAN]
        /\ pc' \in [Submissions -> PCs]
    BY <1>19, ExitType DEF TypeOK, Unwind, Causes, Terminals
  <2>2. gate' \in Submissions \cup Callers \cup {None}
    BY <1>19 DEF TypeOK, Unwind
  <2>3. interrupted' \in [Submissions -> BOOLEAN]
    BY <1>19 DEF TypeOK, Unwind
  <2>4. UNCHANGED <<sessionVars, fiberVars, inputVars, committed, caller, owner>>
    BY <1>19 DEF Unwind
  <2>5. QED
    BY <2>1, <2>2, <2>3, <2>4, Typed
       DEF sessionVars, fiberVars, localVars, inputVars, outcomeVars
<1>20. CASE Settle(s)
  <2>1. pc' \in [Submissions -> PCs]
    <3>1. Goto(s, "clear") /\ "clear" \in PCs
      BY <1>20 DEF Settle, PCs, Executing, Releasing
    <3>2. QED
      BY <3>1, GotoType DEF TypeOK
  <2>2. settled' \in [sub : Submissions \cup {None}, turns : Nat]
    BY <1>20 DEF TypeOK, Settle
  <2>3. UNCHANGED <<sessionVars, activeFiber, progress, localVars, inputVars,
                    outcomeVars, gate, interrupted, caller, owner>>
    BY <1>20 DEF Settle
  <2>4. QED
    BY <2>1, <2>2, <2>3, Typed
       DEF sessionVars, fiberVars, localVars, inputVars, outcomeVars
<1>21. CASE ClearActive(s)
  <2>1. pc' \in [Submissions -> PCs]
    <3>1. Goto(s, "withdraw") /\ "withdraw" \in PCs
      BY <1>21 DEF ClearActive, PCs, Executing, Releasing
    <3>2. QED
      BY <3>1, GotoType DEF TypeOK
  <2>2. activeFiber' \in Submissions \cup {None}
    BY <1>21 DEF ClearActive
  <2>3. UNCHANGED <<sessionVars, settled, progress, localVars, inputVars, outcomeVars,
                    gate, interrupted, caller, owner>>
    BY <1>21 DEF ClearActive
  <2>4. QED
    BY <2>1, <2>2, <2>3, Typed
       DEF sessionVars, fiberVars, localVars, inputVars, outcomeVars
<1>22. CASE Withdraw(s)
  <2>1. pc' \in [Submissions -> PCs]
    <3>1. Goto(s, "drop") /\ "drop" \in PCs
      BY <1>22 DEF Withdraw, PCs, Executing, Releasing
    <3>2. QED
      BY <3>1, GotoType DEF TypeOK
  <2>2. accepting' \in [Kinds -> BOOLEAN]
    BY <1>22 DEF TypeOK, Withdraw, Refusing
  <2>3. gate' \in Submissions \cup Callers \cup {None}
    BY <1>22 DEF TypeOK, Withdraw
  <2>4. status' \in {"idle", "running", "closed"}
    BY <1>22 DEF TypeOK, Withdraw
  <2>5. active' \in Submissions \cup {None}
    BY <1>22 DEF Withdraw
  <2>6. UNCHANGED <<submissionCount, fiberVars, localVars, inputVars, outcomeVars,
                    interrupted, caller, owner>>
    BY <1>22 DEF Withdraw
  <2>7. QED
    BY <2>1, <2>2, <2>3, <2>4, <2>5, <2>6, Typed
       DEF sessionVars, fiberVars, localVars, inputVars, outcomeVars
<1>23. CASE DropLeftovers(s)
  <2>1. pc' \in [Submissions -> PCs]
    <3>1. Goto(s, "done") /\ "done" \in PCs
      BY <1>23 DEF DropLeftovers, PCs, Executing, Releasing
    <3>2. QED
      BY <3>1, GotoType DEF TypeOK
  <2>2. input' \in [InputIds -> InputRecord]
    BY <1>23, TakenType DEF TypeOK, DropLeftovers
  <2>3. queue' \in [Kinds -> Seq(InputIds)]
    BY <1>23 DEF TypeOK, DropLeftovers, EmptyQueues
  <2>4. gate' \in Submissions \cup Callers \cup {None}
    BY <1>23 DEF DropLeftovers
  <2>5. UNCHANGED <<sessionVars, fiberVars, localVars, offered, outcomeVars,
                    interrupted, caller, owner>>
    BY <1>23 DEF DropLeftovers
  <2>6. QED
    BY <2>1, <2>2, <2>3, <2>4, <2>5, Typed
       DEF sessionVars, fiberVars, localVars, inputVars, outcomeVars
<1>24. QED
  BY <1>1, <1>2, <1>3, <1>4, <1>5, <1>6, <1>7, <1>8, <1>9, <1>10, <1>11, <1>12, <1>13, <1>14, <1>15, <1>16, <1>17, <1>18, <1>19, <1>20, <1>21, <1>22, <1>23 DEF FiberStep

\* The updates callers make to a call and to an input keep their shape.
LEMMA CallUpdates ==
    ASSUME NEW call \in CallRecord
    PROVE  /\ NoCall \in CallRecord
           /\ [call EXCEPT !.pc = "cleared"] \in CallRecord
           /\ \A i \in InputIds : [call EXCEPT !.pc = "offered", !.input = i] \in CallRecord
BY DEF CallRecord, NoCall, Kinds

LEMMA InputUpdates ==
    ASSUME NEW rec \in InputRecord
    PROVE  /\ [rec EXCEPT !.announced = TRUE] \in InputRecord
           /\ [rec EXCEPT !.abandoned = TRUE] \in InputRecord
           /\ \A kind \in Kinds, s \in Submissions \cup {None} :
                 [rec EXCEPT !.kind = kind, !.fate = "queued", !.sub = s] \in InputRecord
BY DEF InputRecord

LEMMA TypeCaller ==
    ASSUME TypeOK, SessionHeld, NEW c \in Callers,
           CallerStep(c) \/ CallerLeaves(c) \/ \E op \in Kinds \cup {"interrupt"} : Ask(c, op)
    PROVE  TypeOK'
<1>1. ASSUME NEW op \in Kinds \cup {"interrupt"}, Ask(c, op) PROVE TypeOK'
  <2>1. caller' \in [Callers -> CallRecord]
    BY <1>1 DEF TypeOK, Ask, NoCall, CallRecord
  <2>2. UNCHANGED <<callerFrame, inputVars, gate, interrupted>>
    BY <1>1 DEF Ask
  <2>3. QED
    BY <2>1, <2>2, Typed
       DEF callerFrame, sessionVars, fiberVars, localVars, inputVars, outcomeVars
<1>2. CASE Enter(c)
  <2>1. caller' \in [Callers -> CallRecord]
    <3>1. NoCall \in CallRecord /\ [caller[c] EXCEPT !.pc = "cleared"] \in CallRecord
      BY CallUpdates DEF TypeOK
    <3>2. QED
      BY <1>2, <3>1 DEF TypeOK, Enter
  <2>2. gate' \in Submissions \cup Callers \cup {None}
    BY <1>2 DEF TypeOK, Enter
  <2>3. UNCHANGED <<callerFrame, inputVars, interrupted>>
    BY <1>2 DEF Enter
  <2>4. QED
    BY <2>1, <2>2, <2>3, Typed
       DEF callerFrame, sessionVars, fiberVars, localVars, inputVars, outcomeVars
<1>3. CASE Offer(c)
  <2>1. offered' \in InputIds /\ offered' = offered + 1 /\ offered' \in 0 .. MaxInputs
    <3>1. offered < MaxInputs /\ offered' = offered + 1
      BY <1>3 DEF SessionHeld, Offer
    <3>2. QED
      BY <3>1, SessionAssumption DEF TypeOK, InputIds
  <2>2. caller[c] \in CallRecord /\ caller[c].op \in Kinds \cup {"interrupt"}
        /\ caller[c].target \in Submissions \cup {None}
    BY DEF TypeOK, CallRecord
  <2>3. caller[c].op \in Kinds
    BY <1>3 DEF SessionHeld, Offer
  <2>4. caller' \in [Callers -> CallRecord]
    <3>1. [caller[c] EXCEPT !.pc = "offered", !.input = offered'] \in CallRecord
      BY <2>1, <2>2, CallUpdates
    <3>2. caller' = [caller EXCEPT ![c] = [@ EXCEPT !.pc = "offered", !.input = offered']]
      BY <1>3, <2>1 DEF TypeOK, Offer
    <3>3. QED
      BY <3>1, <3>2 DEF TypeOK
  <2>5. input' \in [InputIds -> InputRecord]
    <3>1. input[offered'] \in InputRecord
      BY <2>1 DEF TypeOK
    <3>2. [input[offered'] EXCEPT !.kind = caller[c].op, !.fate = "queued",
                                  !.sub = caller[c].target] \in InputRecord
      BY <2>2, <2>3, <3>1, InputUpdates
    <3>3. QED
      BY <1>3, <2>1, <3>2 DEF TypeOK, Offer
  <2>6. queue' \in [Kinds -> Seq(InputIds)]
    BY <1>3, <2>1, <2>3 DEF TypeOK, Offer
  <2>7. UNCHANGED <<callerFrame, gate, interrupted>>
    BY <1>3 DEF Offer
  <2>8. QED
    BY <2>1, <2>4, <2>5, <2>6, <2>7, Typed
       DEF callerFrame, sessionVars, fiberVars, localVars, inputVars, outcomeVars
<1>4. CASE AnnounceQueued(c)
  <2>1. caller' \in [Callers -> CallRecord]
    <3>1. NoCall \in CallRecord /\ [caller[c] EXCEPT !.pc = "cleared"] \in CallRecord
      BY CallUpdates DEF TypeOK
    <3>2. QED
      BY <1>4, <3>1 DEF TypeOK, AnnounceQueued
  <2>2. input' \in [InputIds -> InputRecord]
    <3>1. \A i \in InputIds : [input[i] EXCEPT !.announced = TRUE] \in InputRecord
      BY InputUpdates DEF TypeOK
    <3>2. QED
      BY <1>4, <3>1 DEF TypeOK, AnnounceQueued
  <2>3. gate' \in Submissions \cup Callers \cup {None}
    BY <1>4 DEF AnnounceQueued
  <2>4. UNCHANGED <<callerFrame, queue, offered, interrupted>>
    BY <1>4 DEF AnnounceQueued
  <2>5. QED
    BY <2>1, <2>2, <2>3, <2>4, Typed
       DEF callerFrame, sessionVars, fiberVars, localVars, inputVars, outcomeVars
<1>5. CASE CallerLeaves(c)
  <2>1. caller' \in [Callers -> CallRecord]
    <3>1. NoCall \in CallRecord /\ [caller[c] EXCEPT !.pc = "cleared"] \in CallRecord
      BY CallUpdates DEF TypeOK
    <3>2. QED
      BY <1>5, <3>1 DEF TypeOK, CallerLeaves
  <2>2. input' \in [InputIds -> InputRecord]
    <3>1. \A i \in InputIds : [input[i] EXCEPT !.abandoned = TRUE] \in InputRecord
      BY InputUpdates DEF TypeOK
    <3>2. QED
      BY <1>5, <3>1 DEF TypeOK, CallerLeaves
  <2>3. gate' \in Submissions \cup Callers \cup {None}
    BY <1>5 DEF CallerLeaves
  <2>4. UNCHANGED <<callerFrame, queue, offered, interrupted>>
    BY <1>5 DEF CallerLeaves
  <2>5. QED
    BY <2>1, <2>2, <2>3, <2>4, Typed
       DEF callerFrame, sessionVars, fiberVars, localVars, inputVars, outcomeVars
<1>6. CASE Hit(c)
  <2>1. caller' \in [Callers -> CallRecord]
    <3>1. NoCall \in CallRecord /\ [caller[c] EXCEPT !.pc = "cleared"] \in CallRecord
      BY CallUpdates DEF TypeOK
    <3>2. QED
      BY <1>6, <3>1 DEF TypeOK, Hit
  <2>2. interrupted' \in [Submissions -> BOOLEAN]
    BY <1>6 DEF TypeOK, Hit, Interrupt
  <2>3. UNCHANGED <<callerFrame, inputVars, gate>>
    BY <1>6 DEF Hit
  <2>4. QED
    BY <2>1, <2>2, <2>3, Typed
       DEF callerFrame, sessionVars, fiberVars, localVars, inputVars, outcomeVars
<1>7. QED
  BY <1>1, <1>2, <1>3, <1>4, <1>5, <1>6 DEF CallerStep

\* The steps that are neither a fibre's nor a caller's.
OwnerStep == BeginClose \/ FinalizerInterrupts \/ FinalizerCloses

LEMMA TypeRest ==
    ASSUME TypeOK,
           \/ Claim \/ OwnerStep \/ UNCHANGED vars \/ \E s \in Submissions : Cancel(s)
    PROVE  TypeOK'
<1>1. CASE Claim
  <2>1. pc' \in [Submissions -> PCs]
    BY <1>1, ClaimOpensIdle, GotoType, Labels DEF TypeOK
  <2>2. accepting' \in [Kinds -> BOOLEAN]
    BY <1>1, ClaimOpensIdle
  <2>3. submissionCount' \in 0 .. MaxSubmissions
    BY <1>1, ClaimOpensIdle, SessionAssumption DEF Submissions
  <2>4. QED
    BY <1>1, <2>1, <2>2, <2>3, ClaimOpensIdle DEF TypeOK, sessionVars, fiberVars, localVars,
       inputVars, outcomeVars
<1>2. ASSUME NEW s \in Submissions, Cancel(s) PROVE TypeOK'
  <2>1. interrupted' \in [Submissions -> BOOLEAN]
    BY <1>2 DEF TypeOK, Cancel, Interrupt
  <2>2. UNCHANGED <<callerFrame, inputVars, gate, caller>>
    BY <1>2 DEF Cancel
  <2>3. QED
    BY <2>1, <2>2, Typed
       DEF callerFrame, sessionVars, fiberVars, localVars, inputVars, outcomeVars
<1>3. CASE BeginClose
  <2>1. owner' \in [pc : {"open", "closing", "awaiting", "closed"},
                     target : Submissions \cup {None}]
    BY <1>3 DEF TypeOK, BeginClose
  <2>2. UNCHANGED <<ownerFrame, status, interrupted>>
    BY <1>3 DEF BeginClose
  <2>3. QED
    BY <2>1, <2>2, Typed
       DEF ownerFrame, sessionVars, fiberVars, localVars, inputVars, outcomeVars
<1>4. CASE FinalizerInterrupts
  <2>1. interrupted' \in [Submissions -> BOOLEAN]
    BY <1>4 DEF TypeOK, FinalizerInterrupts, Interrupt
  <2>2. QED
    BY <1>4, <2>1 DEF TypeOK, FinalizerInterrupts, ownerFrame, sessionVars, fiberVars, localVars,
       inputVars, outcomeVars
<1>5. CASE FinalizerCloses
  <2>1. /\ owner' \in [pc : {"open", "closing", "awaiting", "closed"},
                        target : Submissions \cup {None}]
        /\ status' = "closed"
    BY <1>5 DEF TypeOK, FinalizerCloses
  <2>2. UNCHANGED <<ownerFrame, interrupted>>
    BY <1>5 DEF FinalizerCloses
  <2>3. QED
    BY <2>1, <2>2, Typed
       DEF ownerFrame, sessionVars, fiberVars, localVars, inputVars, outcomeVars
<1>6. CASE UNCHANGED vars
  BY <1>6, Typed DEF vars, sessionVars, fiberVars, localVars, inputVars, outcomeVars
<1>7. QED
  BY <1>1, <1>2, <1>3, <1>4, <1>5, <1>6 DEF OwnerStep

-----------------------------------------------------------------------------
(* One holder of the permit, one holder of the session *)

heldVars == <<gate, status, active, submissionCount, offered, caller>>

\* A fibre that moves on without touching the permit or the session.
LEMMA QuietMove ==
    ASSUME TypeOK, PermitHeld, SessionHeld, UNCHANGED heldVars,
           NEW s \in Submissions, pc[s] \in Owning,
           NEW label \in (Owning \ {"applying", "lateApplying"}) \cup {"done"},
           Goto(s, label)
    PROVE  PermitHeld' /\ SessionHeld'
<1>1. label \notin {"none", "applying", "lateApplying", "drop"}
  BY DEF Owning, Executing
<1>2. pc[s] # "none"
  BY DEF Owning, Executing
<1>3. \A t \in Submissions : pc'[t] = IF t = s THEN label ELSE pc[t]
  BY DEF TypeOK, Goto
<1>4. PermitHeld'
  BY <1>1, <1>3 DEF PermitHeld, heldVars
<1>5. SessionHeld'
  BY <1>1, <1>2, <1>3 DEF SessionHeld, heldVars
<1>6. QED
  BY <1>4, <1>5

LEMMA HeldFiber ==
    ASSUME TypeOK, PermitHeld, SessionHeld, NEW s \in Submissions, FiberStep(s)
    PROVE  PermitHeld' /\ SessionHeld'
<1>t. /\ pc \in [Submissions -> PCs]
      /\ gate \in Submissions \cup Callers \cup {None}
  BY DEF TypeOK
<1>1. CASE Register(s)
  <2>1. UNCHANGED heldVars /\ pc[s] \in Owning
    BY <1>1 DEF Register, At, Owning, Executing, sessionVars,
         fiberVars, localVars, inputVars, outcomeVars, heldVars
  <2>2. \E label \in (Owning \ {"applying", "lateApplying"}) \cup {"done"} : Goto(s, label)
    BY <1>1 DEF Register, Owning, Executing
  <2>3. QED
    BY <2>1, <2>2, QuietMove
<1>2. CASE Absorb(s)
  <2>1. UNCHANGED heldVars /\ pc[s] \in Owning
    BY <1>2 DEF Absorb, At, Owning, Executing, sessionVars,
         fiberVars, localVars, inputVars, outcomeVars, heldVars
  <2>2. \E label \in (Owning \ {"applying", "lateApplying"}) \cup {"done"} : Goto(s, label)
    BY <1>2 DEF Absorb, Owning, Executing
  <2>3. QED
    BY <2>1, <2>2, QuietMove
<1>3. CASE StartRun(s)
  <2>1. UNCHANGED heldVars /\ pc[s] \in Owning
    BY <1>3 DEF StartRun, At, Owning, Executing, sessionVars,
         fiberVars, localVars, inputVars, outcomeVars, heldVars
  <2>2. \E label \in (Owning \ {"applying", "lateApplying"}) \cup {"done"} : Goto(s, label)
    BY <1>3 DEF StartRun, Owning, Executing
  <2>3. QED
    BY <2>1, <2>2, QuietMove
<1>4. CASE CommitTurn(s)
  <2>1. UNCHANGED heldVars /\ pc[s] \in Owning
    BY <1>4 DEF CommitTurn, At, Owning, Executing, sessionVars,
         fiberVars, localVars, inputVars, outcomeVars, heldVars
  <2>2. \E label \in (Owning \ {"applying", "lateApplying"}) \cup {"done"} : Goto(s, label)
    BY <1>4 DEF CommitTurn, Owning, Executing
  <2>3. QED
    BY <2>1, <2>2, QuietMove
<1>5. CASE Tally(s)
  <2>1. UNCHANGED heldVars /\ pc[s] \in Owning
    BY <1>5 DEF Tally, At, Owning, Executing, sessionVars,
         fiberVars, localVars, inputVars, outcomeVars, heldVars
  <2>2. \E label \in (Owning \ {"applying", "lateApplying"}) \cup {"done"} : Goto(s, label)
    BY <1>5 DEF Tally, Owning, Executing
  <2>3. QED
    BY <2>1, <2>2, QuietMove
<1>6. CASE Continue(s)
  <2>1. UNCHANGED heldVars /\ pc[s] \in Owning
    BY <1>6 DEF Continue, At, Owning, Executing, sessionVars,
         fiberVars, localVars, inputVars, outcomeVars, heldVars
  <2>2. \E label \in (Owning \ {"applying", "lateApplying"}) \cup {"done"} : Goto(s, label)
    BY <1>6 DEF Continue, Owning, Executing
  <2>3. QED
    BY <2>1, <2>2, QuietMove
<1>7. CASE Stop(s)
  <2>1. UNCHANGED heldVars /\ pc[s] \in Owning
    BY <1>7 DEF Stop, At, Owning, Executing, sessionVars,
         fiberVars, localVars, inputVars, outcomeVars, heldVars
  <2>2. \E label \in (Owning \ {"applying", "lateApplying"}) \cup {"done"} : Goto(s, label)
    BY <1>7 DEF Stop, Owning, Executing
  <2>3. QED
    BY <2>1, <2>2, QuietMove
<1>8. CASE EndRun(s)
  <2>1. UNCHANGED heldVars /\ pc[s] \in Owning
    BY <1>8 DEF EndRun, TakeFollowUps, At, Owning, Executing, sessionVars,
         fiberVars, localVars, inputVars, outcomeVars, heldVars
  <2>2. \E label \in (Owning \ {"applying", "lateApplying"}) \cup {"done"} : Goto(s, label)
    BY <1>8 DEF EndRun, TakeFollowUps, Owning, Executing
  <2>3. QED
    BY <2>1, <2>2, QuietMove
<1>9. CASE CloseInput(s)
  <2>1. UNCHANGED heldVars /\ pc[s] \in Owning
    BY <1>9 DEF CloseInput, At, Owning, Executing, sessionVars,
         fiberVars, localVars, inputVars, outcomeVars, heldVars
  <2>2. \E label \in (Owning \ {"applying", "lateApplying"}) \cup {"done"} : Goto(s, label)
    BY <1>9 DEF CloseInput, Owning, Executing
  <2>3. QED
    BY <2>1, <2>2, QuietMove
<1>10. CASE CloseDrain(s)
  <2>1. UNCHANGED heldVars /\ pc[s] \in Owning
    BY <1>10 DEF CloseDrain, TakeFollowUps, At, Owning, Executing, sessionVars,
         fiberVars, localVars, inputVars, outcomeVars, heldVars
  <2>2. \E label \in (Owning \ {"applying", "lateApplying"}) \cup {"done"} : Goto(s, label)
    BY <1>10 DEF CloseDrain, TakeFollowUps, Owning, Executing
  <2>3. QED
    BY <2>1, <2>2, QuietMove
<1>11. CASE NextRun(s)
  <2>1. UNCHANGED heldVars /\ pc[s] \in Owning
    BY <1>11 DEF NextRun, At, Owning, Executing, sessionVars,
         fiberVars, localVars, inputVars, outcomeVars, heldVars
  <2>2. \E label \in (Owning \ {"applying", "lateApplying"}) \cup {"done"} : Goto(s, label)
    BY <1>11 DEF NextRun, Owning, Executing
  <2>3. QED
    BY <2>1, <2>2, QuietMove
<1>12. CASE Complete(s)
  <2>1. UNCHANGED heldVars /\ pc[s] \in Owning
    BY <1>12 DEF Complete, At, Owning, Executing, sessionVars,
         fiberVars, localVars, inputVars, outcomeVars, heldVars
  <2>2. \E label \in (Owning \ {"applying", "lateApplying"}) \cup {"done"} : Goto(s, label)
    BY <1>12 DEF Complete, Owning, Executing
  <2>3. QED
    BY <2>1, <2>2, QuietMove
<1>13. CASE Break(s)
  <2>1. UNCHANGED heldVars /\ pc[s] \in Owning
    BY <1>13 DEF Break, At, Owning, Executing, sessionVars,
         fiberVars, localVars, inputVars, outcomeVars, heldVars
  <2>2. \E label \in (Owning \ {"applying", "lateApplying"}) \cup {"done"} : Goto(s, label)
    BY <1>13 DEF Break, Owning, Executing
  <2>3. QED
    BY <2>1, <2>2, QuietMove
<1>14. CASE Fail(s)
  <2>1. UNCHANGED heldVars /\ pc[s] \in Owning
    BY <1>14 DEF Fail, Exit, At, Owning, Executing, sessionVars,
         fiberVars, localVars, inputVars, outcomeVars, heldVars
  <2>2. \E label \in (Owning \ {"applying", "lateApplying"}) \cup {"done"} : Goto(s, label)
    BY <1>14 DEF Fail, Exit, Owning, Executing
  <2>3. QED
    BY <2>1, <2>2, QuietMove
<1>15. CASE Finish(s)
  <2>1. UNCHANGED heldVars /\ pc[s] \in Owning
    BY <1>15 DEF Finish, Exit, At, Owning, Executing, sessionVars,
         fiberVars, localVars, inputVars, outcomeVars, heldVars
  <2>2. \E label \in (Owning \ {"applying", "lateApplying"}) \cup {"done"} : Goto(s, label)
    BY <1>15 DEF Finish, Exit, Owning, Executing
  <2>3. QED
    BY <2>1, <2>2, QuietMove
<1>16. CASE Settle(s)
  <2>1. UNCHANGED heldVars /\ pc[s] \in Owning
    BY <1>16 DEF Settle, At, Owning, Executing, sessionVars,
         fiberVars, localVars, inputVars, outcomeVars, heldVars
  <2>2. \E label \in (Owning \ {"applying", "lateApplying"}) \cup {"done"} : Goto(s, label)
    BY <1>16 DEF Settle, Owning, Executing
  <2>3. QED
    BY <2>1, <2>2, QuietMove
<1>17. CASE ClearActive(s)
  <2>1. UNCHANGED heldVars /\ pc[s] \in Owning
    BY <1>17 DEF ClearActive, At, Owning, Executing, sessionVars,
         fiberVars, localVars, inputVars, outcomeVars, heldVars
  <2>2. \E label \in (Owning \ {"applying", "lateApplying"}) \cup {"done"} : Goto(s, label)
    BY <1>17 DEF ClearActive, Owning, Executing
  <2>3. QED
    BY <2>1, <2>2, QuietMove
<1>18. CASE Boundary(s)
  <2>1. CASE queue["steer"] = <<>>
    <3>1. UNCHANGED heldVars /\ pc[s] \in Owning
      BY <1>18, <2>1 DEF Boundary, TakeSteering, At, Owning, Executing, sessionVars,
         fiberVars, localVars, inputVars, outcomeVars, heldVars
    <3>2. Goto(s, "turn")
      BY <1>18, <2>1 DEF Boundary, TakeSteering
    <3>3. QED
      BY <3>1, <3>2, QuietMove DEF Owning, Executing
  <2>2. CASE queue["steer"] # <<>>
    <3>1. /\ gate = None /\ gate' = s /\ pc[s] \in Owning
          /\ pc' = [pc EXCEPT ![s] = "applying"]
          /\ UNCHANGED <<status, active, submissionCount, offered, caller>>
      BY <1>18, <2>2 DEF Boundary, TakeSteering, At, Goto, GateFree, Owning, Executing, sessionVars,
         fiberVars, localVars, inputVars, outcomeVars
    <3>2. PermitHeld'
      BY <3>1, <1>t, Labels DEF PermitHeld
    <3>3. SessionHeld'
      BY <3>1, <1>t DEF SessionHeld, Owning, Executing
    <3>4. QED
      BY <3>2, <3>3
  <2>3. QED
    BY <2>1, <2>2
<1>19. CASE LateDrain(s)
  <2>1. CASE queue["steer"] = <<>>
    <3>1. UNCHANGED heldVars /\ pc[s] \in Owning
      BY <1>19, <2>1 DEF LateDrain, TakeSteering, At, Owning, Executing, sessionVars,
         fiberVars, localVars, inputVars, outcomeVars, heldVars
    <3>2. Goto(s, "runEnd")
      BY <1>19, <2>1 DEF LateDrain, TakeSteering
    <3>3. QED
      BY <3>1, <3>2, QuietMove DEF Owning, Executing
  <2>2. CASE queue["steer"] # <<>>
    <3>1. /\ gate = None /\ gate' = s /\ pc[s] \in Owning
          /\ pc' = [pc EXCEPT ![s] = "lateApplying"]
          /\ UNCHANGED <<status, active, submissionCount, offered, caller>>
      BY <1>19, <2>2 DEF LateDrain, TakeSteering, At, Goto, GateFree, Owning, Executing, sessionVars,
         fiberVars, localVars, inputVars, outcomeVars
    <3>2. PermitHeld'
      BY <3>1, <1>t, Labels DEF PermitHeld
    <3>3. SessionHeld'
      BY <3>1, <1>t DEF SessionHeld, Owning, Executing
    <3>4. QED
      BY <3>2, <3>3
  <2>3. QED
    BY <2>1, <2>2
<1>20. CASE ApplySteering(s)
  <2>1. /\ gate' = None /\ pc[s] \in {"applying", "lateApplying"}
        /\ pc' \in {[pc EXCEPT ![s] = "turn"], [pc EXCEPT ![s] = "runEnd"]}
        /\ UNCHANGED <<status, active, submissionCount, offered, caller>>
    BY <1>20 DEF ApplySteering, At, Goto, sessionVars,
         fiberVars, localVars, inputVars, outcomeVars
  <2>2. gate = s
    BY <2>1 DEF PermitHeld
  <2>3. PermitHeld'
    BY <2>1, <2>2, <1>t, Labels DEF PermitHeld
  <2>4. SessionHeld'
    BY <2>1, <1>t DEF SessionHeld, Owning, Executing
  <2>5. QED
    BY <2>3, <2>4
<1>21. CASE Unwind(s)
  <2>1. /\ gate' = IF gate = s THEN None ELSE gate
        /\ pc[s] \in Executing /\ pc' = [pc EXCEPT ![s] = "settle"]
        /\ UNCHANGED <<status, active, submissionCount, offered, caller>>
    BY <1>21 DEF Unwind, Exit, Goto, sessionVars,
         fiberVars, localVars, inputVars, outcomeVars
  <2>2. PermitHeld'
    BY <2>1, <1>t, Labels DEF PermitHeld
  <2>3. SessionHeld'
    BY <2>1, <1>t DEF SessionHeld, Owning, Executing
  <2>4. QED
    BY <2>2, <2>3
<1>22. CASE Withdraw(s)
  <2>1. /\ gate = None /\ gate' = s /\ active' = None
        /\ status' = IF status = "closed" THEN "closed" ELSE "idle"
        /\ pc[s] = "withdraw" /\ pc' = [pc EXCEPT ![s] = "drop"]
        /\ UNCHANGED <<submissionCount, offered, caller>>
    BY <1>22 DEF Withdraw, Goto, GateFree, sessionVars,
         fiberVars, localVars, inputVars, outcomeVars
  <2>2. PermitHeld'
    BY <2>1, <1>t, Labels DEF PermitHeld
  <2>3. \A c \in Callers : caller[c].pc # "cleared"
    BY <2>1, Labels DEF PermitHeld
  <2>4. \A t \in Submissions : pc[t] \in Owning => t = s
    BY <2>1 DEF SessionHeld, Owning
  <2>5. SessionHeld'
    BY <2>1, <2>3, <2>4, <1>t DEF SessionHeld, Owning, Executing
  <2>6. QED
    BY <2>2, <2>5
<1>23. CASE DropLeftovers(s)
  <2>1. /\ gate' = None /\ pc[s] = "drop" /\ pc' = [pc EXCEPT ![s] = "done"]
        /\ UNCHANGED <<status, active, submissionCount, offered, caller>>
    BY <1>23 DEF DropLeftovers, Goto, sessionVars,
         fiberVars, localVars, inputVars, outcomeVars
  <2>2. gate = s
    BY <2>1 DEF PermitHeld
  <2>3. PermitHeld'
    BY <2>1, <2>2, <1>t, Labels DEF PermitHeld
  <2>4. SessionHeld'
    BY <2>1, <1>t DEF SessionHeld, Owning, Executing
  <2>5. QED
    BY <2>3, <2>4
<1>24. QED
  BY <1>1, <1>2, <1>3, <1>4, <1>5, <1>6, <1>7, <1>8, <1>9, <1>10, <1>11, <1>12, <1>13, <1>14, <1>15, <1>16, <1>17, <1>18, <1>19, <1>20, <1>21, <1>22, <1>23 DEF FiberStep

LEMMA NoCallIdle == NoCall.pc = "idle"
BY DEF NoCall

LEMMA HeldCaller ==
    ASSUME TypeOK, PermitHeld, SessionHeld, NEW c \in Callers,
           CallerStep(c) \/ CallerLeaves(c) \/ \E op \in Kinds \cup {"interrupt"} : Ask(c, op)
    PROVE  PermitHeld' /\ SessionHeld'
<1>t. /\ caller \in [Callers -> CallRecord] /\ offered \in 0 .. MaxInputs
      /\ gate \in Submissions \cup Callers \cup {None}
  BY DEF TypeOK
<1>f. UNCHANGED <<status, active, submissionCount, pc>>
  BY DEF CallerStep, Ask, Enter, Offer, AnnounceQueued, CallerLeaves, Hit, callerFrame,
         sessionVars
<1>1. ASSUME NEW op \in Kinds \cup {"interrupt"}, Ask(c, op)
      PROVE  PermitHeld' /\ SessionHeld'
  <2>1. /\ UNCHANGED <<gate, offered>>
        /\ caller' = [caller EXCEPT ![c] = caller'[c]] /\ caller'[c].pc = "validated"
    BY <1>1, <1>t, NoCallIdle DEF Ask, inputVars, NoCall
  <2>2. QED
    BY <2>1, <1>t, NoCallIdle, <1>f DEF PermitHeld, SessionHeld
<1>2. CASE Enter(c)
  <2>1. CASE stillActive(c) /\ accepting[caller[c].op] /\ offered < MaxInputs
    <3>1. /\ gate = None /\ gate' = c /\ UNCHANGED offered
          /\ caller' = [caller EXCEPT ![c].pc = "cleared"]
          /\ caller[c].op \in Kinds /\ status = "running" /\ active = caller[c].target
      BY <1>2, <2>1 DEF Enter, GateFree, stillActive, inputVars
    <3>2. PermitHeld'
      BY <3>1, <1>t, NoCallIdle, <1>f, Labels DEF PermitHeld
    <3>3. \A d \in Callers : d # c => caller'[d].pc # "cleared"
      BY <3>1, <1>t, NoCallIdle, Labels DEF PermitHeld
    <3>4. caller'[c].op = caller[c].op /\ caller'[c].target = caller[c].target
      BY <3>1, <1>t, NoCallIdle DEF CallRecord
    <3>5. SessionHeld'
      BY <2>1, <3>1, <3>3, <3>4, <1>t, NoCallIdle, <1>f DEF SessionHeld
    <3>6. QED
      BY <3>2, <3>5
  <2>2. CASE ~(stillActive(c) /\ accepting[caller[c].op] /\ offered < MaxInputs)
    <3>1. UNCHANGED <<gate, offered>> /\ caller' = [caller EXCEPT ![c] = NoCall]
      BY <1>2, <2>2 DEF Enter, inputVars
    <3>2. QED
      BY <3>1, <1>t, NoCallIdle, <1>f DEF PermitHeld, SessionHeld
  <2>3. QED
    BY <2>1, <2>2
<1>3. CASE Offer(c)
  <2>1. /\ UNCHANGED gate /\ caller[c].pc = "cleared" /\ caller' = [caller EXCEPT ![c] = caller'[c]]
        /\ caller'[c].pc = "offered"
    BY <1>3, <1>t, NoCallIdle DEF Offer, CallRecord
  <2>2. gate = c
    BY <2>1 DEF PermitHeld
  <2>3. PermitHeld'
    BY <2>1, <2>2, <1>t, NoCallIdle, <1>f DEF PermitHeld
  <2>4. \A d \in Callers : caller'[d].pc # "cleared"
    BY <2>1, <2>2, <1>t, NoCallIdle DEF PermitHeld
  <2>5. SessionHeld'
    BY <2>4, <1>f DEF SessionHeld
  <2>6. QED
    BY <2>3, <2>5
<1>4. CASE AnnounceQueued(c) \/ CallerLeaves(c)
  <2>1. /\ gate' = None /\ UNCHANGED offered /\ caller' = [caller EXCEPT ![c] = NoCall]
        /\ caller[c].pc \in {"cleared", "offered"}
    BY <1>4 DEF AnnounceQueued, CallerLeaves
  <2>2. gate = c
    BY <2>1 DEF PermitHeld
  <2>3. PermitHeld'
    BY <2>1, <2>2, <1>t, NoCallIdle, <1>f, Labels DEF PermitHeld
  <2>4. SessionHeld'
    BY <2>1, <1>t, NoCallIdle, <1>f DEF SessionHeld
  <2>5. QED
    BY <2>3, <2>4
<1>5. CASE Hit(c)
  <2>1. UNCHANGED <<gate, offered>> /\ caller' = [caller EXCEPT ![c] = NoCall]
    BY <1>5 DEF Hit, inputVars
  <2>2. QED
    BY <2>1, <1>t, NoCallIdle, <1>f DEF PermitHeld, SessionHeld
<1>6. QED
  BY <1>1, <1>2, <1>3, <1>4, <1>5 DEF CallerStep

LEMMA HeldRest ==
    ASSUME TypeOK, PermitHeld, SessionHeld,
           \/ Claim \/ OwnerStep \/ UNCHANGED vars \/ \E s \in Submissions : Cancel(s)
    PROVE  PermitHeld' /\ SessionHeld'
<1>1. CASE Claim
  <2> DEFINE s == submissionCount'
  <2>1. /\ status = "idle" /\ status' = "running" /\ s \in Submissions
        /\ s = submissionCount + 1 /\ active' = s /\ pc' = [pc EXCEPT ![s] = "claimed"]
        /\ UNCHANGED <<gate, caller, offered>>
    BY <1>1, ClaimOpensIdle DEF Goto, inputVars
  <2>2. pc[s] = "none" /\ pc \in [Submissions -> PCs] /\ submissionCount \in Nat
    BY <2>1 DEF SessionHeld, TypeOK
  <2>3. PermitHeld'
    BY <2>1, <2>2 DEF PermitHeld
  <2>4. SessionHeld'
    <3>1. \A t \in Submissions : pc'[t] \in Owning => t = s
      BY <2>1, <2>2 DEF SessionHeld
    <3>2. \A t \in Submissions : t > s => pc'[t] = "none"
      BY <2>1, <2>2, Labels DEF SessionHeld
    <3>3. \A c \in Callers : caller[c].pc # "cleared"
      BY <2>1 DEF SessionHeld
    <3>4. s # None
      BY <2>1, Labels
    <3>5. QED
      BY <2>1, <3>1, <3>2, <3>3, <3>4 DEF SessionHeld
  <2>5. QED
    BY <2>3, <2>4
<1>2. CASE FinalizerCloses
  <2>1. status' = "closed" /\ UNCHANGED <<pc, gate, active, submissionCount, offered, caller>>
    BY <1>2 DEF FinalizerCloses, ownerFrame, inputVars
  <2>2. QED
    BY <2>1 DEF PermitHeld, SessionHeld
<1>3. CASE BeginClose \/ FinalizerInterrupts \/ UNCHANGED vars \/ \E s \in Submissions : Cancel(s)
  <2>1. UNCHANGED <<pc, heldVars>>
    BY <1>3 DEF BeginClose, FinalizerInterrupts, Cancel, callerFrame, ownerFrame, vars,
                sessionVars, inputVars, heldVars
  <2>2. QED
    BY <2>1 DEF PermitHeld, SessionHeld, heldVars
<1>4. QED
  BY <1>1, <1>2, <1>3 DEF OwnerStep

-----------------------------------------------------------------------------
(* Custody of the inputs *)

custodyVars == <<queue, input, offered, pending, batch, next>>

LEMMA TakenKeeps ==
    ASSUME input \in [InputIds -> InputRecord], NEW q, NEW s, NEW fate, NEW i \in InputIds
    PROVE  /\ Taken(q, s, fate)[i].sub = input[i].sub
           /\ Taken(q, s, fate)[i].by = IF i \in Range(q) THEN s ELSE input[i].by
BY DEF Taken, InputRecord

\* What is in a channel or in a fibre's locals is an input.
LEMMA HeldInputs ==
    ASSUME TypeOK
    PROVE  /\ \A k \in Kinds : Range(queue[k]) \subseteq InputIds
           /\ \A s \in Submissions : /\ Range(pending[s]) \subseteq InputIds
                                     /\ Range(batch[s]) \subseteq InputIds
<1>1. /\ \A k \in Kinds : queue[k] \in Seq(InputIds)
      /\ \A s \in Submissions : pending[s] \in Seq(InputIds) /\ batch[s] \in Seq(InputIds)
  BY DEF TypeOK
<1>2. QED
  BY <1>1, RangeFacts

\* A fibre that owns the session moves: it re-labels inputs that are its own as
\* its own, empties channels, and keeps in its locals only what was its own.
LEMMA CustodyMove ==
    ASSUME TypeOK, SessionHeld, Custody, InputsStayWithTheirSubmission,
           NEW s \in Submissions, pc[s] \in Owning,
           NEW label \in Owning \cup {"done"}, Goto(s, label),
           UNCHANGED <<status, active, offered>>,
           \A i \in InputIds :
              /\ input'[i].sub = input[i].sub
              /\ input'[i].by # input[i].by => input'[i].by = s /\ input[i].sub = s,
           \A k \in Kinds : queue'[k] \in {queue[k], <<>>},
           \A t \in Submissions :
              /\ Range(pending'[t]) \subseteq InputIds /\ Range(batch'[t]) \subseteq InputIds
              /\ \A i \in Range(pending'[t]) \cup Range(batch'[t]) : input[i].sub = t
              /\ next'[t] \in InputIds => input[next'[t]].sub = t
    PROVE  Custody' /\ InputsStayWithTheirSubmission'
<1>1. /\ \A t \in Submissions : pc'[t] = "drop" <=> pc[t] = "drop"
      /\ NoneDropping' <=> NoneDropping
  <2>1. pc \in [Submissions -> PCs] /\ pc[s] # "drop" /\ label # "drop"
    BY DEF TypeOK, Owning, Executing
  <2>2. \A t \in Submissions : pc'[t] = IF t = s THEN label ELSE pc[t]
    BY <2>1 DEF Goto
  <2>3. QED
    BY <2>1, <2>2 DEF NoneDropping
<1>2. \A k \in Kinds : \A i \in Range(queue'[k]) : i \in Range(queue[k]) /\ i \in InputIds
  BY HeldInputs DEF Range
<1>3. \A k \in Kinds : /\ \A i \in Range(queue'[k]) : input'[i].sub # None
                       /\ NoneDropping' => Addressed(queue[k], active)
                       /\ NoneDropping' /\ status' = "idle" => queue'[k] = <<>>
  BY <1>1, <1>2 DEF Custody
<1>4. \A k \in Kinds : NoneDropping' => \A i \in Range(queue'[k]) : input'[i].sub = active'
  BY <1>2, <1>3 DEF Addressed
<1>5. \A t \in Submissions : pc'[t] = "drop" =>
         \A k \in Kinds : \A i \in Range(queue'[k]) : input'[i].sub = t
  BY <1>1, <1>2 DEF Custody, Addressed
<1>6. \A i \in InputIds : i > offered' => input'[i].sub = None /\ input'[i].by = None
  BY Labels DEF Custody
<1>7. Custody'
  BY <1>3, <1>4, <1>5, <1>6 DEF Custody, Addressed
<1>8. InputsStayWithTheirSubmission'
  BY DEF InputsStayWithTheirSubmission
<1>9. QED
  BY <1>7, <1>8

\* While the permit is free nothing is being dropped, so what the channels hold
\* is addressed to the submission that owns the session.
LEMMA FreeMeansOwn ==
    ASSUME PermitHeld, SessionHeld, Custody, gate = None, NEW s \in Submissions, pc[s] \in Owning
    PROVE  NoneDropping /\ \A k \in Kinds : \A i \in Range(queue[k]) : input[i].sub = s
<1>1. NoneDropping
  BY Labels DEF NoneDropping, PermitHeld
<1>2. active = s
  BY DEF SessionHeld
<1>3. QED
  BY <1>1, <1>2 DEF Custody, Addressed

\* What a fibre holds, before it moves.
LEMMA OwnLocals ==
    ASSUME TypeOK, Custody, NEW t \in Submissions
    PROVE  /\ Range(pending[t]) \subseteq InputIds /\ Range(batch[t]) \subseteq InputIds
           /\ \A i \in Range(pending[t]) \cup Range(batch[t]) : input[i].sub = t
           /\ next[t] \in InputIds => input[next[t]].sub = t
           /\ Range(<<>>) = {}
BY HeldInputs DEF Custody, Addressed, Range

\* A fibre that takes the inputs of q, all its own, off a channel or a local.
LEMMA TakenOwn ==
    ASSUME TypeOK, NEW q, NEW s \in Submissions, NEW fate, input' = Taken(q, s, fate),
           \A i \in Range(q) : input[i].sub = s
    PROVE  \A i \in InputIds :
              /\ input'[i].sub = input[i].sub
              /\ input'[i].by # input[i].by => input'[i].by = s /\ input[i].sub = s
<1>1. input \in [InputIds -> InputRecord]
  BY DEF TypeOK
<1>2. ASSUME NEW i \in InputIds
      PROVE  /\ input'[i].sub = input[i].sub
             /\ input'[i].by # input[i].by => input'[i].by = s /\ input[i].sub = s
  BY <1>1, TakenKeeps
<1>3. QED
  BY <1>2

LEMMA CustodyFiber ==
    ASSUME TypeOK, PermitHeld, SessionHeld, Custody, InputsStayWithTheirSubmission,
           NEW s \in Submissions, FiberStep(s)
    PROVE  Custody' /\ InputsStayWithTheirSubmission'
<1>t. /\ pc \in [Submissions -> PCs] /\ pending \in [Submissions -> Seq(InputIds)]
      /\ batch \in [Submissions -> Seq(InputIds)] /\ queue \in [Kinds -> Seq(InputIds)]
      /\ next \in [Submissions -> InputIds \cup {None, Prompt}]
  BY DEF TypeOK
<1>1. CASE StartRun(s)
  <2>1. /\ UNCHANGED <<status, active>> /\ UNCHANGED custodyVars
        /\ pc[s] \in Owning
    BY <1>1 DEF StartRun, At, Owning, Executing, custodyVars, sessionVars,
         fiberVars, localVars, inputVars, outcomeVars
  <2>2. \E label \in Owning \cup {"done"} : Goto(s, label)
    BY <1>1 DEF StartRun, Owning, Executing
  <2>3. QED
    BY <2>1, <2>2, OwnLocals, CustodyMove DEF custodyVars
<1>2. CASE CommitTurn(s)
  <2>1. /\ UNCHANGED <<status, active>> /\ UNCHANGED custodyVars
        /\ pc[s] \in Owning
    BY <1>2 DEF CommitTurn, At, Owning, Executing, custodyVars, sessionVars,
         fiberVars, localVars, inputVars, outcomeVars
  <2>2. \E label \in Owning \cup {"done"} : Goto(s, label)
    BY <1>2 DEF CommitTurn, Owning, Executing
  <2>3. QED
    BY <2>1, <2>2, OwnLocals, CustodyMove DEF custodyVars
<1>3. CASE Tally(s)
  <2>1. /\ UNCHANGED <<status, active>> /\ UNCHANGED custodyVars
        /\ pc[s] \in Owning
    BY <1>3 DEF Tally, At, Owning, Executing, custodyVars, sessionVars,
         fiberVars, localVars, inputVars, outcomeVars
  <2>2. \E label \in Owning \cup {"done"} : Goto(s, label)
    BY <1>3 DEF Tally, Owning, Executing
  <2>3. QED
    BY <2>1, <2>2, OwnLocals, CustodyMove DEF custodyVars
<1>4. CASE Continue(s)
  <2>1. /\ UNCHANGED <<status, active>> /\ UNCHANGED custodyVars
        /\ pc[s] \in Owning
    BY <1>4 DEF Continue, At, Owning, Executing, custodyVars, sessionVars,
         fiberVars, localVars, inputVars, outcomeVars
  <2>2. \E label \in Owning \cup {"done"} : Goto(s, label)
    BY <1>4 DEF Continue, Owning, Executing
  <2>3. QED
    BY <2>1, <2>2, OwnLocals, CustodyMove DEF custodyVars
<1>5. CASE Stop(s)
  <2>1. /\ UNCHANGED <<status, active>> /\ UNCHANGED custodyVars
        /\ pc[s] \in Owning
    BY <1>5 DEF Stop, At, Owning, Executing, custodyVars, sessionVars,
         fiberVars, localVars, inputVars, outcomeVars
  <2>2. \E label \in Owning \cup {"done"} : Goto(s, label)
    BY <1>5 DEF Stop, Owning, Executing
  <2>3. QED
    BY <2>1, <2>2, OwnLocals, CustodyMove DEF custodyVars
<1>6. CASE CloseInput(s)
  <2>1. /\ UNCHANGED <<status, active>> /\ UNCHANGED custodyVars
        /\ pc[s] \in Owning
    BY <1>6 DEF CloseInput, At, Owning, Executing, custodyVars, sessionVars,
         fiberVars, localVars, inputVars, outcomeVars
  <2>2. \E label \in Owning \cup {"done"} : Goto(s, label)
    BY <1>6 DEF CloseInput, Owning, Executing
  <2>3. QED
    BY <2>1, <2>2, OwnLocals, CustodyMove DEF custodyVars
<1>7. CASE Complete(s)
  <2>1. /\ UNCHANGED <<status, active>> /\ UNCHANGED custodyVars
        /\ pc[s] \in Owning
    BY <1>7 DEF Complete, At, Owning, Executing, custodyVars, sessionVars,
         fiberVars, localVars, inputVars, outcomeVars
  <2>2. \E label \in Owning \cup {"done"} : Goto(s, label)
    BY <1>7 DEF Complete, Owning, Executing
  <2>3. QED
    BY <2>1, <2>2, OwnLocals, CustodyMove DEF custodyVars
<1>8. CASE Break(s)
  <2>1. /\ UNCHANGED <<status, active>> /\ UNCHANGED custodyVars
        /\ pc[s] \in Owning
    BY <1>8 DEF Break, At, Owning, Executing, custodyVars, sessionVars,
         fiberVars, localVars, inputVars, outcomeVars
  <2>2. \E label \in Owning \cup {"done"} : Goto(s, label)
    BY <1>8 DEF Break, Owning, Executing
  <2>3. QED
    BY <2>1, <2>2, OwnLocals, CustodyMove DEF custodyVars
<1>9. CASE Settle(s)
  <2>1. /\ UNCHANGED <<status, active>> /\ UNCHANGED custodyVars
        /\ pc[s] \in Owning
    BY <1>9 DEF Settle, At, Owning, Executing, custodyVars, sessionVars,
         fiberVars, localVars, inputVars, outcomeVars
  <2>2. \E label \in Owning \cup {"done"} : Goto(s, label)
    BY <1>9 DEF Settle, Owning, Executing
  <2>3. QED
    BY <2>1, <2>2, OwnLocals, CustodyMove DEF custodyVars
<1>10. CASE ClearActive(s)
  <2>1. /\ UNCHANGED <<status, active>> /\ UNCHANGED custodyVars
        /\ pc[s] \in Owning
    BY <1>10 DEF ClearActive, At, Owning, Executing, custodyVars, sessionVars,
         fiberVars, localVars, inputVars, outcomeVars
  <2>2. \E label \in Owning \cup {"done"} : Goto(s, label)
    BY <1>10 DEF ClearActive, Owning, Executing
  <2>3. QED
    BY <2>1, <2>2, OwnLocals, CustodyMove DEF custodyVars
<1>11. CASE Register(s)
  <2>1. /\ UNCHANGED <<status, active>> /\ UNCHANGED <<queue, input, offered, pending, batch>>
        /\ next' = [next EXCEPT ![s] = Prompt]
        /\ pc[s] \in Owning
    BY <1>11 DEF Register, At, Owning, Executing, custodyVars, sessionVars,
         fiberVars, localVars, inputVars, outcomeVars
  <2>2. \E label \in Owning \cup {"done"} : Goto(s, label)
    BY <1>11 DEF Register, Owning, Executing
  <2>3. QED
    BY <2>1, <2>2, <1>t, Labels, OwnLocals, CustodyMove DEF custodyVars
<1>12. CASE Fail(s)
  <2>1. /\ UNCHANGED <<status, active, queue, input, offered>> /\ pc[s] \in Owning
        /\ next' = [next EXCEPT ![s] = None] /\ pending' = [pending EXCEPT ![s] = <<>>]
        /\ batch' = [batch EXCEPT ![s] = <<>>] /\ Goto(s, "settle")
    BY <1>12 DEF Fail, Exit, At, Owning, Executing, sessionVars,
         fiberVars, localVars, inputVars, outcomeVars
  <2>2. "settle" \in Owning
    BY DEF Owning
  <2>3. QED
    BY <2>1, <2>2, <1>t, Labels, OwnLocals, CustodyMove
<1>13. CASE Finish(s)
  <2>1. /\ UNCHANGED <<status, active, queue, input, offered>> /\ pc[s] \in Owning
        /\ next' = [next EXCEPT ![s] = None] /\ pending' = [pending EXCEPT ![s] = <<>>]
        /\ batch' = [batch EXCEPT ![s] = <<>>] /\ Goto(s, "settle")
    BY <1>13 DEF Finish, Exit, At, Owning, Executing, sessionVars,
         fiberVars, localVars, inputVars, outcomeVars
  <2>2. "settle" \in Owning
    BY DEF Owning
  <2>3. QED
    BY <2>1, <2>2, <1>t, Labels, OwnLocals, CustodyMove
<1>14. CASE Unwind(s)
  <2>1. /\ UNCHANGED <<status, active, queue, input, offered>> /\ pc[s] \in Owning
        /\ next' = [next EXCEPT ![s] = None] /\ pending' = [pending EXCEPT ![s] = <<>>]
        /\ batch' = [batch EXCEPT ![s] = <<>>] /\ Goto(s, "settle")
    BY <1>14 DEF Unwind, Exit, At, Owning, Executing, sessionVars,
         fiberVars, localVars, inputVars, outcomeVars
  <2>2. "settle" \in Owning
    BY DEF Owning
  <2>3. QED
    BY <2>1, <2>2, <1>t, Labels, OwnLocals, CustodyMove
<1>15. CASE NextRun(s)
  <2>1. /\ UNCHANGED <<status, active, queue, input, offered, batch>> /\ pc[s] \in Owning
        /\ Goto(s, "iterate")
        /\ \/ UNCHANGED <<next, pending>>
           \/ /\ pending[s] # <<>>
              /\ next' = [next EXCEPT ![s] = Head(pending[s])]
              /\ pending' = [pending EXCEPT ![s] = Tail(pending[s])]
    BY <1>15 DEF NextRun, At, Owning, Executing, sessionVars,
         fiberVars, localVars, inputVars, outcomeVars
  <2>2. pending[s] # <<>> => /\ Head(pending[s]) \in Range(pending[s])
                            /\ Range(Tail(pending[s])) \subseteq Range(pending[s])
    BY <1>t, RangeFacts
  <2>3. \A u \in Submissions :
           /\ Range(pending'[u]) \subseteq Range(pending[u]) /\ batch'[u] = batch[u]
           /\ next'[u] # next[u] => next'[u] \in Range(pending[u])
    BY <2>1, <2>2, <1>t
  <2>4. "iterate" \in Owning
    BY DEF Owning, Executing
  <2>5. QED
    BY <2>1, <2>3, <2>4, OwnLocals, CustodyMove
<1>16. CASE Absorb(s)
  <2> DEFINE q == IF next[s] \in InputIds THEN <<next[s]>> ELSE <<>>
  <2>1. /\ UNCHANGED <<status, active, queue, offered, pending, batch>> /\ pc[s] \in Owning
        /\ input' = Taken(q, s, "applied") /\ next' = [next EXCEPT ![s] = None]
        /\ Goto(s, "runStart")
    BY <1>16 DEF Absorb, At, Owning, Executing, sessionVars,
         fiberVars, localVars, inputVars, outcomeVars
  <2>2. \A i \in Range(q) : input[i].sub = s
    BY OwnLocals DEF Range
  <2>3. "runStart" \in Owning
    BY DEF Owning, Executing
  <2> HIDE DEF q
  <2>4. \A u \in Submissions : next'[u] \in InputIds => next'[u] = next[u]
    BY <2>1, <1>t, Labels
  <2>5. \A i \in InputIds :
           /\ input'[i].sub = input[i].sub
           /\ input'[i].by # input[i].by => input'[i].by = s /\ input[i].sub = s
    BY <2>1, <2>2, TakenOwn
  <2>6. QED
    BY <2>1, <2>3, <2>4, <2>5, OwnLocals, CustodyMove
<1>17. CASE Boundary(s)
  <2>1. /\ UNCHANGED <<status, active, offered, pending, next>> /\ pc[s] \in Owning
        /\ gate = None
    BY <1>17 DEF Boundary, TakeSteering, GateFree, At, Owning, Executing, sessionVars,
         fiberVars, localVars, inputVars, outcomeVars
  <2>2. CASE queue["steer"] = <<>>
    <3>1. UNCHANGED <<batch, queue, input>> /\ Goto(s, "turn")
      BY <1>17, <2>2 DEF Boundary, TakeSteering
    <3>2. "turn" \in Owning
      BY DEF Owning, Executing
    <3>3. QED
      BY <2>1, <3>1, <3>2, OwnLocals, CustodyMove
  <2>3. CASE queue["steer"] # <<>>
    <3>1. /\ batch' = [batch EXCEPT ![s] = queue["steer"]] /\ Goto(s, "applying")
          /\ input' = Taken(queue["steer"], s, "taken")
          /\ queue' = [queue EXCEPT !["steer"] = <<>>]
      BY <1>17, <2>3 DEF Boundary, TakeSteering
    <3>2. "applying" \in Owning /\ "steer" \in Kinds
      BY DEF Owning, Executing, Kinds
    <3>3. \A i \in Range(queue["steer"]) : input[i].sub = s /\ i \in InputIds
      BY <2>1, <3>2, FreeMeansOwn, HeldInputs
    <3>4. \A u \in Submissions : batch'[u] = IF u = s THEN queue["steer"] ELSE batch[u]
      BY <3>1, <1>t
    <3>5. \A k \in Kinds : queue'[k] \in {queue[k], <<>>}
      BY <3>1, <1>t
    <3>6. QED
      BY <2>1, <3>1, <3>2, <3>3, <3>4, <3>5, TakenOwn, OwnLocals, CustodyMove
  <2>4. QED
    BY <2>2, <2>3
<1>18. CASE LateDrain(s)
  <2>1. /\ UNCHANGED <<status, active, offered, pending, next>> /\ pc[s] \in Owning
        /\ gate = None
    BY <1>18 DEF LateDrain, TakeSteering, GateFree, At, Owning, Executing, sessionVars,
         fiberVars, localVars, inputVars, outcomeVars
  <2>2. CASE queue["steer"] = <<>>
    <3>1. UNCHANGED <<batch, queue, input>> /\ Goto(s, "runEnd")
      BY <1>18, <2>2 DEF LateDrain, TakeSteering
    <3>2. "runEnd" \in Owning
      BY DEF Owning, Executing
    <3>3. QED
      BY <2>1, <3>1, <3>2, OwnLocals, CustodyMove
  <2>3. CASE queue["steer"] # <<>>
    <3>1. /\ batch' = [batch EXCEPT ![s] = queue["steer"]] /\ Goto(s, "lateApplying")
          /\ input' = Taken(queue["steer"], s, "taken")
          /\ queue' = [queue EXCEPT !["steer"] = <<>>]
      BY <1>18, <2>3 DEF LateDrain, TakeSteering
    <3>2. "lateApplying" \in Owning /\ "steer" \in Kinds
      BY DEF Owning, Executing, Kinds
    <3>3. \A i \in Range(queue["steer"]) : input[i].sub = s /\ i \in InputIds
      BY <2>1, <3>2, FreeMeansOwn, HeldInputs
    <3>4. \A u \in Submissions : batch'[u] = IF u = s THEN queue["steer"] ELSE batch[u]
      BY <3>1, <1>t
    <3>5. \A k \in Kinds : queue'[k] \in {queue[k], <<>>}
      BY <3>1, <1>t
    <3>6. QED
      BY <2>1, <3>1, <3>2, <3>3, <3>4, <3>5, TakenOwn, OwnLocals, CustodyMove
  <2>4. QED
    BY <2>2, <2>3
<1>19. CASE EndRun(s)
  <2>1. /\ UNCHANGED <<status, active, offered, batch, next>> /\ pc[s] \in Owning
        /\ Goto(s, "closeInput") /\ "closeInput" \in Owning
        /\ TakeFollowUps(s) \/ UNCHANGED <<pending, input, queue>>
    BY <1>19 DEF EndRun, At, Owning, Executing, sessionVars,
         fiberVars, localVars, inputVars, outcomeVars
  <2>2. CASE TakeFollowUps(s)
    <3>1. /\ gate = None /\ pending' = [pending EXCEPT ![s] = queue["followUp"]]
          /\ input' = Taken(queue["followUp"], s, "taken")
          /\ queue' = [queue EXCEPT !["followUp"] = <<>>]
      BY <2>2 DEF TakeFollowUps, GateFree
    <3>2. "followUp" \in Kinds
      BY DEF Kinds
    <3>3. \A i \in Range(queue["followUp"]) : input[i].sub = s /\ i \in InputIds
      BY <2>1, <3>1, <3>2, FreeMeansOwn, HeldInputs
    <3>4. \A u \in Submissions : pending'[u] = IF u = s THEN queue["followUp"] ELSE pending[u]
      BY <3>1, <1>t
    <3>5. \A k \in Kinds : queue'[k] \in {queue[k], <<>>}
      BY <3>1, <1>t
    <3>6. QED
      BY <2>1, <3>1, <3>3, <3>4, <3>5, TakenOwn, OwnLocals, CustodyMove
  <2>3. CASE UNCHANGED <<pending, input, queue>>
    BY <2>1, <2>3, OwnLocals, CustodyMove
  <2>4. QED
    BY <2>1, <2>2, <2>3
<1>20. CASE CloseDrain(s)
  <2>1. /\ UNCHANGED <<status, active, offered, batch, next>> /\ pc[s] \in Owning
        /\ Goto(s, "shift") /\ "shift" \in Owning
        /\ TakeFollowUps(s)
    BY <1>20 DEF CloseDrain, At, Owning, Executing, sessionVars,
         fiberVars, localVars, inputVars, outcomeVars
  <2>2. CASE TakeFollowUps(s)
    <3>1. /\ gate = None /\ pending' = [pending EXCEPT ![s] = queue["followUp"]]
          /\ input' = Taken(queue["followUp"], s, "taken")
          /\ queue' = [queue EXCEPT !["followUp"] = <<>>]
      BY <2>2 DEF TakeFollowUps, GateFree
    <3>2. "followUp" \in Kinds
      BY DEF Kinds
    <3>3. \A i \in Range(queue["followUp"]) : input[i].sub = s /\ i \in InputIds
      BY <2>1, <3>1, <3>2, FreeMeansOwn, HeldInputs
    <3>4. \A u \in Submissions : pending'[u] = IF u = s THEN queue["followUp"] ELSE pending[u]
      BY <3>1, <1>t
    <3>5. \A k \in Kinds : queue'[k] \in {queue[k], <<>>}
      BY <3>1, <1>t
    <3>6. QED
      BY <2>1, <3>1, <3>3, <3>4, <3>5, TakenOwn, OwnLocals, CustodyMove
  <2>3. QED
    BY <2>1, <2>2
<1>21. CASE ApplySteering(s)
  <2>1. /\ UNCHANGED <<status, active, queue, offered, pending, next>> /\ pc[s] \in Owning
        /\ input' = Taken(batch[s], s, "applied") /\ batch' = [batch EXCEPT ![s] = <<>>]
    BY <1>21 DEF ApplySteering, At, Owning, Executing, sessionVars,
         fiberVars, localVars, inputVars, outcomeVars
  <2>2. \E label \in Owning \cup {"done"} : Goto(s, label)
    BY <1>21 DEF ApplySteering, Owning, Executing
  <2>3. \A u \in Submissions : batch'[u] = IF u = s THEN <<>> ELSE batch[u]
    BY <2>1, <1>t
  <2>4. \A i \in Range(batch[s]) : input[i].sub = s
    BY OwnLocals
  <2>5. QED
    BY <2>1, <2>2, <2>3, <2>4, TakenOwn, OwnLocals, CustodyMove
<1>22. CASE Withdraw(s)
  <2>1. /\ UNCHANGED custodyVars /\ gate = None /\ pc[s] = "withdraw"
        /\ pc' = [pc EXCEPT ![s] = "drop"]
    BY <1>22 DEF Withdraw, GateFree, Goto, custodyVars, sessionVars,
         fiberVars, localVars, inputVars, outcomeVars
  <2>2. pc[s] \in Owning
    BY <2>1 DEF Owning
  <2>3. NoneDropping /\ \A k \in Kinds : \A i \in Range(queue[k]) : input[i].sub = s
    BY <2>1, <2>2, FreeMeansOwn
  <2>4. pc'[s] = "drop" /\ \A u \in Submissions : pc'[u] = "drop" => u = s
    BY <2>1, <2>3, <1>t DEF NoneDropping
  <2>5. ~NoneDropping'
    BY <2>4 DEF NoneDropping
  <2>6. Custody'
    BY <2>1, <2>3, <2>4, <2>5 DEF Custody, Addressed, custodyVars
  <2>7. InputsStayWithTheirSubmission'
    BY <2>1 DEF InputsStayWithTheirSubmission, custodyVars
  <2>8. QED
    BY <2>6, <2>7
<1>23. CASE DropLeftovers(s)
  <2> DEFINE q == queue["steer"] \o queue["followUp"]
  <2>1. /\ UNCHANGED <<offered, pending, batch, next>> /\ pc[s] = "drop"
        /\ pc' = [pc EXCEPT ![s] = "done"]
        /\ input' = Taken(q, s, "dropped") /\ queue' = EmptyQueues
    BY <1>23 DEF DropLeftovers, Goto, sessionVars,
         fiberVars, localVars, inputVars, outcomeVars
  <2>2. gate = s /\ NoneDropping'
    BY <2>1, <1>t DEF PermitHeld, NoneDropping
  <2>3. \A i \in Range(q) : input[i].sub = s
    <3>1. {"steer", "followUp"} \subseteq Kinds
      BY DEF Kinds
    <3>2. Range(q) \subseteq Range(queue["steer"]) \cup Range(queue["followUp"])
      BY <3>1, <1>t, RangeFacts
    <3>3. QED
      BY <2>1, <3>1, <3>2 DEF Custody, Addressed
  <2>4. \A i \in InputIds :
           /\ input'[i].sub = input[i].sub
           /\ input'[i].by # input[i].by => input'[i].by = s /\ input[i].sub = s
    <3> HIDE DEF q
    <3>1. QED
      BY <2>1, <2>3, TakenOwn
  <2>5. \A k \in Kinds : queue'[k] = <<>> /\ Range(queue'[k]) = {}
    BY <2>1, OwnLocals DEF EmptyQueues
  <2>6. \A u \in Submissions :
           /\ \A i \in Range(pending'[u]) \cup Range(batch'[u]) : input'[i].sub = u
           /\ next'[u] \in InputIds => input'[next'[u]].sub = u
    BY <2>1, <2>4, OwnLocals
  <2>7. \A i \in InputIds : i > offered' => input'[i].sub = None /\ input'[i].by = None
    BY <2>1, <2>4, Labels DEF Custody
  <2>8. Custody'
    BY <2>2, <2>5, <2>6, <2>7 DEF Custody, Addressed, NoneDropping
  <2>9. InputsStayWithTheirSubmission'
    BY <2>4 DEF InputsStayWithTheirSubmission
  <2>10. QED
    BY <2>8, <2>9
<1>24. QED
  BY <1>1, <1>2, <1>3, <1>4, <1>5, <1>6, <1>7, <1>8, <1>9, <1>10, <1>11, <1>12, <1>13, <1>14, <1>15, <1>16, <1>17, <1>18, <1>19, <1>20, <1>21, <1>22, <1>23 DEF FiberStep

\* A step that leaves the inputs and the submissions' fibres alone.
LEMMA CustodyFrame ==
    ASSUME TypeOK, Custody, InputsStayWithTheirSubmission,
           UNCHANGED <<queue, offered, pending, batch, next, active, pc>>,
           status' = "idle" => status = "idle",
           \A i \in InputIds : input'[i].sub = input[i].sub /\ input'[i].by = input[i].by
    PROVE  Custody' /\ InputsStayWithTheirSubmission'
<1>1. NoneDropping' <=> NoneDropping
  BY DEF NoneDropping
<1>2. \A k \in Kinds : /\ \A i \in Range(queue'[k]) : input'[i].sub # None
                       /\ NoneDropping' => \A i \in Range(queue'[k]) : input'[i].sub = active'
                       /\ NoneDropping' /\ status' = "idle" => queue'[k] = <<>>
  BY <1>1, HeldInputs DEF Custody, Addressed
<1>3. \A s \in Submissions :
         /\ pc'[s] = "drop" => \A k \in Kinds : \A i \in Range(queue'[k]) : input'[i].sub = s
         /\ \A i \in Range(pending'[s]) \cup Range(batch'[s]) : input'[i].sub = s
         /\ next'[s] \in InputIds => input'[next'[s]].sub = s
  BY HeldInputs DEF Custody, Addressed
<1>4. \A i \in InputIds : i > offered' => input'[i].sub = None /\ input'[i].by = None
  BY DEF Custody
<1>5. Custody'
  BY <1>2, <1>3, <1>4 DEF Custody, Addressed
<1>6. InputsStayWithTheirSubmission'
  BY DEF InputsStayWithTheirSubmission
<1>7. QED
  BY <1>5, <1>6

LEMMA CustodyCaller ==
    ASSUME TypeOK, PermitHeld, SessionHeld, Custody, InputsStayWithTheirSubmission,
           NEW c \in Callers,
           CallerStep(c) \/ CallerLeaves(c) \/ \E op \in Kinds \cup {"interrupt"} : Ask(c, op)
    PROVE  Custody' /\ InputsStayWithTheirSubmission'
<1>f. UNCHANGED <<status, active, pc, pending, batch, next>>
  BY DEF CallerStep, Ask, Enter, Offer, AnnounceQueued, CallerLeaves, Hit, callerFrame,
         sessionVars, localVars
<1>1. CASE Enter(c) \/ Hit(c) \/ \E op \in Kinds \cup {"interrupt"} : Ask(c, op)
  <2>1. UNCHANGED <<queue, input, offered>>
    BY <1>1 DEF Enter, Hit, Ask, inputVars
  <2>2. QED
    BY <2>1, <1>f, CustodyFrame
<1>2. CASE AnnounceQueued(c) \/ CallerLeaves(c)
  <2>1. UNCHANGED <<queue, offered>>
    BY <1>2 DEF AnnounceQueued, CallerLeaves
  <2>2. \A i \in InputIds : input'[i].sub = input[i].sub /\ input'[i].by = input[i].by
    <3>1. /\ input \in [InputIds -> InputRecord]
          /\ \E i \in InputIds \cup {None} :
                input' \in {input, [input EXCEPT ![i].announced = TRUE],
                           [input EXCEPT ![i].abandoned = TRUE]}
      BY <1>2 DEF AnnounceQueued, CallerLeaves, TypeOK, CallRecord
    <3>2. PICK j \in InputIds \cup {None} :
             input' \in {input, [input EXCEPT ![j].announced = TRUE],
                        [input EXCEPT ![j].abandoned = TRUE]}
      BY <3>1
    <3>3. QED
      BY <3>1, <3>2 DEF InputRecord
  <2>3. QED
    BY <2>1, <2>2, <1>f, CustodyFrame
<1>3. CASE Offer(c)
  <2> DEFINE o == offered + 1
             kind == caller[c].op
  <2>1. /\ gate = c /\ status # "idle" /\ active # None /\ caller[c].target = active
        /\ kind \in Kinds /\ o \in InputIds /\ offered \in Nat
    <3>1. /\ gate = c /\ status # "idle" /\ active # None /\ caller[c].target = active
          /\ kind \in Kinds /\ offered < MaxInputs
      BY <1>3 DEF Offer, PermitHeld, SessionHeld
    <3>2. offered \in 0 .. MaxInputs
      BY DEF TypeOK
    <3>3. QED
      BY <3>1, <3>2, SessionAssumption DEF InputIds
  <2>2. /\ offered' = o /\ queue' = [queue EXCEPT ![kind] = Append(@, o)]
        /\ \A i \in InputIds : /\ input'[i].sub = IF i = o THEN active ELSE input[i].sub
                               /\ input'[i].by = input[i].by
    <3>1. input \in [InputIds -> InputRecord]
      BY DEF TypeOK
    <3>2. QED
      BY <1>3, <2>1, <3>1 DEF Offer, InputRecord
  <2>3. NoneDropping /\ NoneDropping'
    BY <2>1, <1>f, Labels DEF PermitHeld, NoneDropping
  <2>4. input[o].sub = None /\ input[o].by = None
    BY <2>1 DEF Custody
  <2>5. \A k \in Kinds : \A i \in Range(queue'[k]) : input'[i].sub = active
    <3>1. \A k \in Kinds : Range(queue'[k]) \subseteq Range(queue[k]) \cup {o}
      <4>1. \A k \in Kinds : queue[k] \in Seq(InputIds)
        BY DEF TypeOK
      <4>2. \A k \in Kinds : Range(Append(queue[k], o)) \subseteq Range(queue[k]) \cup {o}
        <5>1. ASSUME NEW k \in Kinds
              PROVE  Range(Append(queue[k], o)) \subseteq Range(queue[k]) \cup {o}
          <6>1. queue[k] \in Seq(InputIds) /\ o \in InputIds
            BY <2>1, <4>1
          <6> HIDE DEF o
          <6>2. QED
            BY <6>1 DEF Range
        <5>2. QED
          BY <5>1
      <4>3. queue \in [Kinds -> Seq(InputIds)]
        BY DEF TypeOK
      <4>4. \A k \in Kinds : queue'[k] \in {queue[k], Append(queue[k], o)}
        BY <2>2, <4>3
      <4>5. QED
        BY <4>2, <4>4
    <3>2. \A k \in Kinds : \A i \in Range(queue[k]) : i \in InputIds /\ input[i].sub = active
      BY <2>3, HeldInputs DEF Custody, Addressed
    <3>3. QED
      BY <2>1, <2>2, <3>1, <3>2
  <2>6. \A s \in Submissions :
           /\ \A i \in Range(pending'[s]) \cup Range(batch'[s]) : input'[i].sub = s
           /\ next'[s] \in InputIds => input'[next'[s]].sub = s
    <3>1. ASSUME NEW s \in Submissions
          PROVE  /\ \A i \in Range(pending[s]) \cup Range(batch[s]) : input'[i].sub = s
                 /\ next[s] \in InputIds => input'[next[s]].sub = s
      <4>1. s # None
        BY <3>1, Labels
      <4>2. \A i \in InputIds : input[i].sub = s => input'[i].sub = s
        BY <2>2, <2>4, <4>1
      <4>3. /\ \A i \in Range(pending[s]) \cup Range(batch[s]) :
                  i \in InputIds /\ input[i].sub = s
            /\ next[s] \in InputIds => input[next[s]].sub = s
        BY <3>1, OwnLocals
      <4>4. QED
        BY <4>2, <4>3
    <3>2. QED
      BY <3>1, <1>f
  <2>7. \A i \in InputIds : i > offered' => input'[i].sub = None /\ input'[i].by = None
    BY <2>1, <2>2, Labels DEF Custody
  <2>8. Custody'
    BY <2>1, <2>3, <2>5, <2>6, <2>7, <1>f DEF Custody, Addressed, NoneDropping
  <2>9. InputsStayWithTheirSubmission'
    BY <2>2, <2>4 DEF InputsStayWithTheirSubmission
  <2>10. QED
    BY <2>8, <2>9
<1>4. \/ Enter(c) \/ Hit(c) \/ \E op \in Kinds \cup {"interrupt"} : Ask(c, op)
      \/ AnnounceQueued(c) \/ CallerLeaves(c) \/ Offer(c)
  BY DEF CallerStep
<1>5. QED
  BY <1>1, <1>2, <1>3, <1>4, Zenon

LEMMA CustodyRest ==
    ASSUME TypeOK, PermitHeld, SessionHeld, Custody, InputsStayWithTheirSubmission,
           \/ Claim \/ OwnerStep \/ UNCHANGED vars \/ \E s \in Submissions : Cancel(s)
    PROVE  Custody' /\ InputsStayWithTheirSubmission'
<1>1. CASE Claim
  <2> DEFINE s == submissionCount'
  <2>1. /\ status = "idle" /\ status' = "running" /\ s \in Submissions
        /\ s = submissionCount + 1 /\ pc' = [pc EXCEPT ![s] = "claimed"]
        /\ UNCHANGED custodyVars
    BY <1>1, ClaimOpensIdle DEF Goto, localVars, inputVars, custodyVars
  <2>2. pc[s] = "none" /\ pc \in [Submissions -> PCs]
    BY <2>1 DEF SessionHeld, TypeOK
  <2>3. \A u \in Submissions : pc'[u] = "drop" <=> pc[u] = "drop"
    BY <2>1, <2>2
  <2>4. NoneDropping' <=> NoneDropping
    BY <2>3 DEF NoneDropping
  <2>5. NoneDropping => \A k \in Kinds : queue[k] = <<>> /\ Range(queue[k]) = {}
    BY <2>1 DEF Custody, Range
  <2>6. Custody'
    BY <2>1, <2>3, <2>4, <2>5 DEF Custody, Addressed, custodyVars
  <2>7. InputsStayWithTheirSubmission'
    BY <2>1 DEF InputsStayWithTheirSubmission, custodyVars
  <2>8. QED
    BY <2>6, <2>7
<1>2. CASE OwnerStep \/ UNCHANGED vars \/ \E s \in Submissions : Cancel(s)
  <2>1. /\ UNCHANGED <<queue, input, offered, pending, batch, next, active, pc>>
        /\ status' = "idle" => status = "idle"
    BY <1>2 DEF OwnerStep, BeginClose, FinalizerInterrupts, FinalizerCloses, Cancel,
                callerFrame, ownerFrame, vars, sessionVars, localVars, inputVars
  <2>2. QED
    BY <2>1, CustodyFrame
<1>3. QED
  BY <1>1, <1>2

-----------------------------------------------------------------------------
(* The inductive invariant, and what follows from it *)

IInv == TypeOK /\ GateDiscipline /\ InputsStayWithTheirSubmission

LEMMA InvInit == Init => IInv
<1> SUFFICES ASSUME Init PROVE IInv
  OBVIOUS
<1>1. TypeOK
  BY TypeInit
<1>2. PermitHeld /\ SessionHeld
  BY DEF Init, PermitHeld, SessionHeld, NoCall, Owning, Executing
<1>3. \A k \in Kinds : queue[k] = <<>> /\ Range(queue[k]) = {}
  BY DEF Init, EmptyQueues, Range
<1>4. \A s \in Submissions : /\ next[s] \notin InputIds /\ pc[s] # "drop"
                             /\ Range(pending[s]) = {} /\ Range(batch[s]) = {}
  BY Labels DEF Init, Range
<1>5. Custody /\ InputsStayWithTheirSubmission
  BY <1>3, <1>4 DEF Init, Custody, Addressed, InputsStayWithTheirSubmission, NoInput
<1>6. QED
  BY <1>1, <1>2, <1>5 DEF IInv, GateDiscipline

LEMMA InvStep == IInv /\ [Next]_vars => IInv'
<1> SUFFICES ASSUME TypeOK, PermitHeld, SessionHeld, Custody, InputsStayWithTheirSubmission,
                    [Next]_vars
             PROVE  IInv'
  BY DEF IInv, GateDiscipline
<1> USE DEF IInv, GateDiscipline
<1>1. ASSUME NEW s \in Submissions, FiberStep(s) PROVE IInv'
  BY <1>1, TypeFiber, HeldFiber, CustodyFiber
<1>2. ASSUME NEW c \in Callers,
             CallerStep(c) \/ CallerLeaves(c) \/ \E op \in Kinds \cup {"interrupt"} : Ask(c, op)
      PROVE  IInv'
  BY <1>2, TypeCaller, HeldCaller, CustodyCaller
<1>3. CASE Claim \/ OwnerStep \/ UNCHANGED vars \/ \E s \in Submissions : Cancel(s)
  BY <1>3, TypeRest, HeldRest, CustodyRest
<1>4. QED
  BY <1>1, <1>2, <1>3 DEF Next, OwnerStep, Over

LEMMA Invariance == Spec => []IInv
BY InvInit, InvStep, PTL DEF Spec

\* The state keeps its shape, whatever the number of callers and submissions.
THEOREM SpecTypeOK == Spec => []TypeOK
<1>1. IInv => TypeOK
  BY DEF IInv
<1>2. QED
  BY <1>1, Invariance, PTL

\* At most one submission owns the session (AgentSession.ts, claim and release).
THEOREM SpecOneAtATime == Spec => []OneAtATime
<1>1. IInv => OneAtATime
  BY DEF IInv, GateDiscipline, SessionHeld, OneAtATime
<1>2. QED
  BY <1>1, Invariance, PTL

\* The permit, the session and what the channels hold have the same holder
\* (state.ts, inputGate).
THEOREM SpecGateDiscipline == Spec => []GateDiscipline
<1>1. IInv => GateDiscipline
  BY DEF IInv
<1>2. QED
  BY <1>1, Invariance, PTL

\* An input is applied or dropped by the submission it was addressed to, and by
\* no other, in every interleaving (steer, followUp, applySteering, release).
THEOREM SpecInputsStay == Spec => []InputsStayWithTheirSubmission
<1>1. IInv => InputsStayWithTheirSubmission
  BY DEF IInv
<1>2. QED
  BY <1>1, Invariance, PTL

\* A closed session is never reopened, by a release that comes late or by a
\* prompt (AgentSession.ts, the finalizer and release).
THEOREM SpecClosedIsFinal == Spec => ClosedIsFinal
<1>1. ASSUME IInv, [Next]_vars, status = "closed" PROVE status' = "closed"
  <2>1. CASE Claim
    BY <1>1, <2>1, ClaimOpensIdle DEF IInv
  <2>2. ASSUME NEW s \in Submissions, FiberStep(s) PROVE status' = "closed"
    BY <1>1, <2>2 DEF FiberStep, Register, Absorb, StartRun, Boundary, LateDrain, TakeSteering,
       ApplySteering, CommitTurn, Tally, Continue, Stop, EndRun, CloseInput, CloseDrain,
       NextRun, Complete, Break, Fail, Finish, Unwind, Settle, ClearActive, Withdraw,
       DropLeftovers, sessionVars
  <2>3. ASSUME NEW c \in Callers,
               \/ CallerStep(c) \/ CallerLeaves(c)
               \/ \E op \in Kinds \cup {"interrupt"} : Ask(c, op)
        PROVE  status' = "closed"
    BY <1>1, <2>3 DEF CallerStep, Ask, Enter, Offer, AnnounceQueued, CallerLeaves, Hit,
       callerFrame, sessionVars
  <2>4. CASE OwnerStep \/ UNCHANGED vars \/ \E s \in Submissions : Cancel(s)
    BY <1>1, <2>4 DEF OwnerStep, BeginClose, FinalizerInterrupts, FinalizerCloses, Cancel,
       callerFrame, ownerFrame, vars, sessionVars
  <2>5. QED
    BY <1>1, <2>1, <2>2, <2>3, <2>4 DEF Next, OwnerStep, Over
<1>2. IInv /\ [Next]_vars => [status = "closed" => status' = "closed"]_vars
  BY <1>1
<1>3. QED
  BY <1>2, Invariance, PTL DEF Spec, ClosedIsFinal
==============================================================================
