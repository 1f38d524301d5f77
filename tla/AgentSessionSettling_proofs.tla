--------------------- MODULE AgentSessionSettling_proofs ----------------------
(***************************************************************************)
(* How a submission of AgentSession ends, for every number of callers,     *)
(* submissions, inputs and turns: what is retained of it, what it          *)
(* publishes, and what a close waits for.  The argument rests on the       *)
(* invariant IInv of AgentSession_proofs: the session has one holder.      *)
(***************************************************************************)
EXTENDS AgentSession_proofs

Acting == Executing \cup {"settle", "clear"}

\* One fibre acts for the session, the newest submission's; what is retained is
\* a fibre that has settled, and between the two the newest is always found.
Fibres ==
    /\ \A s \in Submissions :
          /\ pc[s] \in Owning => s = submissionCount
          /\ pc[s] \in Acting => activeFiber = s
          /\ pc[s] \in {"clear", "withdraw"} => settled.sub = s
    /\ settled.sub # None => pc[settled.sub] \in {"clear", "withdraw", "drop", "done"}
    /\ LatestIsJoinable

\* The progress counted is the turns committed, but for the turn between its
\* commit and its tally.
Tallied ==
    /\ \A s \in Submissions :
          /\ pc[s] \in {"none", "claimed"} => committed[s] = 0
          /\ pc[s] \in Executing => committed[s] = progress + (IF pc[s] = "tally" THEN 1 ELSE 0)
          /\ pc[s] = "failing" => cause[s] \in {"failed", "interrupted"}
          /\ pc[s] = "settle" => /\ progress <= committed[s] /\ committed[s] <= progress + 1
                                 /\ cause[s] = "completed" => committed[s] = progress
    /\ SettledProgressIsOwn

\* A terminal event is published when `execute` ends, once; a close that awaits
\* awaits the only fibre there is.
Ends ==
    /\ \A s \in Submissions :
          /\ pc[s] \in {"none", "claimed"} \cup (Executing \ {"completing"}) => terminal[s] = {}
          /\ pc[s] = "completing" => terminal[s] = {"SubmissionCompleted"}
          /\ pc[s] \in Releasing => terminal[s] # {}
          /\ pc[s] = "done" => terminal[s] # {} \/ cause[s] = "stillborn"
          /\ owner.pc \in {"awaiting", "closed"} /\ pc[s] \in Executing => owner.target = s
          /\ owner.pc = "closed" => pc[s] \notin Executing

Settling == Fibres /\ Tallied /\ Ends

\* What these say of the state, and what a step of another kind leaves alone.
settlingVars == <<submissionCount, activeFiber, settled, progress, committed, cause, terminal, owner>>

-----------------------------------------------------------------------------
LEMMA SettlingInit == Init => Settling
BY Labels DEF Init, Settling, Fibres, LatestIsJoinable, Tallied, SettledProgressIsOwn, Ends,
   Owning, Acting, Executing, Releasing, None

LEMMA SettlingFrame ==
    ASSUME Settling, UNCHANGED <<settlingVars, pc>>
    PROVE  Settling'
BY DEF Settling, settlingVars, Fibres, LatestIsJoinable, Tallied, SettledProgressIsOwn, Ends

\* A fibre that goes from one label of `execute` to another.
LEMMA SettlingMove ==
    ASSUME TypeOK, Settling, UNCHANGED settlingVars, NEW s \in Submissions,
           pc[s] \in Executing \ {"tally", "completing"},
           NEW label \in Executing \ {"tally", "completing", "failing"}, Goto(s, label)
    PROVE  Settling'
<1> USE DEF Settling, settlingVars
<1>1. \A t \in Submissions : pc'[t] = IF t = s THEN label ELSE pc[t]
  BY DEF TypeOK, Goto
<1>2. settled.sub \in Submissions \cup {None}
  BY DEF TypeOK
<1>3. label \notin {"none", "claimed", "settle", "clear", "withdraw", "drop", "done"}
      /\ pc[s] \notin {"none", "claimed", "settle", "clear", "withdraw", "drop", "done"}
  BY DEF Executing
<1>4. Fibres'
  <2>1. LatestIsJoinable'
    BY <1>1, <1>3, Labels DEF Fibres, LatestIsJoinable, TypeOK, Submissions
  <2>2. QED
    BY <1>1, <1>2, <1>3, <2>1 DEF Fibres, Owning, Acting
<1>5. Tallied'
  <2>1. SettledProgressIsOwn'
    BY DEF Tallied, SettledProgressIsOwn
  <2>2. QED
    BY <1>1, <1>3, <2>1 DEF Tallied
<1>6. Ends'
  BY <1>1, <1>3 DEF Ends, Releasing
<1>7. QED
  BY <1>4, <1>5, <1>6

LEMMA SettlingQuiet ==
    ASSUME TypeOK, Settling, NEW s \in Submissions,
           \/ Absorb(s) \/ StartRun(s) \/ Boundary(s) \/ ApplySteering(s) \/ Continue(s) \/ Stop(s)
           \/ LateDrain(s) \/ EndRun(s) \/ CloseInput(s) \/ CloseDrain(s) \/ NextRun(s)
    PROVE  Settling'
<1>1. UNCHANGED settlingVars
  BY DEF Absorb, StartRun, Boundary, LateDrain, TakeSteering, ApplySteering, Continue, Stop,
     EndRun, CloseInput, CloseDrain, NextRun, settlingVars, sessionVars, fiberVars, outcomeVars
<1>2. pc[s] \in Executing \ {"tally", "completing"}
  BY DEF Absorb, StartRun, Boundary, LateDrain, TakeSteering, ApplySteering, Continue, Stop,
     EndRun, CloseInput, CloseDrain, NextRun, At, Executing
<1>3. \E label \in Executing \ {"tally", "completing", "failing"} : Goto(s, label)
  BY DEF Absorb, StartRun, Boundary, LateDrain, TakeSteering, ApplySteering, Continue, Stop,
     EndRun, CloseInput, CloseDrain, NextRun, Executing
<1>4. QED
  BY <1>1, <1>2, <1>3, SettlingMove

\* The claim: nobody owned the session, and the newest is now the one admitted.
LEMMA SettlingClaim == ASSUME IInv, Settling, Claim PROVE Settling'
<1> USE DEF Settling
<1> DEFINE n == submissionCount'
<1>1. /\ TypeOK /\ SessionHeld /\ n = submissionCount + 1 /\ n \in Submissions
      /\ status = "idle" /\ Goto(n, "claimed")
      /\ UNCHANGED <<activeFiber, settled, progress, committed, cause, terminal, owner>>
  BY ClaimOpensIdle DEF IInv, GateDiscipline, fiberVars, outcomeVars
<1> HIDE DEF n
<1>2. /\ pc[n] = "none" /\ \A t \in Submissions : pc[t] \notin Owning
      /\ \A t \in Submissions : pc'[t] = IF t = n THEN "claimed" ELSE pc[t]
  BY <1>1 DEF SessionHeld, TypeOK, Goto
<1>3. Fibres'
  <2>1. LatestIsJoinable'
    BY <1>1, <1>2 DEF LatestIsJoinable, n
  <2>2. settled'.sub # None => pc'[settled'.sub] \in {"clear", "withdraw", "drop", "done"}
    BY <1>1, <1>2 DEF Fibres, TypeOK
  <2>3. \A t \in Submissions : t # n => pc[t] \notin Owning
    BY <1>2
  <2>4. Acting \subseteq Owning /\ {"clear", "withdraw"} \subseteq Owning
        /\ "claimed" \notin Acting \cup {"clear", "withdraw"}
    BY DEF Acting, Owning, Executing
  <2>5. QED
    BY <1>2, <2>1, <2>2, <2>4 DEF Fibres, n
<1>4. Tallied'
  <2>1. SettledProgressIsOwn'
    BY <1>1 DEF Tallied, SettledProgressIsOwn
  <2>2. QED
    BY <1>1, <1>2, <2>1 DEF Tallied, Executing
<1>5. Ends'
  BY <1>1, <1>2 DEF Ends, Executing, Releasing
<1>6. QED
  BY <1>3, <1>4, <1>5

\* Registration zeroes the progress of the fibre it starts; a closed scope starts none.
LEMMA SettlingRegister == ASSUME TypeOK, Settling, NEW s \in Submissions, Register(s) PROVE Settling'
<1> USE DEF Settling
<1>1. /\ pc[s] = "claimed" /\ progress' = 0 /\ activeFiber' = s
      /\ \A t \in Submissions : t # s => pc'[t] = pc[t] /\ cause'[t] = cause[t]
      /\ \/ pc'[s] = "iterate" /\ owner.pc = "open" /\ cause' = cause
         \/ pc'[s] = "done" /\ cause'[s] = "stillborn"
      /\ UNCHANGED <<submissionCount, settled, committed, terminal, owner>>
  BY DEF Register, Goto, TypeOK, sessionVars
<1>2. s = submissionCount /\ \A t \in Submissions : t # s => pc[t] \notin Owning
  BY <1>1 DEF Fibres, Owning
<1>3. Acting \subseteq Owning /\ {"clear", "withdraw"} \subseteq Owning /\ Executing \subseteq Owning
      /\ "settle" \in Owning
  BY DEF Acting, Owning, Executing
<1>4. Fibres'
  <2>1. LatestIsJoinable'
    BY <1>1, <1>2 DEF LatestIsJoinable
  <2>2. QED
    BY <1>1, <1>2, <1>3, <2>1 DEF Fibres, Owning, TypeOK
<1>5. Tallied'
  <2>1. settled.sub # s
    BY <1>1, Labels DEF Fibres
  <2>2. SettledProgressIsOwn'
    BY <1>1, <2>1 DEF Tallied, SettledProgressIsOwn, TypeOK
  <2>3. committed[s] = 0
    BY <1>1 DEF Tallied
  <2>4. \A t \in Submissions : t # s =>
           pc'[t] \notin Executing /\ pc'[t] # "settle" /\ pc'[t] # "failing"
    BY <1>1, <1>2, <1>3 DEF Executing
  <2>5. \A t \in Submissions : t # s =>
           (pc'[t] \in {"none", "claimed"} => committed'[t] = 0)
    BY <1>1 DEF Tallied
  <2>6. /\ pc'[s] \notin {"none", "claimed", "failing", "settle", "tally"}
        /\ committed'[s] = 0 /\ progress' = 0
    BY <1>1, <2>3
  <2>7. QED
    BY <2>2, <2>4, <2>5, <2>6 DEF Tallied
<1>6. Ends'
  BY <1>1, <1>2, <1>3 DEF Ends, Releasing, Executing
<1>7. QED
  BY <1>4, <1>5, <1>6

\* CommitTurn and Tally move the count of turns and the progress in step.
LEMMA SettlingTurn ==
    ASSUME TypeOK, Settling, NEW s \in Submissions, CommitTurn(s) \/ Tally(s)
    PROVE  Settling'
<1> USE DEF Settling
<1>1. /\ \/ /\ pc[s] = "turn" /\ pc'[s] = "tally"
            /\ committed'[s] = committed[s] + 1 /\ progress' = progress
         \/ /\ pc[s] = "tally" /\ pc'[s] = "decide"
            /\ committed'[s] = committed[s] /\ progress' = progress + 1
      /\ \A t \in Submissions : t # s => pc'[t] = pc[t] /\ committed'[t] = committed[t]
      /\ UNCHANGED <<submissionCount, activeFiber, settled, cause, terminal, owner>>
  BY DEF CommitTurn, Tally, Goto, At, TypeOK, sessionVars, fiberVars, outcomeVars
<1>2. s = submissionCount /\ \A t \in Submissions : t # s => pc[t] \notin Owning
  BY <1>1 DEF Fibres, Owning, Executing
<1>3. Acting \subseteq Owning /\ {"clear", "withdraw"} \subseteq Owning /\ Executing \subseteq Owning
      /\ "settle" \in Owning /\ {"turn", "tally", "decide"} \subseteq Executing
      /\ Executing \subseteq Acting
  BY DEF Acting, Owning, Executing
<1>4. Fibres'
  <2>1. LatestIsJoinable'
    BY <1>1, <1>2, <1>3 DEF LatestIsJoinable, Fibres
  <2>2. settled.sub # s
    BY <1>1, Labels DEF Fibres
  <2>3. QED
    BY <1>1, <1>2, <1>3, <2>1, <2>2 DEF Fibres, TypeOK
<1>5. Tallied'
  <2>1. settled.sub # s
    BY <1>1, Labels DEF Fibres
  <2>2. SettledProgressIsOwn'
    BY <1>1, <2>1 DEF Tallied, SettledProgressIsOwn, TypeOK
  <2>3. \A t \in Submissions : t # s =>
           pc'[t] \notin Executing /\ pc'[t] # "settle" /\ pc'[t] # "failing"
    BY <1>1, <1>2, <1>3 DEF Executing
  <2>4. committed[s] \in Nat /\ progress \in Nat
    BY DEF TypeOK
  <2>5. QED
    BY <1>1, <1>3, <2>2, <2>3, <2>4 DEF Tallied
<1>6. Ends'
  BY <1>1 DEF Ends, Releasing, Executing
<1>7. QED
  BY <1>4, <1>5, <1>6

\* The exits of `execute`, and the failure and the completion that lead to two of them.
LEMMA SettlingExit ==
    ASSUME TypeOK, Settling, NEW s \in Submissions,
           Break(s) \/ Complete(s) \/ Finish(s) \/ Fail(s) \/ Unwind(s)
    PROVE  Settling'
<1> USE DEF Settling
<1>1. /\ \A t \in Submissions : t # s =>
            pc'[t] = pc[t] /\ cause'[t] = cause[t] /\ terminal'[t] = terminal[t]
      /\ UNCHANGED <<submissionCount, activeFiber, settled, progress, committed, owner>>
  BY DEF Break, Complete, Finish, Fail, Unwind, Exit, Goto, At, TypeOK, sessionVars, fiberVars
<1>2. /\ pc[s] \in Executing
      /\ \/ /\ pc[s] \in {"turn", "decide"} /\ pc'[s] = "failing"
            /\ cause'[s] \in {"failed", "interrupted"} /\ terminal'[s] = terminal[s]
         \/ /\ pc[s] = "shift" /\ pc'[s] = "completing"
            /\ terminal'[s] = terminal[s] \cup {"SubmissionCompleted"}
         \/ /\ pc[s] = "completing" /\ pc'[s] = "settle" /\ terminal'[s] = terminal[s]
         \/ /\ pc[s] = "failing" /\ pc'[s] = "settle" /\ cause'[s] = cause[s]
            /\ terminal'[s] # {}
         \/ /\ pc'[s] = "settle" /\ cause'[s] = "interrupted" /\ terminal'[s] # {}
  <2>1. CASE Break(s)
    BY <2>1 DEF Break, Goto, At, TypeOK, Executing
  <2>2. CASE Complete(s)
    BY <2>2 DEF Complete, Goto, At, TypeOK, Executing
  <2>3. CASE Finish(s)
    BY <2>3 DEF Finish, Exit, Goto, At, TypeOK, Executing
  <2>4. CASE Fail(s)
    BY <2>4 DEF Fail, Exit, Goto, At, TypeOK, Executing
  <2>5. CASE Unwind(s)
    BY <2>5 DEF Unwind, Exit, Goto, At, TypeOK
  <2>6. QED
    BY <2>1, <2>2, <2>3, <2>4, <2>5
<1>3. /\ Acting \subseteq Owning /\ {"clear", "withdraw"} \subseteq Owning
      /\ Executing \subseteq Owning /\ Executing \subseteq Acting
      /\ "settle" \in Owning /\ {"failing", "completing"} \subseteq Executing
      /\ "settle" \in Acting /\ "settle" \notin Executing \cup {"clear", "withdraw"}
      /\ Executing \cap {"none", "claimed", "settle", "clear", "withdraw", "drop", "done"} = {}
  BY DEF Acting, Owning, Executing
<1>4. s = submissionCount /\ \A t \in Submissions : t # s => pc[t] \notin Owning
  BY <1>2, <1>3 DEF Fibres
<1>n. pc'[s] \in {"failing", "completing", "settle"}
  BY <1>2
<1>s. settled.sub # s
  BY <1>2, <1>3, Labels DEF Fibres
<1>5. Fibres'
  <2>1. LatestIsJoinable'
    BY <1>1, <1>2, <1>3, <1>4 DEF LatestIsJoinable, Fibres
  <2>2. QED
    BY <1>1, <1>2, <1>3, <1>4, <1>n, <1>s, <2>1 DEF Fibres, TypeOK
<1>6. Tallied'
  <2>1. SettledProgressIsOwn'
    BY <1>1, <1>s DEF Tallied, SettledProgressIsOwn, TypeOK
  <2>2. \A t \in Submissions : t # s =>
           /\ pc'[t] \in {"none", "claimed"} => committed'[t] = 0
           /\ pc'[t] \notin Executing /\ pc'[t] # "settle" /\ pc'[t] # "failing"
    BY <1>1, <1>3, <1>4 DEF Tallied
  <2>3. committed[s] \in Nat /\ progress \in Nat
    BY DEF TypeOK
  <2>4. committed[s] = progress + (IF pc[s] = "tally" THEN 1 ELSE 0)
    BY <1>2 DEF Tallied
  <2>5. /\ pc'[s] \in {"failing", "completing"} => committed[s] = progress
        /\ pc'[s] = "failing" => cause'[s] \in {"failed", "interrupted"}
        /\ pc'[s] = "settle" => /\ progress <= committed[s] /\ committed[s] <= progress + 1
                                /\ cause'[s] = "completed" => committed[s] = progress
    BY <1>2, <1>3, <2>3, <2>4 DEF Tallied
  <2>6. /\ committed' = committed /\ progress' = progress
        /\ pc'[s] \notin {"none", "claimed", "tally"}
        /\ pc'[s] \in Executing => pc'[s] \in {"failing", "completing"}
    BY <1>1, <1>3, <1>n
  <2>7. committed[s] \in Int /\ progress \in Int
    BY <2>3
  <2>8. ASSUME NEW t \in Submissions
        PROVE  /\ pc'[t] \in {"none", "claimed"} => committed'[t] = 0
               /\ pc'[t] \in Executing =>
                    committed'[t] = progress' + (IF pc'[t] = "tally" THEN 1 ELSE 0)
               /\ pc'[t] = "failing" => cause'[t] \in {"failed", "interrupted"}
               /\ pc'[t] = "settle" => /\ progress' <= committed'[t]
                                       /\ committed'[t] <= progress' + 1
                                       /\ cause'[t] = "completed" => committed'[t] = progress'
    BY <2>2, <2>5, <2>6, <2>7
  <2>9. QED
    BY <2>1, <2>8 DEF Tallied
<1>7. Ends'
  <2>1. /\ pc'[s] = "failing" => terminal'[s] = {}
        /\ pc'[s] = "completing" => terminal'[s] = {"SubmissionCompleted"}
        /\ pc'[s] = "settle" => terminal'[s] # {}
    BY <1>2 DEF Ends, Executing
  <2>2. owner.pc # "closed" /\ (owner.pc \in {"awaiting", "closed"} => owner.target = s)
    BY <1>2 DEF Ends
  <2>3. QED
    BY <1>1, <1>3, <1>n, <2>1, <2>2 DEF Ends, Releasing
<1>8. QED
  BY <1>5, <1>6, <1>7

\* release, step by step: retained before it is cleared, cleared before another
\* can be admitted.
LEMMA SettlingRelease ==
    ASSUME TypeOK, Settling, NEW s \in Submissions,
           Settle(s) \/ ClearActive(s) \/ Withdraw(s) \/ DropLeftovers(s)
    PROVE  Settling'
<1> USE DEF Settling
<1>1. /\ \A t \in Submissions : t # s => pc'[t] = pc[t]
      /\ UNCHANGED <<submissionCount, progress, committed, cause, terminal, owner>>
  BY DEF Settle, ClearActive, Withdraw, DropLeftovers, Goto, TypeOK, sessionVars, fiberVars,
     outcomeVars
<1>2. \/ /\ pc[s] = "settle" /\ pc'[s] = "clear" /\ UNCHANGED activeFiber
         /\ settled' = IF activeFiber # None
                       THEN [sub |-> activeFiber, turns |-> progress] ELSE settled
      \/ /\ pc[s] = "clear" /\ pc'[s] = "withdraw" /\ activeFiber' = None /\ UNCHANGED settled
      \/ /\ pc[s] = "withdraw" /\ pc'[s] = "drop" /\ UNCHANGED <<activeFiber, settled>>
      \/ /\ pc[s] = "drop" /\ pc'[s] = "done" /\ UNCHANGED <<activeFiber, settled>>
  BY DEF Settle, ClearActive, Withdraw, DropLeftovers, Goto, TypeOK, fiberVars
<1>3. /\ Acting \subseteq Owning /\ {"settle", "clear", "withdraw"} \subseteq Owning
      /\ {"clear", "settle"} \subseteq Acting /\ {"withdraw", "drop", "done"} \cap Acting = {}
      /\ {"drop", "done"} \cap Owning = {} /\ Executing \subseteq Owning
      /\ Executing \cap {"settle", "clear", "withdraw", "drop", "done"} = {}
  BY DEF Acting, Owning, Executing
<1>4. pc[s] # "drop" => s = submissionCount /\ \A t \in Submissions : t # s => pc[t] \notin Owning
  BY <1>2, <1>3 DEF Fibres
<1>5. CASE pc[s] = "settle"
  <2>1. activeFiber = s /\ settled' = [sub |-> s, turns |-> progress]
    BY <1>2, <1>3, <1>5, Labels DEF Fibres
  <2>2. Fibres'
    BY <1>1, <1>2, <1>3, <1>4, <1>5, <2>1 DEF Fibres, LatestIsJoinable
  <2>3. /\ progress <= committed[s] /\ committed[s] <= progress + 1
        /\ cause[s] = "completed" => committed[s] = progress
    BY <1>5 DEF Tallied
  <2>4. SettledProgressIsOwn'
    BY <1>1, <2>1, <2>3 DEF SettledProgressIsOwn, TypeOK
  <2>5. Tallied'
    BY <1>1, <1>2, <1>3, <1>5, <2>4 DEF Tallied
  <2>6. Ends'
    BY <1>1, <1>2, <1>3, <1>5 DEF Ends, Releasing, Executing
  <2>7. QED
    BY <2>2, <2>5, <2>6
<1>6. CASE pc[s] # "settle"
  <2>1. UNCHANGED settled /\ pc'[s] \in {"withdraw", "drop", "done"}
    BY <1>2, <1>6
  <2>2. LatestIsJoinable'
    <3> SUFFICES ASSUME submissionCount # 0
                 PROVE  pc[submissionCount] # "claimed" => submissionCount \in {activeFiber', settled.sub}
      BY <1>1, <2>1, <1>2 DEF LatestIsJoinable, TypeOK, Submissions
    <3>1. CASE pc[s] = "clear"
      BY <1>4, <3>1 DEF Fibres
    <3>2. CASE pc[s] # "clear"
      BY <1>2, <1>6, <3>2 DEF Fibres, LatestIsJoinable
    <3>3. QED
      BY <3>1, <3>2
  <2>3. Fibres'
    BY <1>1, <1>2, <1>3, <1>4, <1>6, <2>1, <2>2 DEF Fibres, TypeOK
  <2>4. SettledProgressIsOwn'
    BY <1>1, <2>1 DEF Tallied, SettledProgressIsOwn
  <2>5. Tallied'
    BY <1>1, <1>3, <2>1, <2>4 DEF Tallied
  <2>6. Ends'
    BY <1>1, <1>2, <1>3, <2>1 DEF Ends, Releasing, Executing
  <2>7. QED
    BY <2>3, <2>5, <2>6
<1>7. QED
  BY <1>5, <1>6

\* Once the scope closes no fibre starts; the one that may be executing is the
\* active one, and it is the one the finalizer interrupts and awaits.
LEMMA SettlingOwner == ASSUME TypeOK, Settling, OwnerStep PROVE Settling'
<1> USE DEF Settling
<1>1. UNCHANGED <<submissionCount, activeFiber, settled, progress, committed, cause, terminal, pc>>
  BY DEF OwnerStep, BeginClose, FinalizerInterrupts, FinalizerCloses, ownerFrame, fiberVars,
     outcomeVars
<1>2. Fibres'
  BY <1>1 DEF Fibres, LatestIsJoinable
<1>3. Tallied'
  BY <1>1 DEF Tallied, SettledProgressIsOwn
<1>4. \/ owner'.pc = "closing"
      \/ owner' = [pc |-> "awaiting", target |-> activeFiber]
      \/ /\ owner.pc = "awaiting" /\ owner'.pc = "closed" /\ owner'.target = owner.target
         /\ owner.target # None => pc[owner.target] = "done"
  BY DEF OwnerStep, BeginClose, FinalizerInterrupts, FinalizerCloses, TypeOK
<1>5. \A s \in Submissions :
         /\ owner'.pc \in {"awaiting", "closed"} /\ pc[s] \in Executing => owner'.target = s
         /\ owner'.pc = "closed" => pc[s] \notin Executing
  <2> SUFFICES ASSUME NEW s \in Submissions, pc[s] \in Executing
               PROVE  /\ owner'.pc \in {"awaiting", "closed"} => owner'.target = s
                      /\ owner'.pc # "closed"
    OBVIOUS
  <2>1. activeFiber = s /\ pc[s] # "done"
    BY DEF Fibres, Acting, Executing
  <2>2. owner.pc = "awaiting" => owner.target = s
    BY DEF Ends
  <2>3. QED
    BY <1>4, <2>1, <2>2, Labels
<1>6. Ends'
  BY <1>1, <1>5 DEF Ends
<1>7. QED
  BY <1>2, <1>3, <1>6

LEMMA SettlingStep == IInv /\ Settling /\ [Next]_vars => Settling'
<1> SUFFICES ASSUME IInv, Settling, [Next]_vars PROVE Settling'
  OBVIOUS
<1>t. TypeOK
  BY DEF IInv
<1>1. ASSUME NEW s \in Submissions, FiberStep(s) PROVE Settling'
  BY <1>1, <1>t, SettlingQuiet, SettlingRegister, SettlingTurn, SettlingExit, SettlingRelease
     DEF FiberStep
<1>2. ASSUME NEW c \in Callers,
             CallerStep(c) \/ CallerLeaves(c) \/ \E op \in Kinds \cup {"interrupt"} : Ask(c, op)
      PROVE  Settling'
  <2>1. UNCHANGED <<settlingVars, pc>>
    BY <1>2 DEF CallerStep, Enter, Offer, AnnounceQueued, Hit, CallerLeaves, Ask, callerFrame,
       settlingVars, sessionVars, fiberVars, outcomeVars
  <2>2. QED
    BY <2>1, SettlingFrame
<1>3. ASSUME NEW s \in Submissions, Cancel(s) PROVE Settling'
  <2>1. UNCHANGED <<settlingVars, pc>>
    BY <1>3 DEF Cancel, callerFrame, settlingVars, sessionVars, fiberVars, outcomeVars
  <2>2. QED
    BY <2>1, SettlingFrame
<1>4. CASE UNCHANGED vars
  <2>1. UNCHANGED <<settlingVars, pc>>
    BY <1>4 DEF vars, settlingVars, sessionVars, fiberVars, outcomeVars
  <2>2. QED
    BY <2>1, SettlingFrame
<1>5. CASE Claim
  BY <1>5, SettlingClaim
<1>6. CASE OwnerStep
  BY <1>6, <1>t, SettlingOwner
<1>7. QED
  BY <1>1, <1>2, <1>3, <1>4, <1>5, <1>6 DEF Next, OwnerStep, Over

LEMMA SettlingInvariance == Spec => [](IInv /\ Settling)
BY SettlingInit, SettlingStep, InvInit, InvStep, PTL DEF Spec

-----------------------------------------------------------------------------
\* Whoever awaits the newest submission finds it, however fast it settled and
\* wherever its release is: `settledFiber` is written before `activeFiber` is
\* cleared, and only a later admission replaces either.
THEOREM SpecLatestIsJoinable == Spec => []LatestIsJoinable
<1>1. Settling => LatestIsJoinable
  BY DEF Settling, Fibres
<1>2. QED
  BY SettlingInvariance, <1>1, PTL

\* The progress retained is the settled submission's own, and short of its
\* committed turns by at most the one whose tally an interrupt prevented.
THEOREM SpecSettledProgressIsOwn == Spec => []SettledProgressIsOwn
<1>1. Settling => SettledProgressIsOwn
  BY DEF Settling, Tallied
<1>2. QED
  BY SettlingInvariance, <1>1, PTL

\* When SessionClosed is published every submission that ran has published its
\* end: the finalizer awaits the only fibre there can be.
THEOREM SpecClosedAfterTerminals == Spec => []ClosedAfterTerminals
<1>1. TypeOK /\ Settling => ClosedAfterTerminals
  <2> SUFFICES ASSUME TypeOK, Settling, owner.pc = "closed", NEW s \in Submissions,
                      pc[s] \notin {"none", "claimed"}, cause[s] # "stillborn"
               PROVE  terminal[s] # {}
    BY DEF ClosedAfterTerminals
  <2>1. pc[s] \in Releasing \cup {"done"}
    BY DEF Settling, Ends, TypeOK, PCs
  <2>2. QED
    BY <2>1 DEF Settling, Ends
<1>2. IInv => TypeOK
  BY DEF IInv
<1>3. QED
  BY SettlingInvariance, <1>1, <1>2, PTL

\* interrupt() decides and interrupts from one read of the active fibre, so it
\* never reaches the submission that has taken the session since its caller asked.
THEOREM SpecInterruptsStay == Spec => InterruptsStayWithTheirSubmission
<1>1. IInv /\ [Next]_vars =>
        [\A c \in Callers, s \in Submissions :
            interrupted'[s] /\ ~interrupted[s] /\ Hit(c) => caller[c].target = s]_vars
  <2> SUFFICES ASSUME TypeOK, NEW c \in Callers, NEW s \in Submissions,
                      interrupted'[s], ~interrupted[s], Hit(c)
               PROVE  caller[c].target = s
    BY DEF IInv
  <2>1. /\ activeFiber = caller[c].target
        /\ interrupted' = [interrupted EXCEPT ![activeFiber] = @ \/ pc[activeFiber] \in Executing]
    BY DEF Hit, Interrupt
  <2>2. QED
    BY <2>1 DEF TypeOK
<1>2. QED
  BY Invariance, <1>1, PTL DEF Spec, InterruptsStayWithTheirSubmission
=============================================================================
