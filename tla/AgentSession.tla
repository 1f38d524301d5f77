---------------------------- MODULE AgentSession -----------------------------
(***************************************************************************)
(* One in-memory session: src/AgentSession.ts with the submission, run and *)
(* turn loops it drives (AgentSubmission.ts, AgentRun.ts, AgentTurn.ts).   *)
(*                                                                         *)
(* Processes: one fibre per admitted submission, Callers that steer, queue *)
(* follow-ups or interrupt, and the owner that closes the session's scope. *)
(* A fibre may be descheduled between any two effects, so an effect on     *)
(* shared state is a step; the inputGate permit and uninterruptible        *)
(* regions are what the code uses to make larger ones.  An emission that   *)
(* no property here reads is part of the neighbouring step.                *)
(*                                                                         *)
(* Abstracted: prompts are input numbers, canonical history is the number  *)
(* of committed turns of each submission, a turn's model and tool calls    *)
(* are one step, and of the event bus the model keeps what it let be seen: *)
(* the terminal events, the Queued announcements, the committed turns.     *)
(***************************************************************************)
EXTENDS Integers, Sequences, Functions

CONSTANTS
    Callers,          \* processes that steer, follow up and interrupt
    MaxSubmissions,   \* bound: submissions admitted
    MaxInputs,        \* bound: steering and follow-up inputs offered
    MaxTurns          \* bound: turns of one run (the loop policy's limit)

ASSUME SessionAssumption ==
    /\ MaxSubmissions \in Nat
    /\ MaxInputs \in Nat
    /\ MaxTurns \in Nat \ {0}
    /\ \A c \in Callers : c \notin 0 .. MaxSubmissions

Submissions == 1 .. MaxSubmissions
InputIds    == 1 .. MaxInputs
None        == 0          \* Option.none() of a submission or an input
Prompt      == -1         \* the input a submission is opened with
Kinds       == {"steer", "followUp"}

VARIABLES
    status,           \* SessionState.status
    submissionCount,  \* SessionState.submissionCount
    active,           \* SessionState.activeSubmissionId
    accepting,        \* acceptingSteering and acceptingFollowUps, by kind
    queue,            \* the two InputChannels, by kind
    gate,             \* who holds the inputGate permit; None when free
    activeFiber,      \* whose fibre `interrupt` would hit
    settled,          \* settledFiber: the last submission and its progress
    progress,         \* turns landed, of the submission that runs now
    pc, next, pending, batch, turn, steered,   \* locals of each fibre
    cause,            \* how each submission ended
    interrupted,      \* the runtime's pending-interrupt flag of each fibre
    committed,        \* turns of each submission in canonical history
    terminal,         \* terminal events published, per submission
    caller,           \* program counter and locals of each caller
    input, offered,   \* what became of each input; how many were offered
    owner             \* the session's finalizer

sessionVars == <<status, submissionCount, active, accepting>>
fiberVars   == <<activeFiber, settled, progress>>
localVars   == <<next, pending, batch, turn, steered>>
inputVars   == <<queue, input, offered>>
outcomeVars == <<cause, committed, terminal>>
vars == <<sessionVars, fiberVars, localVars, inputVars, outcomeVars,
          gate, pc, interrupted, caller, owner>>

Adm == INSTANCE Admission WITH NoKey <- None

-----------------------------------------------------------------------------
(* Program counters of a fibre.  Once `execute` has exited, the finalizers *)
(* (terminal event, release) cannot be interrupted.                        *)

Executing == {"iterate", "runStart", "boundary", "applying", "turn", "tally",
              "decide", "failing", "late", "lateApplying", "runEnd",
              "closeInput", "closeDrain", "shift", "completing"}
Releasing == {"settle", "clear", "withdraw", "drop"}
PCs       == {"none", "claimed", "done"} \cup Executing \cup Releasing
Owning    == {"claimed", "settle", "clear", "withdraw"} \cup Executing

Causes    == {"running", "completed", "failed", "interrupted", "stillborn"}
Terminals == {"SubmissionCompleted", "SubmissionFailed", "SubmissionInterrupted"}

NoInput     == [kind |-> "steer", sub |-> None, announced |-> FALSE,
                abandoned |-> FALSE, fate |-> "unused", by |-> None]
NoCall      == [pc |-> "idle", op |-> "steer", target |-> None, input |-> None]
Refusing    == [k \in Kinds |-> FALSE]
EmptyQueues == [k \in Kinds |-> <<>>]

Init ==
    /\ status = "idle" /\ submissionCount = 0 /\ active = None
    /\ accepting = Refusing
    /\ queue = EmptyQueues
    /\ gate = None
    /\ activeFiber = None /\ settled = [sub |-> None, turns |-> 0] /\ progress = 0
    /\ pc = [s \in Submissions |-> "none"]
    /\ next = [s \in Submissions |-> None]
    /\ pending = [s \in Submissions |-> <<>>]
    /\ batch = [s \in Submissions |-> <<>>]
    /\ turn = [s \in Submissions |-> 0]
    /\ steered = [s \in Submissions |-> FALSE]
    /\ cause = [s \in Submissions |-> "running"]
    /\ interrupted = [s \in Submissions |-> FALSE]
    /\ committed = [s \in Submissions |-> 0]
    /\ terminal = [s \in Submissions |-> {}]
    /\ caller = [c \in Callers |-> NoCall]
    /\ input = [i \in InputIds |-> NoInput] /\ offered = 0
    /\ owner = [pc |-> "open", target |-> None]

-----------------------------------------------------------------------------
(* Helpers *)

\* A fibre takes its next step only if no interrupt is pending.
At(s, label)   == pc[s] = label /\ ~interrupted[s]
Goto(s, label) == pc' = [pc EXCEPT ![s] = label]

\* Mutant: nobody waits for the permit.
GateIgnored == TRUE
GateFree == gate = None

\* Only a fibre that still executes can feel an interrupt.
Interrupt(s) == interrupted' = [interrupted EXCEPT ![s] = @ \/ pc[s] \in Executing]

\* The inputs of sequence q, taken off their channel by fibre s.
Taken(q, s, fate) ==
    [i \in InputIds |-> IF i \in Range(q)
                        THEN [input[i] EXCEPT !.fate = fate, !.by = s]
                        ELSE input[i]]

\* `execute` returns or unwinds: its terminal event, if it owes one, and the
\* end of its locals.
Exit(s, c, event) ==
    /\ cause' = [cause EXCEPT ![s] = c]
    /\ terminal' = [terminal EXCEPT ![s] = @ \cup event]
    /\ next' = [next EXCEPT ![s] = None]
    /\ pending' = [pending EXCEPT ![s] = <<>>]
    /\ batch' = [batch EXCEPT ![s] = <<>>]
    /\ turn' = [turn EXCEPT ![s] = 0]
    /\ steered' = [steered EXCEPT ![s] = FALSE]
    /\ Goto(s, "settle")

-----------------------------------------------------------------------------
(* Admission: startSubmission / admitResolved, run by the prompting caller *)

\* Mutant: only a closed session refuses.
claimSlotUnlessClosed ==
    IF status = "closed" THEN Adm!ClosedSlot ELSE Adm!IdleSlot(submissionCount)

claimSlot ==
    CASE status = "closed"  -> Adm!ClosedSlot
      [] status = "running" -> Adm!HeldSlot(active, None)
      [] status = "idle"    -> Adm!IdleSlot(submissionCount)

\* A local prompt carries no idempotency key.
Claim ==
    LET decision == Adm!admit(claimSlot, None)
        s        == decision.ordinal
    IN  /\ decision.tag = "Open"
        /\ s \in Submissions
        /\ status' = "running"
        /\ submissionCount' = s
        /\ active' = s
        /\ accepting' = [k \in Kinds |-> TRUE]
        /\ Goto(s, "claimed")
        /\ UNCHANGED <<fiberVars, localVars, inputVars, outcomeVars, gate,
                       interrupted, caller, owner>>

\* Mutant: a claim leaves the previous submission's progress in place.
RegisterOverOldProgress(s) ==
    /\ pc[s] = "claimed"
    /\ activeFiber' = s
    /\ IF owner.pc = "open"
       THEN Goto(s, "iterate") /\ UNCHANGED cause
       ELSE Goto(s, "done") /\ cause' = [cause EXCEPT ![s] = "stillborn"]
    /\ next' = [next EXCEPT ![s] = Prompt]
    /\ UNCHANGED <<sessionVars, settled, progress, pending, batch, turn, steered, inputVars,
                   committed, terminal, gate, interrupted, caller, owner>>

\* The rest of the uninterruptible admission: progress zeroed, the fibre forked
\* into the session's scope and registered.  A closed scope interrupts what is
\* forked into it before its first effect, so `ensuring(release)` never runs.
Register(s) ==
    /\ pc[s] = "claimed"
    /\ progress' = 0
    /\ activeFiber' = s
    /\ IF owner.pc = "open"
       THEN Goto(s, "iterate") /\ UNCHANGED cause
       ELSE Goto(s, "done") /\ cause' = [cause EXCEPT ![s] = "stillborn"]
    /\ next' = [next EXCEPT ![s] = Prompt]
    /\ UNCHANGED <<sessionVars, settled, pending, batch, turn, steered, inputVars,
                   committed, terminal, gate, interrupted, caller, owner>>

-----------------------------------------------------------------------------
(* AgentSubmission.execute: one iteration per run.  A run is opened by the *)
(* prompt, by a follow-up, or by steering the last run no longer looked at *)

Absorb(s) ==
    /\ At(s, "iterate")
    /\ input' = Taken(IF next[s] \in InputIds THEN <<next[s]>> ELSE <<>>, s, "applied")
    /\ next' = [next EXCEPT ![s] = None]
    /\ Goto(s, "runStart")
    /\ UNCHANGED <<sessionVars, fiberVars, pending, batch, turn, steered, queue, offered,
                   outcomeVars, gate, interrupted, caller, owner>>

TakeFollowUps(s) ==
    /\ GateFree
    /\ pending' = [pending EXCEPT ![s] = queue["followUp"]]
    /\ input' = Taken(queue["followUp"], s, "taken")
    /\ queue' = [queue EXCEPT !["followUp"] = <<>>]

\* RunCompleted, and the drain after it; an earlier batch is used up first.
EndRun(s) ==
    /\ At(s, "runEnd")
    /\ \/ pending[s] = <<>> /\ TakeFollowUps(s)
       \/ pending[s] # <<>> /\ UNCHANGED <<pending, input, queue>>
    /\ Goto(s, "closeInput")
    /\ UNCHANGED <<sessionVars, fiberVars, next, batch, turn, steered, offered,
                   outcomeVars, gate, interrupted, caller, owner>>

\* Mutant: the last look comes without closing admission first.
CloseInputLate(s) ==
    /\ At(s, "closeInput")
    /\ IF pending[s] = <<>> /\ ~steered[s] /\ accepting["followUp"]
       THEN Goto(s, "closeDrain") ELSE Goto(s, "shift")
    /\ UNCHANGED <<sessionVars, fiberVars, localVars, inputVars, outcomeVars, gate,
                   interrupted, caller, owner>>

\* Mutant: admission closes, and nothing looks again.
CloseInputBlindly(s) ==
    /\ At(s, "closeInput")
    /\ accepting' = [accepting EXCEPT !["followUp"] =
                        @ /\ (pending[s] # <<>> \/ steered[s])]
    /\ Goto(s, "shift")
    /\ UNCHANGED <<status, submissionCount, active, fiberVars, localVars, inputVars,
                   outcomeVars, gate, interrupted, caller, owner>>

\* Nothing left: stop accepting follow-ups before looking one last time.
CloseInput(s) ==
    /\ At(s, "closeInput")
    /\ IF pending[s] = <<>> /\ ~steered[s] /\ accepting["followUp"]
       THEN /\ accepting' = [accepting EXCEPT !["followUp"] = FALSE]
            /\ Goto(s, "closeDrain")
       ELSE Goto(s, "shift") /\ UNCHANGED accepting
    /\ UNCHANGED <<status, submissionCount, active, fiberVars, localVars, inputVars,
                   outcomeVars, gate, interrupted, caller, owner>>

\* The last look; late work re-opens follow-up admission.
CloseDrain(s) ==
    /\ At(s, "closeDrain")
    /\ TakeFollowUps(s)
    /\ accepting' = [accepting EXCEPT !["followUp"] = @ \/ queue["followUp"] # <<>>]
    /\ Goto(s, "shift")
    /\ UNCHANGED <<status, submissionCount, active, fiberVars, next, batch, turn, steered,
                   offered, outcomeVars, gate, interrupted, caller, owner>>

\* Mutant: pops the pending follow-ups from the wrong end.
NextRunNewest(s) ==
    /\ At(s, "shift")
    /\ pending[s] # <<>> \/ steered[s]
    /\ LET n == Len(pending[s]) IN
       IF n = 0 THEN UNCHANGED <<next, pending, accepting>>
       ELSE /\ next' = [next EXCEPT ![s] = pending[s][n]]
            /\ pending' = [pending EXCEPT ![s] = SubSeq(@, 1, n - 1)]
            /\ accepting' = [accepting EXCEPT !["followUp"] = TRUE]
    /\ Goto(s, "iterate")
    /\ UNCHANGED <<status, submissionCount, active, fiberVars, batch, turn, steered,
                   inputVars, outcomeVars, gate, interrupted, caller, owner>>

\* Another run; the oldest pending follow-up re-opens follow-up admission.
NextRun(s) ==
    /\ At(s, "shift")
    /\ \/ /\ pending[s] # <<>>
          /\ next' = [next EXCEPT ![s] = Head(pending[s])]
          /\ pending' = [pending EXCEPT ![s] = Tail(@)]
          /\ accepting' = [accepting EXCEPT !["followUp"] = TRUE]
       \/ /\ pending[s] = <<>> /\ steered[s]
          /\ UNCHANGED <<next, pending, accepting>>
    /\ Goto(s, "iterate")
    /\ UNCHANGED <<status, submissionCount, active, fiberVars, batch, turn, steered,
                   inputVars, outcomeVars, gate, interrupted, caller, owner>>

\* SubmissionCompleted is on the bus; its sink and observers still run inside
\* the emission, where the fibre can be interrupted.
Complete(s) ==
    /\ At(s, "shift")
    /\ pending[s] = <<>> /\ ~steered[s]
    /\ terminal' = [terminal EXCEPT ![s] = @ \cup {"SubmissionCompleted"}]
    /\ Goto(s, "completing")
    /\ UNCHANGED <<sessionVars, fiberVars, localVars, inputVars, cause, committed,
                   gate, interrupted, caller, owner>>

Finish(s) ==
    /\ At(s, "completing")
    /\ Exit(s, "completed", {})
    /\ UNCHANGED <<sessionVars, fiberVars, inputVars, committed, gate, interrupted,
                   caller, owner>>

-----------------------------------------------------------------------------
(* AgentRun.execute and AgentTurn.execute *)

\* Mutant: turns are counted from before the first one.
StartRunTooLow(s) ==
    /\ At(s, "runStart")
    /\ accepting' = [accepting EXCEPT !["steer"] = TRUE]
    /\ turn' = [turn EXCEPT ![s] = -1]
    /\ steered' = [steered EXCEPT ![s] = FALSE]
    /\ Goto(s, "boundary")
    /\ UNCHANGED <<status, submissionCount, active, fiberVars, next, pending, batch,
                   inputVars, outcomeVars, gate, interrupted, caller, owner>>

StartRun(s) ==
    /\ At(s, "runStart")
    /\ accepting' = [accepting EXCEPT !["steer"] = TRUE]
    /\ turn' = [turn EXCEPT ![s] = 0]
    /\ steered' = [steered EXCEPT ![s] = FALSE]
    /\ Goto(s, "boundary")
    /\ UNCHANGED <<status, submissionCount, active, fiberVars, next, pending, batch,
                   inputVars, outcomeVars, gate, interrupted, caller, owner>>

\* AgentTurn.applySteering, under the input gate from drain to announcement:
\* at every turn boundary, and once more after the loop has stopped.
TakeSteering(s, here, some, none) ==
    /\ At(s, here)
    /\ GateFree
    /\ IF queue["steer"] = <<>>
       THEN Goto(s, none) /\ UNCHANGED <<gate, batch, queue, input>>
       ELSE /\ gate' = s
            /\ batch' = [batch EXCEPT ![s] = queue["steer"]]
            /\ input' = Taken(queue["steer"], s, "taken")
            /\ queue' = [queue EXCEPT !["steer"] = <<>>]
            /\ Goto(s, some)
    /\ UNCHANGED <<sessionVars, fiberVars, next, pending, turn, steered, offered,
                   outcomeVars, interrupted, caller, owner>>

Boundary(s)  == TakeSteering(s, "boundary", "applying", "turn")
LateDrain(s) == TakeSteering(s, "late", "lateApplying", "runEnd")

\* Mutant: the permit is not returned after the announcement.
ApplySteeringWithPermit(s) ==
    /\ \/ At(s, "applying") /\ Goto(s, "turn") /\ UNCHANGED steered
       \/ /\ At(s, "lateApplying") /\ Goto(s, "runEnd")
          /\ steered' = [steered EXCEPT ![s] = TRUE]
    /\ input' = Taken(batch[s], s, "applied")
    /\ batch' = [batch EXCEPT ![s] = <<>>]
    /\ UNCHANGED <<sessionVars, fiberVars, next, pending, turn, queue, offered,
                   outcomeVars, gate, interrupted, caller, owner>>

ApplySteering(s) ==
    /\ \/ At(s, "applying") /\ Goto(s, "turn") /\ UNCHANGED steered
       \/ /\ At(s, "lateApplying") /\ Goto(s, "runEnd")
          /\ steered' = [steered EXCEPT ![s] = TRUE]
    /\ input' = Taken(batch[s], s, "applied")
    /\ batch' = [batch EXCEPT ![s] = <<>>]
    /\ gate' = None
    /\ UNCHANGED <<sessionVars, fiberVars, next, pending, turn, queue, offered,
                   outcomeVars, interrupted, caller, owner>>

\* Model and tools have answered.  One uninterruptible region: the history
\* commit and TurnCompleted.
CommitTurn(s) ==
    /\ At(s, "turn")
    /\ turn' = [turn EXCEPT ![s] = @ + 1]
    /\ committed' = [committed EXCEPT ![s] = @ + 1]
    /\ Goto(s, "tally")
    /\ UNCHANGED <<sessionVars, fiberVars, next, pending, batch, steered, inputVars,
                   cause, terminal, gate, interrupted, caller, owner>>

\* AgentRun records the landed turn after AgentTurn has returned.
Tally(s) ==
    /\ At(s, "tally")
    /\ progress' = progress + 1
    /\ Goto(s, "decide")
    /\ UNCHANGED <<sessionVars, activeFiber, settled, localVars, inputVars, outcomeVars,
                   gate, interrupted, caller, owner>>

\* loop.decide.  A Final decision is a Continue whose next decision is Stop.
Continue(s) ==
    /\ At(s, "decide")
    /\ turn[s] < MaxTurns
    /\ Goto(s, "boundary")
    /\ UNCHANGED <<sessionVars, fiberVars, localVars, inputVars, outcomeVars, gate,
                   interrupted, caller, owner>>

\* Steering admission closes before the last look at the channel.
Stop(s) ==
    /\ At(s, "decide")
    /\ GateFree
    /\ accepting' = [accepting EXCEPT !["steer"] = FALSE]
    /\ Goto(s, "late")
    /\ UNCHANGED <<status, submissionCount, active, fiberVars, localVars, inputVars,
                   outcomeVars, gate, interrupted, caller, owner>>

\* The turn or the loop policy fails, or is interrupted from within: RunFailed
\* or RunInterrupted, then the same cause fails the submission.
Break(s) ==
    /\ At(s, "turn") \/ At(s, "decide")
    /\ \E c \in {"failed", "interrupted"} : cause' = [cause EXCEPT ![s] = c]
    /\ Goto(s, "failing")
    /\ UNCHANGED <<sessionVars, fiberVars, localVars, inputVars, committed, terminal,
                   gate, interrupted, caller, owner>>

-----------------------------------------------------------------------------
(* Exit: the onExit terminal event and `release`, both finalizers *)

Fail(s) ==
    /\ At(s, "failing")
    /\ Exit(s, cause[s], {IF cause[s] = "interrupted" THEN "SubmissionInterrupted"
                                                      ELSE "SubmissionFailed"})
    /\ UNCHANGED <<sessionVars, fiberVars, inputVars, committed, gate, interrupted,
                   caller, owner>>

\* Mutant: an interrupted drain keeps the permit.
UnwindWithPermit(s) ==
    /\ pc[s] \in Executing /\ interrupted[s]
    /\ Exit(s, "interrupted", {"SubmissionInterrupted"})
    /\ interrupted' = [interrupted EXCEPT ![s] = FALSE]
    /\ UNCHANGED <<sessionVars, fiberVars, inputVars, committed, gate, caller, owner>>

\* A pending interrupt unwinds the fibre; a permit it held is returned.
Unwind(s) ==
    /\ pc[s] \in Executing /\ interrupted[s]
    /\ Exit(s, "interrupted", {"SubmissionInterrupted"})
    /\ gate' = IF gate = s THEN None ELSE gate
    /\ interrupted' = [interrupted EXCEPT ![s] = FALSE]
    /\ UNCHANGED <<sessionVars, fiberVars, inputVars, committed, caller, owner>>

\* Mutant: release forgets to retain the fibre it is about to clear.
SettleUnretained(s) ==
    /\ pc[s] = "settle"
    /\ Goto(s, "clear")
    /\ UNCHANGED <<sessionVars, fiberVars, localVars, inputVars, outcomeVars, gate,
                   interrupted, caller, owner>>

Settle(s) ==
    /\ pc[s] = "settle"
    /\ settled' = IF activeFiber # None
                  THEN [sub |-> activeFiber, turns |-> progress] ELSE settled
    /\ Goto(s, "clear")
    /\ UNCHANGED <<sessionVars, activeFiber, progress, localVars, inputVars, outcomeVars,
                   gate, interrupted, caller, owner>>

ClearActive(s) ==
    /\ pc[s] = "clear"
    /\ activeFiber' = None
    /\ Goto(s, "withdraw")
    /\ UNCHANGED <<sessionVars, settled, progress, localVars, inputVars, outcomeVars,
                   gate, interrupted, caller, owner>>

\* Mutant: release writes `idle` whatever the state was.
WithdrawAlwaysIdle(s) ==
    /\ pc[s] = "withdraw"
    /\ GateFree
    /\ gate' = s
    /\ status' = "idle"
    /\ active' = None
    /\ accepting' = Refusing
    /\ Goto(s, "drop")
    /\ UNCHANGED <<submissionCount, fiberVars, localVars, inputVars, outcomeVars,
                   interrupted, caller, owner>>

\* Mutant: the permit covers the write of the state but not the drains.
WithdrawUngated(s) ==
    /\ pc[s] = "withdraw"
    /\ GateFree
    /\ status' = IF status = "closed" THEN "closed" ELSE "idle"
    /\ active' = None
    /\ accepting' = Refusing
    /\ Goto(s, "drop")
    /\ UNCHANGED <<submissionCount, fiberVars, localVars, inputVars, outcomeVars, gate,
                   interrupted, caller, owner>>

\* Under the input gate: once the state is written the session is idle and can
\* be claimed again, while this fibre still holds the permit for its drains.
Withdraw(s) ==
    /\ pc[s] = "withdraw"
    /\ GateFree
    /\ gate' = s
    /\ status' = IF status = "closed" THEN "closed" ELSE "idle"
    /\ active' = None
    /\ accepting' = Refusing
    /\ Goto(s, "drop")
    /\ UNCHANGED <<submissionCount, fiberVars, localVars, inputVars, outcomeVars,
                   interrupted, caller, owner>>

DropLeftovers(s) ==
    /\ pc[s] = "drop"
    /\ input' = Taken(queue["steer"] \o queue["followUp"], s, "dropped")
    /\ queue' = EmptyQueues
    /\ gate' = None
    /\ Goto(s, "done")
    /\ UNCHANGED <<sessionVars, fiberVars, localVars, offered, outcomeVars, interrupted,
                   caller, owner>>

-----------------------------------------------------------------------------
(* steer, followUp and interrupt *)

callerFrame == <<sessionVars, fiberVars, localVars, pc, outcomeVars, owner>>

\* requireRunning: the caller now believes it addresses `active`.
Ask(c, op) ==
    /\ caller[c].pc = "idle"
    /\ status = "running"
    /\ caller' = [caller EXCEPT ![c] = [NoCall EXCEPT !.pc = "validated", !.op = op,
                                                      !.target = active]]
    /\ UNCHANGED <<callerFrame, inputVars, gate, interrupted>>

\* Mutant: any running submission will do.
someoneActive(c) == status = "running"

\* stillActive, under the permit.
stillActive(c) == status = "running" /\ active = caller[c].target

\* Take the permit; cleared to offer, or refused (AgentIdleError,
\* AgentClosedError).  MaxInputs bounds the inputs a behaviour offers.
Enter(c) ==
    /\ caller[c].pc = "validated"
    /\ caller[c].op \in Kinds
    /\ GateFree
    /\ IF stillActive(c) /\ accepting[caller[c].op] /\ offered < MaxInputs
       THEN gate' = c /\ caller' = [caller EXCEPT ![c].pc = "cleared"]
       ELSE caller' = [caller EXCEPT ![c] = NoCall] /\ UNCHANGED gate
    /\ UNCHANGED <<callerFrame, inputVars, interrupted>>

Offer(c) ==
    LET i    == offered + 1
        kind == caller[c].op
    IN  /\ caller[c].pc = "cleared"
        /\ offered' = i
        /\ input' = [input EXCEPT ![i] = [@ EXCEPT !.kind = kind, !.fate = "queued",
                                                   !.sub = caller[c].target]]
        /\ queue' = [queue EXCEPT ![kind] = Append(@, i)]
        /\ caller' = [caller EXCEPT ![c].pc = "offered", ![c].input = i]
        /\ UNCHANGED <<callerFrame, gate, interrupted>>

\* SteeringQueued or FollowUpQueued, still under the permit.
AnnounceQueued(c) ==
    /\ caller[c].pc = "offered"
    /\ input' = [input EXCEPT ![caller[c].input].announced = TRUE]
    /\ gate' = None
    /\ caller' = [caller EXCEPT ![c] = NoCall]
    /\ UNCHANGED <<callerFrame, queue, offered, interrupted>>

\* Mutant: a caller that leaves takes the permit with it.
CallerLeavesWithPermit(c) ==
    /\ caller[c].pc \in {"cleared", "offered"}
    /\ input' = IF caller[c].pc = "offered"
                THEN [input EXCEPT ![caller[c].input].abandoned = TRUE] ELSE input
    /\ caller' = [caller EXCEPT ![c] = NoCall]
    /\ UNCHANGED <<callerFrame, queue, offered, gate, interrupted>>

\* The calling fibre is interrupted, or the event sink fails its announcement:
\* the permit is returned, an input already offered stays in its channel.
CallerLeaves(c) ==
    /\ caller[c].pc \in {"cleared", "offered"}
    /\ input' = IF caller[c].pc = "offered"
                THEN [input EXCEPT ![caller[c].input].abandoned = TRUE] ELSE input
    /\ gate' = None
    /\ caller' = [caller EXCEPT ![c] = NoCall]
    /\ UNCHANGED <<callerFrame, queue, offered, interrupted>>

\* Mutant: interrupts whatever runs by now.
HitWhateverRuns(c) ==
    /\ caller[c].pc = "validated"
    /\ caller[c].op = "interrupt"
    /\ IF activeFiber # None THEN Interrupt(activeFiber) ELSE UNCHANGED interrupted
    /\ caller' = [caller EXCEPT ![c] = NoCall]
    /\ UNCHANGED <<callerFrame, inputVars, gate>>

\* interrupt: one read of activeFiber says which fibre, and whose.
Hit(c) ==
    /\ caller[c].pc = "validated"
    /\ caller[c].op = "interrupt"
    /\ IF activeFiber # None /\ activeFiber = caller[c].target
       THEN Interrupt(activeFiber) ELSE UNCHANGED interrupted
    /\ caller' = [caller EXCEPT ![c] = NoCall]
    /\ UNCHANGED <<callerFrame, inputVars, gate>>

\* prompt's caller goes away and interrupts the submission it started; a
\* closing scope interrupts its forks the same way, in its own time.
Cancel(s) ==
    /\ pc[s] \in Executing /\ ~interrupted[s]
    /\ Interrupt(s)
    /\ UNCHANGED <<callerFrame, inputVars, gate, caller>>

-----------------------------------------------------------------------------
(* The owner closes the scope: the finalizer ends the active submission    *)
(* before it announces the close.                                          *)

ownerFrame == <<submissionCount, active, accepting, fiberVars, localVars, inputVars,
                outcomeVars, caller, gate, pc>>

BeginClose ==
    /\ owner.pc = "open"
    /\ owner' = [owner EXCEPT !.pc = "closing"]
    /\ UNCHANGED <<ownerFrame, status, interrupted>>

FinalizerInterrupts ==
    /\ owner.pc = "closing"
    /\ owner' = [pc |-> "awaiting", target |-> activeFiber]
    /\ IF activeFiber # None THEN Interrupt(activeFiber) ELSE UNCHANGED interrupted
    /\ UNCHANGED <<ownerFrame, status>>

\* Mutant: closes without awaiting the fibre it interrupted.
FinalizerClosesAtOnce ==
    /\ owner.pc = "awaiting"
    /\ status' = "closed"
    /\ owner' = [owner EXCEPT !.pc = "closed"]
    /\ UNCHANGED <<ownerFrame, interrupted>>

\* The interrupted fibre, if there was one, has exited; status := closed and
\* SessionClosed.
FinalizerCloses ==
    /\ owner.pc = "awaiting"
    /\ owner.target # None => pc[owner.target] = "done"
    /\ status' = "closed"
    /\ owner' = [owner EXCEPT !.pc = "closed"]
    /\ UNCHANGED <<ownerFrame, interrupted>>

-----------------------------------------------------------------------------

FiberStep(s) ==
    \/ Register(s) \/ Absorb(s) \/ StartRun(s) \/ Boundary(s) \/ ApplySteering(s)
    \/ CommitTurn(s) \/ Tally(s) \/ Continue(s) \/ Stop(s) \/ LateDrain(s)
    \/ EndRun(s) \/ CloseInput(s) \/ CloseDrain(s) \/ NextRun(s) \/ Complete(s)
    \/ Break(s) \/ Fail(s) \/ Finish(s) \/ Unwind(s)
    \/ Settle(s) \/ ClearActive(s) \/ Withdraw(s) \/ DropLeftovers(s)

CallerStep(c) == Enter(c) \/ Offer(c) \/ AnnounceQueued(c) \/ Hit(c)

\* After SessionClosed and the last caller's answer nothing is left to do.
Over ==
    /\ owner.pc = "closed"
    /\ \A c \in Callers : caller[c].pc = "idle"
    /\ \A s \in Submissions : pc[s] \in {"none", "done"}
    /\ UNCHANGED vars

Next ==
    \/ Claim
    \/ \E s \in Submissions : FiberStep(s) \/ Cancel(s)
    \/ \E c \in Callers : \/ CallerStep(c) \/ CallerLeaves(c)
                          \/ \E op \in Kinds \cup {"interrupt"} : Ask(c, op)
    \/ BeginClose \/ FinalizerInterrupts \/ FinalizerCloses
    \/ Over

\* The runtime runs every runnable fibre: submissions, calls under way and a
\* finalizer that has begun.  The permit goes to its waiters in turn, so a wait
\* for it ends although others take it meanwhile.  Nobody is obliged to prompt,
\* call, leave or close.
TakesPermit(s) ==
    Boundary(s) \/ Stop(s) \/ LateDrain(s) \/ EndRun(s) \/ CloseDrain(s) \/ Withdraw(s)

Fairness ==
    /\ \A s \in Submissions : WF_vars(FiberStep(s)) /\ SF_vars(TakesPermit(s))
    /\ \A c \in Callers : WF_vars(CallerStep(c)) /\ SF_vars(Enter(c))
    /\ WF_vars(FinalizerInterrupts \/ FinalizerCloses)

Spec == Init /\ [][Next]_vars /\ Fairness

-----------------------------------------------------------------------------
(* Properties *)

InputRecord == [kind : Kinds, sub : Submissions \cup {None}, announced : BOOLEAN,
                abandoned : BOOLEAN, by : Submissions \cup {None},
                fate : {"unused", "queued", "taken", "applied", "dropped"}]

CallRecord == [pc : {"idle", "validated", "cleared", "offered"},
               op : Kinds \cup {"interrupt"}, target : Submissions \cup {None},
               input : InputIds \cup {None}]

\* The shape of the state: every counter, label and reference is in range.
TypeOK ==
    /\ status \in {"idle", "running", "closed"}
    /\ submissionCount \in 0 .. MaxSubmissions
    /\ active \in Submissions \cup {None}
    /\ accepting \in [Kinds -> BOOLEAN]
    /\ queue \in [Kinds -> Seq(InputIds)]
    /\ gate \in Submissions \cup Callers \cup {None}
    /\ activeFiber \in Submissions \cup {None}
    /\ settled \in [sub : Submissions \cup {None}, turns : Nat]
    /\ progress \in Nat
    /\ pc \in [Submissions -> PCs]
    /\ next \in [Submissions -> InputIds \cup {None, Prompt}]
    /\ pending \in [Submissions -> Seq(InputIds)]
    /\ batch \in [Submissions -> Seq(InputIds)]
    /\ turn \in [Submissions -> Nat]
    /\ steered \in [Submissions -> BOOLEAN]
    /\ cause \in [Submissions -> Causes]
    /\ interrupted \in [Submissions -> BOOLEAN]
    /\ committed \in [Submissions -> Nat]
    /\ terminal \in [Submissions -> SUBSET Terminals]
    /\ caller \in [Callers -> CallRecord]
    /\ input \in [InputIds -> InputRecord]
    /\ offered \in 0 .. MaxInputs
    /\ owner \in [pc : {"open", "closing", "awaiting", "closed"},
                  target : Submissions \cup {None}]

\* At most one submission owns the session: from its claim until its release
\* writes the state, a submission is the active one (AgentSession.ts, claim).
OneAtATime == \A s \in Submissions : pc[s] \in Owning => active = s

\* An input is applied or dropped by the submission its caller addressed, never
\* by a successor and never by a predecessor's release (stillActive, release).
InputsStayWithTheirSubmission ==
    \A i \in InputIds : input[i].by # None => input[i].by = input[i].sub

\* The permit is held through the windows it is taken for: from a caller's
\* check to its announcement, from a drain to what it announces or drops.
PermitHeld ==
    /\ \A c \in Callers : caller[c].pc \in {"cleared", "offered"} => gate = c
    /\ \A s \in Submissions : pc[s] \in {"applying", "lateApplying", "drop"} => gate = s

\* What a caller that holds the permit checked stays true until it offers.
SessionHeld ==
    /\ \A s \in Submissions : /\ pc[s] \in Owning => active = s /\ status # "idle"
                              /\ s > submissionCount => pc[s] = "none"
    /\ status = "running" => active # None
    /\ \A c \in Callers : caller[c].pc = "cleared" =>
          /\ status # "idle" /\ active # None /\ caller[c].target = active
          /\ caller[c].op \in Kinds /\ offered < MaxInputs

Addressed(q, s) == \A i \in Range(q) : input[i].sub = s
NoneDropping    == \A s \in Submissions : pc[s] # "drop"

\* Every input in a channel or in a fibre's locals is the holder's own: the one
\* that drops what is left, or else the active one.  An idle session has none.
Custody ==
    /\ \A k \in Kinds : /\ \A i \in Range(queue[k]) : input[i].sub # None
                        /\ NoneDropping => Addressed(queue[k], active)
                        /\ NoneDropping /\ status = "idle" => queue[k] = <<>>
    /\ \A s \in Submissions :
          /\ pc[s] = "drop" => \A k \in Kinds : Addressed(queue[k], s)
          /\ Addressed(pending[s], s) /\ Addressed(batch[s], s)
          /\ next[s] \in InputIds => input[next[s]].sub = s
    /\ \A i \in InputIds : i > offered => input[i].sub = None /\ input[i].by = None

\* The inputGate discipline as a whole (state.ts, inputGate): what the next
\* claim, drain or offer will find is already its own.
GateDiscipline == PermitHeld /\ SessionHeld /\ Custody

\* interrupt() cancels the submission its caller saw running, not the one that
\* has taken the session since (AgentSession.interrupt).
InterruptsStayWithTheirSubmission ==
    [][\A c \in Callers, s \in Submissions :
          interrupted'[s] /\ ~interrupted[s] /\ Hit(c) => caller[c].target = s]_vars

\* A submission that completes has applied everything it ever accepted: no
\* follow-up or steer is left behind by the closing drains.
CompletedMeansApplied ==
    \A s \in Submissions : "SubmissionCompleted" \in terminal[s] =>
        \A i \in InputIds : input[i].sub = s => input[i].fate = "applied"

\* Inputs of one kind are applied in the order they were queued, batches and
\* late arrivals included (AgentSubmission's pending, applySteering).
AppliedInOrder ==
    \A i, j \in InputIds :
        /\ i < j /\ input[j].fate = "applied"
        /\ input[i].kind = input[j].kind /\ input[i].sub = input[j].sub
        => input[i].fate = "applied"

\* SteeringQueued < SteeringApplied and FollowUpQueued < FollowUpApplied, for
\* every caller that stays to make its announcement (steer, followUp).
QueuedBeforeApplied ==
    \A i \in InputIds :
        input[i].fate = "applied" => input[i].announced \/ input[i].abandoned

\* awaitSubmission finds the newest submission however fast it settles: it is
\* the active fibre or the retained one (release, settledFiber).
LatestIsJoinable ==
    submissionCount # 0 /\ pc[submissionCount] # "claimed"
        => submissionCount \in {activeFiber, settled.sub}

\* The progress retained for a settled submission is its own: every committed
\* turn but possibly the one an interrupt caught between commit and tally.
SettledProgressIsOwn ==
    LET s == settled.sub IN
    s # None => /\ settled.turns <= committed[s]
                /\ committed[s] <= settled.turns + 1
                /\ cause[s] = "completed" => settled.turns = committed[s]

\* A closed session stays closed, also for a release that comes after the close.
ClosedIsFinal == [][status = "closed" => status' = "closed"]_vars

\* SessionClosed comes after the terminal event of every submission that ran.
ClosedAfterTerminals ==
    owner.pc = "closed" => \A s \in Submissions :
        pc[s] \notin {"none", "claimed"} /\ cause[s] # "stillborn" => terminal[s] # {}

\* What the bus lets be seen of submission s in this step.
Speaks(s) ==
    \/ terminal'[s] # terminal[s]
    \/ committed'[s] # committed[s]
    \/ \E i \in InputIds : /\ input[i].sub = s
                           /\ input'[i].announced /\ ~input[i].announced

\* After SubmissionCompleted a submission is not heard of again, but for an
\* interrupt that lands while the completion is being observed.
CompletionIsLastWord ==
    [][\A s \in Submissions :
          "SubmissionCompleted" \in terminal[s] /\ Speaks(s)
          => terminal'[s] = {"SubmissionCompleted", "SubmissionInterrupted"}]_vars

\* AgentSession.ts:1366, "The three events that end a submission; nothing of
\* that submission follows one."
NothingFollowsTerminal ==
    [][\A s \in Submissions : terminal[s] # {} => ~Speaks(s)]_vars

\* Every admitted submission settles: no drain, gate or release waits forever.
EverySubmissionSettles ==
    \A s \in Submissions : pc[s] = "claimed" ~> pc[s] = "done"

\* Every steer, followUp and interrupt under way is answered.
EveryCallIsAnswered ==
    \A c \in Callers : caller[c].pc = "validated" ~> caller[c].pc = "idle"

\* Closing the scope always reaches SessionClosed.
CloseCompletes == owner.pc = "closing" ~> owner.pc = "closed"
=============================================================================
