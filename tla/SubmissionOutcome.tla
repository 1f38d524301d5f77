-------------------------- MODULE SubmissionOutcome --------------------------
(***************************************************************************)
(* What prompt and awaitSubmission return (AgentSession.ts, settle): a     *)
(* waiter joins the submission's fibre, and an interrupted outcome is      *)
(* built from a progress record, live or retained.  One waiter for each    *)
(* submission, over the whole of AgentSession.                             *)
(***************************************************************************)
EXTENDS AgentSession

VARIABLES
    waiter,    \* "none", "live" (joined through activeFiber or prompt), "answered"
    reported   \* turns an interrupted outcome claimed, per submission

outcome == <<waiter, reported>>

OutcomeInit ==
    /\ Init
    /\ waiter = [s \in Submissions |-> "none"]
    /\ reported = [s \in Submissions |-> {}]

Interruption(s) == cause[s] \in {"interrupted", "stillborn"}

Answer(s, turns) ==
    /\ waiter' = [waiter EXCEPT ![s] = "answered"]
    /\ reported' = IF Interruption(s)
                   THEN [reported EXCEPT ![s] = @ \cup {turns}] ELSE reported
    /\ UNCHANGED vars

\* prompt holds the fibre it forked; awaitSubmission finds it in activeFiber.
JoinActive(s) ==
    /\ waiter[s] = "none" /\ activeFiber = s
    /\ waiter' = [waiter EXCEPT ![s] = "live"]
    /\ UNCHANGED <<vars, reported>>

\* The fibre has exited and the waiter resumes; no copy was passed to settle,
\* so an interrupted outcome reads the session's live progress.
SettleLive(s) == waiter[s] = "live" /\ pc[s] = "done" /\ Answer(s, progress)

\* awaitSubmission joins the retained fibre, with the progress copied for it.
SettleRetained(s) ==
    /\ waiter[s] = "none" /\ activeFiber # s /\ settled.sub = s
    /\ pc[s] = "done"
    /\ Answer(s, settled.turns)

OutcomeNext ==
    \/ Next /\ UNCHANGED outcome
    \/ \E s \in Submissions : JoinActive(s) \/ SettleLive(s) \/ SettleRetained(s)

OutcomeSpec == OutcomeInit /\ [][OutcomeNext]_<<vars, outcome>>

\* An interrupted outcome reports its own submission's landed turns; the
\* tolerance is the turn caught between its commit and its tally.
InterruptedOutcomeIsOwn ==
    \A s \in Submissions : \A n \in reported[s] :
        n <= committed[s] /\ committed[s] <= n + 1
=============================================================================
