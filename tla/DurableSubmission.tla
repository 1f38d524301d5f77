-------------------------- MODULE DurableSubmission --------------------------
(***************************************************************************)
(* One durable session: the submission workflows that run it, the engine   *)
(* that journals and replays them, the channels they share with callers,   *)
(* and the clients that claim, dispatch, answer, interrupt and reconcile.  *)
(*                                                                         *)
(* The session store is SessionStore (row, request).  Submission s asks at *)
(* most one question, whose id is s.  The workflow's body is a program     *)
(* counter in memory, lost by a crash and by a suspension; what it does    *)
(* again afterwards is decided by the journal.                             *)
(***************************************************************************)
EXTENDS SessionStore, Sequences, SequencesExt

CONSTANTS
    Clients,          \* processes that hold a handle onto the session
    Refusal,          \* the answer an interruption gives to an open question
    MaxInputs,        \* bound: follow-ups ever accepted
    MaxInterrupts,    \* bound: submissions ever interrupted
    MaxFaults,        \* bound: crashes, lost clients and failed store writes
    Asking            \* the submissions whose model may ask for a tool that needs approval

ASSUME SubmissionAssumption ==
    /\ MaxSubmissions \in Nat \ {0} /\ MaxInputs \in Nat /\ MaxInterrupts \in Nat /\ MaxFaults \in Nat
    /\ Requests = Submissions /\ Refusal \in Answers /\ NoPrompt \notin Answers
    /\ Asking \subseteq Submissions

VARIABLES
    open,         \* whether the session's admission marker holds a row
    intents,      \* submissions whose interrupt signal holds a row
    rows,         \* the follow-up channel
    exec,         \* of each workflow execution, what the engine knows
    journal,      \* of each execution, the activities and answers recorded
    deferred,     \* of each question, the value its deferred was given
    mem,          \* of each execution, the body running in some process
    client,       \* of each client, the call it is in
    log,          \* of each execution, the terminal events it put in the delivery log
    faults,
    \* What was promised or happened, for the properties.
    accepted,     \* the submission a follow-up was accepted for
    asked,        \* submissions somebody interrupted
    acked,        \* of each question, the answers somebody was told are taken
    stored,       \* what the projection committed for each submission
    freed,        \* executions under way whose claim a reconciliation ended
    beside,       \* submissions claimed while a freed or interrupted run was under way
    reopened      \* submissions claimed when admission was opened behind a run that had closed it

durableVars == <<open, intents, rows, exec, journal, deferred>>
ghosts == <<accepted, asked, acked, stored, freed, beside, reopened>>
vars == <<storeVars, durableVars, mem, client, log, faults, ghosts>>

Unclaimed == <<0, 0>>
\* A body always starts from the top, with the submission's own prompt; a
\* restarted or resumed execution does so again, over what the journal holds.
Fresh == [pc |-> "calling", runs |-> 1, drains |-> 0, took |-> FALSE, batch |-> <<>>,
          pending |-> <<>>, applied |-> <<>>, held |-> "none"]
NoJournal == [models |-> <<>>, answer |-> NoPrompt, drains |-> <<>>, finished |-> "no"]
NoOutcome == [tag |-> "none", applied |-> <<>>, answer |-> NoPrompt]
NoCall == [pc |-> "idle", sub |-> 0, answer |-> NoPrompt]

Init ==
    /\ row = [NoRow EXCEPT !.exists = TRUE] /\ request = NothingAsked
    /\ open = FALSE /\ intents = {} /\ rows = {}
    /\ exec = [s \in Submissions |-> "none"]
    /\ journal = [s \in Submissions |-> NoJournal]
    /\ deferred = [s \in Submissions |-> NoPrompt]
    /\ mem = [s \in Submissions |-> Fresh]
    /\ client = [c \in Clients |-> NoCall]
    /\ log = [s \in Submissions |-> {}] /\ faults = 0
    /\ accepted = <<>> /\ asked = {} /\ freed = {} /\ beside = {} /\ reopened = {}
    /\ acked = [s \in Submissions |-> {}]
    /\ stored = [s \in Submissions |-> NoOutcome]

-----------------------------------------------------------------------------
(* The channel of follow-ups *)

\* Mutant: a second take under one claim forgets the first.
takableOnce(claimId) == { r \in rows : r.claim = Unclaimed }

\* A drain claims what nobody claimed, takes again what it claimed before, and
\* deletes what an earlier drain claimed.
takable(claimId) == { r \in rows : r.claim \in {Unclaimed, claimId} }
takeAll(claimId) == rows' = { [r EXCEPT !.claim = claimId] : r \in takable(claimId) }

\* A batch holds the values in the order they were offered.
batches(rs) ==
    LET values == { r.value : r \in rs }
    IN  { q \in [1 .. Cardinality(values) -> values] : \A i, j \in DOMAIN q : i < j => q[i] < q[j] }

\* offerIfOpen: the marker is read and the row written in one step.
followUp ==
    /\ open /\ Len(accepted) < MaxInputs
    /\ rows' = rows \union {[value |-> Len(accepted) + 1, claim |-> Unclaimed]}
    /\ accepted' = Append(accepted, row.claim.sub)
    /\ UNCHANGED <<storeVars, open, intents, exec, journal, deferred, mem, client, log, faults,
                   asked, acked, stored, freed, beside, reopened>>

-----------------------------------------------------------------------------
(* The workflow's body: AgentSession.prompt inside DurableSubmission.workflow *)

InRun == {"calling", "registering", "asking", "resumed", "removing",
          "draining", "closing", "closed", "reopening"}
Draining == {"draining", "closed", "releasing"}

At(s, pc) == exec[s] = "running" /\ mem[s].pc = pc
Goto(s, pc) == mem' = [mem EXCEPT ![s].pc = pc]
\* Mutant: what the submission ended with is not kept.
EndsSilently(s, tag) == Goto(s, "releasing")

Ends(s, tag) == mem' = [mem EXCEPT ![s].pc = "releasing", ![s].held = tag]

\* What a run does next when its model has spoken.
AfterRun(s) == IF mem[s].pending = <<>> THEN "draining" ELSE "reopening"
AfterModel(s, result) ==
    CASE result = "text"  -> Goto(s, AfterRun(s))
      [] result = "asks"  -> Goto(s, "registering")
      [] result = "fails" -> Ends(s, "failed")

Results(s) == {"text", "fails"} \union IF s \in Asking /\ mem[s].runs = 1 THEN {"asks"} ELSE {}

\* Mutant: the last answer of the model is not replayed.
ReplaysAllButLast(s) == mem[s].runs < Len(journal[s].models)

Replays(s) == mem[s].runs <= Len(journal[s].models)

ReplayModel(s) ==
    /\ At(s, "calling") /\ Replays(s)
    /\ AfterModel(s, journal[s].models[mem[s].runs])
    /\ UNCHANGED <<storeVars, durableVars, client, log, faults, ghosts>>

CallModel(s) ==
    /\ At(s, "calling") /\ ~Replays(s)
    /\ \E result \in Results(s) :
        /\ journal' = [journal EXCEPT ![s].models = Append(@, result)]
        /\ AfterModel(s, result)
    /\ UNCHANGED <<storeVars, open, intents, rows, exec, deferred, client, log, faults, ghosts>>

\* projectedElicitation: registered first, and again by every replay; the store
\* keeps what it has.
Register(s) ==
    /\ At(s, "registering")
    /\ Goto(s, "asking")
    /\ \/ addPendingRequest(s)
       \/ request[s] # Absent /\ UNCHANGED storeVars
    /\ UNCHANGED <<durableVars, client, log, faults, ghosts>>

\* The first observation of an answer is journalled; a replay sees that one.
Observe(s) ==
    /\ At(s, "asking") /\ deferred[s] # NoPrompt
    /\ journal' = [journal EXCEPT ![s].answer = IF @ = NoPrompt THEN deferred[s] ELSE @]
    /\ Goto(s, "resumed")
    /\ UNCHANGED <<storeVars, open, intents, rows, exec, deferred, client, log, faults, ghosts>>

\* Mutant: a suspension is recorded as an interruption.
ParkInterrupted(s) ==
    /\ At(s, "asking") /\ deferred[s] = NoPrompt
    /\ exec' = [exec EXCEPT ![s] = "parked"]
    /\ mem' = [mem EXCEPT ![s] = Fresh]
    /\ log' = [log EXCEPT ![s] = @ \union {"interrupted"}]
    /\ UNCHANGED <<storeVars, open, intents, rows, journal, deferred, client, faults, ghosts>>

\* Suspension interrupts the fibre.  The recorder stays silent, and the release
\* of the in-workflow session drains nothing.
Park(s) ==
    /\ At(s, "asking") /\ deferred[s] = NoPrompt
    /\ exec' = [exec EXCEPT ![s] = "parked"]
    /\ mem' = [mem EXCEPT ![s] = Fresh]
    /\ UNCHANGED <<storeVars, open, intents, rows, journal, deferred, client, log, faults, ghosts>>

Resume(s) ==
    /\ exec[s] = "parked" /\ deferred[s] # NoPrompt
    /\ exec' = [exec EXCEPT ![s] = "running"]
    /\ UNCHANGED <<storeVars, open, intents, rows, journal, deferred, mem, client, log, faults, ghosts>>

\* onResume: an intent found now wins over the answer.
CheckInterrupt(s) ==
    /\ At(s, "resumed")
    /\ IF s \in intents THEN Ends(s, "interrupted") ELSE Goto(s, "removing")
    /\ UNCHANGED <<storeVars, durableVars, client, log, faults, ghosts>>

Consume(s) ==
    /\ At(s, "removing")
    /\ \/ removeRequest(s)
       \/ request[s] # Pending /\ UNCHANGED storeVars
    /\ Goto(s, AfterRun(s))
    /\ UNCHANGED <<durableVars, client, log, faults, ghosts>>

\* Mutant: drains run outside the journal.
JournalledNever(s) == FALSE

\* A drain takes under a claim that names it, so that a re-execution after a
\* crash takes the same rows; afterwards the batch is journalled.
Journalled(s) == mem[s].drains < Len(journal[s].drains)

Take(s) ==
    /\ exec[s] = "running" /\ mem[s].pc \in Draining
    /\ ~Journalled(s) /\ ~mem[s].took
    /\ LET claimId == <<s, mem[s].drains>> IN
        /\ takeAll(claimId)
        /\ \E batch \in batches(takable(claimId)) :
            mem' = [mem EXCEPT ![s].took = TRUE, ![s].batch = batch]
    /\ UNCHANGED <<storeVars, open, intents, exec, journal, deferred, client, log, faults, ghosts>>

\* Where the submission goes with a drained batch.
AfterDrain(s, batch) ==
    LET pc == mem[s].pc
        pending == IF pc = "releasing" THEN <<>> ELSE batch   \* release drops it
        next == CASE pc = "releasing" -> "clearing"
                  [] pending # <<>> -> "reopening"
                  [] pc = "draining" /\ pending = <<>> -> "closing"
                  [] pc = "closed" /\ pending = <<>> -> "releasing"
    IN  mem' = [mem EXCEPT ![s].pc = next, ![s].drains = @ + 1,
                           ![s].took = FALSE, ![s].batch = <<>>, ![s].pending = pending,
                           ![s].held = IF pc = "closed" /\ pending = <<>> THEN "completed" ELSE @]

ReplayDrain(s) ==
    /\ exec[s] = "running" /\ mem[s].pc \in Draining /\ Journalled(s)
    /\ AfterDrain(s, journal[s].drains[mem[s].drains + 1])
    /\ UNCHANGED <<storeVars, durableVars, client, log, faults, ghosts>>

JournalDrain(s) ==
    /\ exec[s] = "running" /\ mem[s].took
    /\ journal' = [journal EXCEPT ![s].drains = Append(@, mem[s].batch)]
    /\ AfterDrain(s, mem[s].batch)
    /\ UNCHANGED <<storeVars, open, intents, rows, exec, deferred, client, log, faults, ghosts>>

\* session.admit: published by the body, outside the journal.
PublishClose(s) ==
    /\ At(s, "closing")
    /\ open' = FALSE
    /\ Goto(s, "closed")
    /\ UNCHANGED <<storeVars, intents, rows, exec, journal, deferred, client, log, faults, ghosts>>

\* The execution has closed admission, in this body or in one it replays.
PastClose(s) ==
    \/ exec[s] = "ended"
    \/ mem[s].pc \notin InRun \ {"closed"}
    \/ journal[s].drains # <<>> /\ Last(journal[s].drains) = <<>>

NextRun(s) ==
    /\ At(s, "reopening")
    /\ open' = TRUE
    /\ mem' = [mem EXCEPT ![s].pc = "calling", ![s].runs = @ + 1,
                          ![s].applied = Append(@, Head(mem[s].pending)),
                          ![s].pending = Tail(@)]
    /\ reopened' = reopened \union { t \in {row.claim.sub} : t # s \/ PastClose(s) }
    /\ UNCHANGED <<storeVars, intents, rows, exec, journal, deferred, client, log, faults,
                   accepted, asked, acked, stored, freed, beside>>

\* The poller peeks at the intent and interrupts through the session.
Interrupted(s) ==
    /\ exec[s] = "running" /\ mem[s].pc \in InRun /\ ~mem[s].took
    /\ s \in intents
    /\ Ends(s, "interrupted")
    /\ UNCHANGED <<storeVars, durableVars, client, log, faults, ghosts>>

-----------------------------------------------------------------------------
(* finishProjection, one activity over three writes, and what follows *)

ReportOf(s) == [tag |-> mem[s].held, applied |-> mem[s].applied, answer |-> journal[s].answer]

\* Nothing reads what the engine kept of an execution that has ended.
Ended(s) ==
    /\ exec' = [exec EXCEPT ![s] = "ended"]
    /\ mem' = [mem EXCEPT ![s] = Fresh]
    /\ journal' = [journal EXCEPT ![s] = NoJournal]
    /\ deferred' = [deferred EXCEPT ![s] = NoPrompt]
    /\ stored' = [stored EXCEPT ![s] = NoOutcome]
    /\ acked' = [acked EXCEPT ![s] = {}]
    /\ log' = [log EXCEPT ![s] = {}]
    /\ freed' = freed \ {s}

\* Mutant: the recorder is flushed before the projection.
ClearOpenFlushing(s) ==
    /\ At(s, "clearing") /\ journal[s].finished = "no"
    /\ open' = FALSE
    /\ Goto(s, "clearingIntent")
    /\ log' = [log EXCEPT ![s] = @ \union {mem[s].held}]
    /\ UNCHANGED <<storeVars, intents, rows, exec, journal, deferred, client, faults, ghosts>>

ClearOpen(s) ==
    /\ At(s, "clearing") /\ journal[s].finished = "no"
    /\ open' = FALSE
    /\ Goto(s, "clearingIntent")
    /\ UNCHANGED <<storeVars, intents, rows, exec, journal, deferred, client, log, faults, ghosts>>

ClearIntent(s) ==
    /\ At(s, "clearingIntent")
    /\ intents' = intents \ {s}
    /\ Goto(s, "finishing")
    /\ UNCHANGED <<storeVars, open, rows, exec, journal, deferred, client, log, faults, ghosts>>

\* A claim that has moved on is not an error: finish reports false, unread.
FinishClaim(s) ==
    /\ At(s, "finishing")
    /\ \/ /\ finish(s, s)
          /\ stored' = [stored EXCEPT ![s] = ReportOf(s)]
       \/ row.claim.sub # s /\ UNCHANGED <<storeVars, stored>>
    /\ Goto(s, "recording")
    /\ UNCHANGED <<durableVars, client, log, faults, accepted, asked, acked, freed, beside, reopened>>

\* The failure is journalled under the activity's name, so that the second
\* attempt of the catch path reads it back: the workflow ends as a failure.
FinishFails(s) ==
    /\ At(s, "finishing") /\ faults < MaxFaults
    /\ faults' = faults + 1
    /\ Ended(s)
    /\ UNCHANGED <<storeVars, open, intents, rows, client, accepted, asked, beside, reopened>>

JournalFinish(s) ==
    /\ At(s, "recording")
    /\ journal' = [journal EXCEPT ![s].finished = "ok"]
    /\ Goto(s, "flushing")
    /\ UNCHANGED <<storeVars, open, intents, rows, exec, deferred, client, log, faults, ghosts>>

ReplayFinish(s) ==
    /\ At(s, "clearing") /\ journal[s].finished = "ok"
    /\ Goto(s, "flushing")
    /\ UNCHANGED <<storeVars, durableVars, client, log, faults, ghosts>>

\* The event key names the submission and the tag; the log drops a duplicate.
FlushTerminal(s) ==
    /\ At(s, "flushing")
    /\ log' = [log EXCEPT ![s] = @ \union {mem[s].held}]
    /\ Goto(s, "ending")
    /\ UNCHANGED <<storeVars, durableVars, client, faults, ghosts>>

Complete(s) ==
    /\ At(s, "ending")
    /\ Ended(s)
    /\ UNCHANGED <<storeVars, open, intents, rows, client, faults, accepted, asked, beside, reopened>>

Crash(s) ==
    /\ exec[s] = "running" /\ mem[s] # Fresh /\ faults < MaxFaults
    /\ faults' = faults + 1
    /\ mem' = [mem EXCEPT ![s] = Fresh]
    /\ UNCHANGED <<storeVars, durableVars, client, log, ghosts>>

Body(s) ==
    \/ ReplayModel(s) \/ CallModel(s)
    \/ Register(s) \/ Observe(s) \/ Park(s) \/ Resume(s) \/ CheckInterrupt(s) \/ Consume(s)
    \/ Take(s) \/ ReplayDrain(s) \/ JournalDrain(s) \/ PublishClose(s) \/ NextRun(s)
    \/ Interrupted(s)
    \/ ClearOpen(s) \/ ClearIntent(s) \/ FinishClaim(s) \/ JournalFinish(s) \/ ReplayFinish(s)
    \/ FlushTerminal(s) \/ Complete(s)

-----------------------------------------------------------------------------
(* The clients *)

Call(c, pc, s, a) == client' = [client EXCEPT ![c] = [pc |-> pc, sub |-> s, answer |-> a]]
Step(c, pc) == client' = [client EXCEPT ![c].pc = pc]
Return(c) == client' = [client EXCEPT ![c] = NoCall]
In(c, pc) == client[c].pc = pc

StillUnderWay == { s \in freed \union asked : exec[s] \in {"running", "parked"} }

\* admit: a claim of one's own, or the one made under the same key before.
Prompt(c, p) ==
    /\ In(c, "idle")
    /\ \/ /\ claim(p)
          /\ Call(c, "opening", row'.claim.sub, NoPrompt)
          /\ reopened' = reopened \union { s \in {row'.claim.sub} : open }
          /\ beside' = beside \union { s \in {row'.claim.sub} : StillUnderWay # {} }
       \/ /\ decide(row, p).tag = "Rejoin" /\ row.claim.exec = 0
          /\ Call(c, "opening", row.claim.sub, NoPrompt)
          /\ UNCHANGED <<storeVars, beside, reopened>>
    /\ UNCHANGED <<durableVars, mem, log, faults, accepted, asked, acked, stored, freed>>

\* dispatch, in three writes: the marker, the engine, the claim.
OpenAdmission(c) ==
    LET s == client[c].sub IN
    /\ In(c, "opening")
    /\ open' = TRUE
    /\ reopened' = reopened \union { t \in {row.claim.sub} : t # s \/ PastClose(s) }
    /\ Step(c, "executing")
    /\ UNCHANGED <<storeVars, intents, rows, exec, journal, deferred, mem, log, faults,
                   accepted, asked, acked, stored, freed, beside>>

\* The engine starts an execution once, and rejoins it ever after.
Execute(c) ==
    LET s == client[c].sub IN
    /\ In(c, "executing")
    /\ exec' = [exec EXCEPT ![s] = IF @ = "none" THEN "running" ELSE @]
    /\ Step(c, "attaching")
    /\ UNCHANGED <<storeVars, open, intents, rows, journal, deferred, mem, log, faults, ghosts>>

Attach(c) ==
    LET s == client[c].sub IN
    /\ In(c, "attaching")
    /\ \/ attachExecution(s, s)
       \/ row.claim.sub # s /\ UNCHANGED storeVars
    /\ Return(c)
    /\ UNCHANGED <<durableVars, mem, log, faults, ghosts>>

\* Acquiring a handle: the record is read first, the rest of the evidence after.
Acquire(c) ==
    /\ In(c, "idle") /\ Held
    /\ Call(c, IF row.claim.exec = 0 THEN "opening" ELSE "gathering", row.claim.sub, NoPrompt)
    /\ UNCHANGED <<storeVars, durableVars, mem, log, faults, ghosts>>

hasEnded == ~open
\* Mutant: an answer is left to the client that recorded it.
recordedAnswersIgnored == {}

recordedAnswers == { r \in Requests : request[r].state = "answered" }

\* Recovery.classify, for a claim with an execution.
Classify(c) ==
    /\ In(c, "gathering")
    /\ \/ hasEnded /\ Step(c, "releasing")
       \/ /\ ~hasEnded
          /\ \/ \E r \in recordedAnswers : Call(c, "delivering", r, request[r].answer)
             \/ recordedAnswers = {} /\ Return(c)
    /\ UNCHANGED <<storeVars, durableVars, mem, log, faults, ghosts>>

\* FinishEnded: the claim is finished with the history its submission began with.
Release(c) ==
    LET s == client[c].sub IN
    /\ In(c, "releasing")
    /\ \/ /\ finish(s, row.history)
          /\ freed' = freed \union ({s} \ { t \in Submissions : exec[t] = "ended" })
       \/ row.claim.sub # s /\ UNCHANGED <<storeVars, freed>>
    /\ Return(c)
    /\ UNCHANGED <<durableVars, mem, log, faults, accepted, asked, acked, stored, beside, reopened>>

\* respond: recorded before the workflow is woken.
Respond(c, s, a) ==
    /\ In(c, "idle")
    /\ answerRequest(s, a)
    /\ acked' = [acked EXCEPT ![s] = @ \union {a}]
    /\ Call(c, "delivering", s, a)
    /\ UNCHANGED <<durableVars, mem, log, faults, accepted, asked, stored, freed, beside, reopened>>

\* Mutant: an answer is only good for waking a parked run.
AwaitedWhenParked(s) == exec[s] = "parked" /\ journal[s].answer = NoPrompt

\* deliverAnswer, addressed to the execution of the claim; a value the run has
\* observed stays, one it has not is overwritten.
Awaited(s) == exec[s] \in {"running", "parked"} /\ journal[s].answer = NoPrompt
Deliver(c) ==
    LET s == client[c].sub IN
    /\ In(c, "delivering")
    /\ \/ /\ row.claim.sub = s
          /\ deferred' = [deferred EXCEPT ![s] = IF Awaited(s) THEN client[c].answer ELSE @]
          /\ Step(c, "taking")
       \/ row.claim.sub # s /\ Return(c) /\ UNCHANGED deferred
    /\ UNCHANGED <<storeVars, open, intents, rows, exec, journal, mem, log, faults, ghosts>>

TakeDelivered(c) ==
    LET s == client[c].sub IN
    /\ In(c, "taking")
    /\ \/ takeAnswer(s)
       \/ request[s].state # "answered" /\ UNCHANGED storeVars
    /\ Return(c)
    /\ UNCHANGED <<durableVars, mem, log, faults, ghosts>>

\* interrupt: the claim is read, the intent recorded, open questions refused.
Interrupt(c) ==
    /\ In(c, "idle") /\ Held /\ row.claim.sub \notin asked
    /\ Cardinality(asked) < MaxInterrupts
    /\ Call(c, "signalling", row.claim.sub, NoPrompt)
    /\ asked' = asked \union {row.claim.sub}
    /\ UNCHANGED <<storeVars, durableVars, mem, log, faults, accepted, acked, stored, freed, beside, reopened>>

Signal(c) ==
    /\ In(c, "signalling")
    /\ intents' = intents \union {client[c].sub}
    /\ Step(c, "refusing")
    /\ UNCHANGED <<storeVars, open, rows, exec, journal, deferred, mem, log, faults, ghosts>>

Refuse(c) ==
    LET s == client[c].sub IN
    /\ In(c, "refusing")
    /\ \/ answerRequest(s, Refusal) /\ Call(c, "delivering", s, Refusal)
       \/ request[s] # Pending /\ UNCHANGED storeVars /\ Return(c)
    /\ UNCHANGED <<durableVars, mem, log, faults, ghosts>>

\* A process is lost in the middle of a call.
Lost(c) ==
    /\ ~In(c, "idle") /\ faults < MaxFaults
    /\ faults' = faults + 1
    /\ Return(c)
    /\ UNCHANGED <<storeVars, durableVars, mem, log, ghosts>>

UnderWay(c) ==
    \/ OpenAdmission(c) \/ Execute(c) \/ Attach(c) \/ Classify(c) \/ Release(c)
    \/ Deliver(c) \/ TakeDelivered(c) \/ Signal(c) \/ Refuse(c)

Next ==
    \/ followUp
    \/ \E s \in Submissions : Body(s) \/ FinishFails(s) \/ Crash(s)
    \/ \E c \in Clients :
        \/ \E p \in Prompts : Prompt(c, p)
        \/ Acquire(c) \/ UnderWay(c) \/ Lost(c) \/ Interrupt(c)
        \/ \E s \in Submissions, a \in Answers : Respond(c, s, a)


\* The engine runs what it was given and restarts what a crash stopped, a call
\* under way ends, and the application comes back for a session it left held.
Fairness ==
    /\ \A s \in Submissions : WF_vars(Body(s))
    /\ \A c \in Clients : WF_vars(UnderWay(c))
    /\ SF_vars(\E c \in Clients : Acquire(c))

Spec == Init /\ [][Next]_vars
FairSpec == Spec /\ Fairness

-----------------------------------------------------------------------------
(* Properties *)

TypeOK ==
    /\ row \in [exists : BOOLEAN, count : 0 .. MaxSubmissions, history : 0 .. MaxSubmissions,
                claim : [sub : Submissions, prompt : Prompts, key : Prompts \union {NoPrompt},
                         exec : {0} \union Submissions] \union {NoClaim}]
    /\ request \in [Requests -> {Absent, Pending} \union { Answered(a) : a \in Answers }]
    /\ open \in BOOLEAN /\ intents \subseteq asked /\ asked \subseteq Submissions
    /\ exec \in [Submissions -> {"none", "running", "parked", "ended"}]
    /\ deferred \in [Submissions -> Answers \union {NoPrompt}]
    /\ \A s \in Submissions : /\ log[s] \subseteq {"completed", "failed", "interrupted"}
                              /\ acked[s] \subseteq Answers
                              /\ (mem[s].pc \in InRun) = (mem[s].held = "none")
    /\ faults \in 0 .. MaxFaults /\ freed \subseteq Submissions
    /\ beside \subseteq Submissions /\ reopened \subseteq {0} \union Submissions

\* A reader who sees the terminal event of a submission finds the session free
\* of its claim: the recorder holds the event back until the projection is
\* through (DurableSubmission.ts flushTerminal after finishProjection).
TerminalAfterProjection == \A s \in Submissions : log[s] # {} => row.claim.sub # s

\* What the log says of a submission's end is one thing, however often its
\* journal is executed, and "interrupted" only if somebody asked: a suspension
\* interrupts the workflow's fibre just the same.  An interrupted submission may
\* show two ends: its projection consumes the intent, and a replay after that
\* runs to another.
OneEnding ==
    \A s \in Submissions : s \notin asked => Cardinality(log[s]) <= 1 /\ "interrupted" \notin log[s]

Completes(s) == exec[s] = "running" /\ exec'[s] = "ended" /\ mem[s].pc = "ending"

\* What a workflow reports is what its projection committed, however many
\* crashes and replays lie between the two (excepted as above).
ReportIsCommitted ==
    [][\A s \in Submissions \ asked :
        Completes(s) /\ stored[s] # NoOutcome => stored[s] = ReportOf(s)]_vars

\* An answer somebody was told is taken is never lost before the run has seen
\* one: it is in the store, or in the deferred the run waits on.
AnswersSurvive ==
    \A s \in Submissions : acked[s] # {} /\ row.claim.sub = s /\ exec[s] # "ended" =>
        \/ request[s].state = "answered" /\ request[s].answer \in acked[s]
        \/ deferred[s] # NoPrompt

\* A follow-up accepted for a submission nobody interrupted is part of the
\* history it completes with, unless the claim was freed under the run,
\* admission was opened behind a run that had closed it, or another run, freed
\* or interrupted, was still draining the channel beside it.
FollowUpsAreApplied ==
    [][\A s \in Submissions \ (asked \union freed \union beside \union reopened) :
        Completes(s) /\ mem[s].held = "completed" =>
            \A i \in DOMAIN accepted : accepted[i] = s => i \in ToSet(mem[s].applied)]_vars

\* A model is called only by the execution of the claim that is held: never
\* twice for one place in the run, and never after the history was projected,
\* but for the two cases named above.
OnlyTheHolderCallsTheModel ==
    [][\A s \in Submissions \ (asked \union freed) :
        Len(journal'[s].models) > Len(journal[s].models) => row.claim.sub = s]_vars

\* No crash, lost client or failed projection leaves a session claimed for
\* good, unless it waits for an answer nobody has given or admission was opened
\* behind a run that had closed it.
EveryClaimEnds == []<>(~Held \/ (\E r \in Requests : request[r] = Pending) \/ row.claim.sub \in reopened)
=============================================================================
