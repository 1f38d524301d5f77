--------------------------- MODULE SqlSessionStore ---------------------------
(***************************************************************************)
(* The SQL session store (DurableSessionStore.ts, sqlStore) under several  *)
(* processes.  A transaction reads, decides, and writes with its           *)
(* precondition restated in the statement.  Under READ COMMITTED another   *)
(* transaction may commit between any two statements; "serial" is a        *)
(* database that runs one transaction at a time, as SQLite does.           *)
(*                                                                         *)
(* A write that matches its row keeps the row locked until the commit, so  *)
(* the statements from it to the commit are one step; after a write that   *)
(* matched nothing, every later statement is a step of its own.            *)
(*                                                                         *)
(* The workflows that use the store are external here: a run is dispatched *)
(* for a claim, asks, and is finished with what it committed, or with the  *)
(* history it started from when only its end marker is left.               *)
(***************************************************************************)
EXTENDS Naturals

CONSTANTS
    Clients,          \* processes with a connection
    Prompts, Keyed, Requests, Answers, NoPrompt,
    MaxSubmissions,   \* bound: submissions of the session
    MaxAsks           \* bound: elicitation rows ever inserted

ASSUME StoreAssumption ==
    /\ Keyed \subseteq Prompts
    /\ NoPrompt \notin Prompts
    /\ MaxSubmissions \in Nat
    /\ MaxAsks \in Nat

VARIABLES
    isolation,        \* "serial" or "readCommitted", fixed per deployment
    row, request,     \* the two tables
    txn,              \* the open transaction of each client
    asked,            \* elicitation rows inserted so far: the last row id
    running, started, \* submissions whose workflow runs; was dispatched
    granted,          \* claims returned as Claimed
    turnedBack,       \* a claim decided on an old count has landed
    acked             \* answers acknowledged, with the row they answered

tables  == <<row, request, asked>>
runVars == <<running, started>>
vars == <<isolation, turnedBack, tables, txn, runVars, granted, acked>>

\* The elicitation row also has an id, and the run that inserted it.
Store == INSTANCE SessionStore
           WITH request <- [r \in Requests |-> [state  |-> request[r].state,
                                                answer |-> request[r].answer]]

Submissions == Store!Submissions
NoClaim     == Store!NoClaim
NoAsk       == [state |-> "absent", answer |-> NoPrompt, id |-> 0, owner |-> 0]
NoneAsked   == [r \in Requests |-> NoAsk]
NoTxn       == [step |-> "idle", sub |-> 0, seen |-> NoClaim, history |-> 0,
                req |-> NoPrompt, id |-> 0, answer |-> NoPrompt]

Init ==
    /\ isolation \in {"serial", "readCommitted"}
    /\ row = Store!NoRow /\ request = NoneAsked /\ asked = 0
    /\ txn = [c \in Clients |-> NoTxn]
    /\ running = {} /\ started = {}
    /\ granted = {} /\ acked = {} /\ turnedBack = FALSE

-----------------------------------------------------------------------------
\* A client begins an operation when it has none open; a serial database makes
\* it wait for everybody else's.
Begins(c) ==
    /\ txn[c] = NoTxn
    /\ isolation = "serial" => \A d \in Clients : txn[d] = NoTxn

At(c, step)     == txn[c].step = step
Open(c, t)      == txn' = [txn EXCEPT ![c] = t]
GoOn(c, step)   == txn' = [txn EXCEPT ![c].step = step]
Return(c)       == txn' = [txn EXCEPT ![c] = NoTxn]

-----------------------------------------------------------------------------
\* INSERT ... WHERE NOT EXISTS, then the row is read back: theirs or ours.
getOrCreate(c) ==
    /\ Begins(c)
    /\ ~row.exists
    /\ row' = [row EXCEPT !.exists = TRUE]
    /\ UNCHANGED <<isolation, turnedBack, request, asked, txn, runVars, granted, acked>>

\* SELECT, then the shared admission decision.
claimRead(c, p) ==
    LET decision == Store!decide(row, p) IN
    /\ Begins(c)
    /\ \/ /\ decision.tag = "Open"
          /\ decision.ordinal \in Submissions
          /\ Open(c, [NoTxn EXCEPT !.step = "claimWrite",
                                   !.seen = Store!openClaim(decision.ordinal, p)])
          /\ UNCHANGED granted
       \/ /\ decision.tag = "Rejoin"
          /\ granted' = granted \cup {decision.holder}
          /\ UNCHANGED txn
    /\ UNCHANGED <<isolation, turnedBack, tables, runVars, acked>>

\* UPDATE ... WHERE claim IS NULL; on a match also the DELETE, and the commit.
claimWrite(c) ==
    LET mine == txn[c].seen IN
    /\ At(c, "claimWrite")
    /\ \/ /\ row.claim = NoClaim
          /\ row' = [row EXCEPT !.count = mine.sub, !.claim = mine]
          /\ request' = NoneAsked
          /\ granted' = granted \cup {mine}
          /\ turnedBack' = (turnedBack \/ mine.sub <= row.count)
          /\ Return(c)
       \/ /\ row.claim # NoClaim
          /\ GoOn(c, "claimReadBack")
          /\ UNCHANGED <<row, request, granted, turnedBack>>
    /\ UNCHANGED <<isolation, asked, runVars, acked>>

\* Did it land?  The read-back compares the submission id.
claimReadBack(c) ==
    /\ At(c, "claimReadBack")
    /\ IF row.claim.sub = txn[c].seen.sub THEN GoOn(c, "claimSweep") ELSE Return(c)
    /\ UNCHANGED <<isolation, turnedBack, tables, runVars, granted, acked>>

claimSweep(c) ==
    /\ At(c, "claimSweep")
    /\ request' = NoneAsked
    /\ granted' = granted \cup {txn[c].seen}
    /\ Return(c)
    /\ UNCHANGED <<isolation, turnedBack, row, asked, runVars, acked>>

\* External: the engine runs one execution per claim, whoever dispatches it.
Dispatch ==
    /\ row.claim # NoClaim /\ row.claim.sub \notin started
    /\ running' = running \cup {row.claim.sub}
    /\ started' = started \cup {row.claim.sub}
    /\ UNCHANGED <<isolation, turnedBack, tables, txn, granted, acked>>

attachRead(c, s) ==
    /\ Begins(c)
    /\ s \in started /\ row.claim.sub = s
    /\ Open(c, [NoTxn EXCEPT !.step = "attachWrite", !.sub = s, !.seen = row.claim])
    /\ UNCHANGED <<isolation, turnedBack, tables, runVars, granted, acked>>

\* Mutant: stamps the execution on whatever claim is there.
attachUnconditional(c) ==
    /\ At(c, "attachWrite")
    /\ row' = IF row.claim # NoClaim
              THEN [row EXCEPT !.claim.exec = txn[c].sub] ELSE row
    /\ Return(c)
    /\ UNCHANGED <<isolation, turnedBack, request, asked, runVars, granted, acked>>

\* UPDATE ... WHERE claim = <the text read>.
attachWrite(c) ==
    /\ At(c, "attachWrite")
    /\ row' = IF row.claim = txn[c].seen
              THEN [row EXCEPT !.claim = [txn[c].seen EXCEPT !.exec = txn[c].sub]]
              ELSE row
    /\ Return(c)
    /\ UNCHANGED <<isolation, turnedBack, request, asked, runVars, granted, acked>>

\* By the run's last activity (again after a replay) with what it committed, or
\* by a reconciliation that found only the end marker, with the history before.
finishRead(c, s, history) ==
    /\ Begins(c)
    /\ s \in started
    /\ history = s \/ (s \notin running /\ history = row.history)
    /\ running' = running \ {s}
    /\ \/ /\ row.claim.sub = s
          /\ Open(c, [NoTxn EXCEPT !.step = "finishWrite", !.sub = s,
                                   !.seen = row.claim, !.history = history])
       \/ row.claim.sub # s /\ UNCHANGED txn
    /\ UNCHANGED <<isolation, turnedBack, tables, started, granted, acked>>

\* Mutant: decides from the read and writes unconditionally.
finishUnconditional(c) ==
    /\ At(c, "finishWrite")
    /\ row' = [row EXCEPT !.claim = NoClaim, !.history = txn[c].history]
    /\ request' = NoneAsked
    /\ Return(c)
    /\ UNCHANGED <<isolation, turnedBack, asked, runVars, granted, acked>>

\* Mutant: the projection outlives the submission.
finishWithoutDelete(c) ==
    /\ At(c, "finishWrite")
    /\ IF row.claim = txn[c].seen
       THEN row' = [row EXCEPT !.claim = NoClaim, !.history = txn[c].history] /\ Return(c)
       ELSE UNCHANGED row /\ GoOn(c, "finishReadBack")
    /\ UNCHANGED <<isolation, turnedBack, request, asked, runVars, granted, acked>>

\* UPDATE ... WHERE claim = <the text read>; on a match also the DELETE.
finishWrite(c) ==
    /\ At(c, "finishWrite")
    /\ \/ /\ row.claim = txn[c].seen
          /\ row' = [row EXCEPT !.claim = NoClaim, !.history = txn[c].history]
          /\ request' = NoneAsked
          /\ Return(c)
       \/ /\ row.claim # txn[c].seen
          /\ GoOn(c, "finishReadBack")
          /\ UNCHANGED <<row, request>>
    /\ UNCHANGED <<isolation, turnedBack, asked, runVars, granted, acked>>

\* Landed, if nobody holds the session and the history is the one written.
finishReadBack(c) ==
    /\ At(c, "finishReadBack")
    /\ IF row.claim = NoClaim /\ row.history = txn[c].history
       THEN GoOn(c, "finishSweep") ELSE Return(c)
    /\ UNCHANGED <<isolation, turnedBack, tables, runVars, granted, acked>>

finishSweep(c) ==
    /\ At(c, "finishSweep")
    /\ request' = NoneAsked
    /\ Return(c)
    /\ UNCHANGED <<isolation, turnedBack, row, asked, runVars, granted, acked>>

-----------------------------------------------------------------------------
\* Mutant: asking again overwrites, an answer included.
addPendingOver(c, s, r) ==
    /\ Begins(c)
    /\ s \in running
    /\ asked < MaxAsks
    /\ asked' = asked + 1
    /\ request' = [request EXCEPT ![r] = [state |-> "pending", answer |-> NoPrompt,
                                          id |-> asked + 1, owner |-> s]]
    /\ UNCHANGED <<isolation, turnedBack, row, txn, runVars, granted, acked>>

\* The elicitation projection.  INSERT ... WHERE NOT EXISTS, one statement.
addPendingRequest(c, s, r) ==
    /\ Begins(c)
    /\ s \in running
    /\ request[r].state = "absent"
    /\ asked < MaxAsks
    /\ asked' = asked + 1
    /\ request' = [request EXCEPT ![r] = [state |-> "pending", answer |-> NoPrompt,
                                          id |-> asked + 1, owner |-> s]]
    /\ UNCHANGED <<isolation, turnedBack, row, txn, runVars, granted, acked>>

answerRead(c, r, a) ==
    /\ Begins(c)
    /\ request[r].state = "pending"
    /\ Open(c, [NoTxn EXCEPT !.step = "answerWrite", !.req = r, !.id = request[r].id,
                             !.answer = a])
    /\ UNCHANGED <<isolation, turnedBack, tables, runVars, granted, acked>>

\* Mutant: UPDATE ... WHERE id = <id>, the state not restated.
answerOver(c) ==
    LET t == txn[c] IN
    /\ At(c, "answerWrite")
    /\ IF request[t.req].id = t.id
       THEN /\ request' = [request EXCEPT ![t.req].state = "answered",
                                          ![t.req].answer = t.answer]
            /\ acked' = acked \cup {[id |-> t.id, answer |-> t.answer]}
       ELSE UNCHANGED <<request, acked>>
    /\ Return(c)
    /\ UNCHANGED <<isolation, turnedBack, row, asked, runVars, granted>>

\* UPDATE ... WHERE id = <id> AND state = 'pending', and the read-back that
\* reports whose answer survived.
answerWrite(c) ==
    LET t     == txn[c]
        same  == request[t.req].id = t.id
        after == IF same /\ request[t.req].state = "pending"
                 THEN [request EXCEPT ![t.req].state = "answered", ![t.req].answer = t.answer]
                 ELSE request
    IN  /\ At(c, "answerWrite")
        /\ request' = after
        /\ acked' = IF /\ after[t.req].id = t.id
                       /\ after[t.req].state = "answered" /\ after[t.req].answer = t.answer
                    THEN acked \cup {[id |-> t.id, answer |-> t.answer]} ELSE acked
        /\ Return(c)
        /\ UNCHANGED <<isolation, turnedBack, row, asked, runVars, granted>>

takeRead(c, r) ==
    /\ Begins(c)
    /\ request[r].state = "answered"
    /\ Open(c, [NoTxn EXCEPT !.step = "takeDelete", !.req = r, !.id = request[r].id])
    /\ UNCHANGED <<isolation, turnedBack, tables, runVars, granted, acked>>

\* DELETE ... WHERE id = <id> AND state = 'answered'.
takeDelete(c) ==
    LET t == txn[c] IN
    /\ At(c, "takeDelete")
    /\ request' = IF request[t.req].id = t.id /\ request[t.req].state = "answered"
                  THEN [request EXCEPT ![t.req] = NoAsk] ELSE request
    /\ Return(c)
    /\ UNCHANGED <<isolation, turnedBack, row, asked, runVars, granted, acked>>

\* Mutant: a removed row keeps a tombstone no reader knows.
removeTombstone(c, r) ==
    /\ Begins(c)
    /\ request[r].state = "pending"
    /\ request' = [request EXCEPT ![r] = [NoAsk EXCEPT !.state = "removed"]]
    /\ UNCHANGED <<isolation, turnedBack, row, asked, txn, runVars, granted, acked>>

removeRequest(c, r) ==
    /\ Begins(c)
    /\ request[r].state = "pending"
    /\ request' = [request EXCEPT ![r] = NoAsk]
    /\ UNCHANGED <<isolation, turnedBack, row, asked, txn, runVars, granted, acked>>

\* The connection or the process is lost before the commit: rolled back.
Rollback(c) ==
    /\ txn[c] # NoTxn
    /\ Return(c)
    /\ UNCHANGED <<isolation, turnedBack, tables, runVars, granted, acked>>

-----------------------------------------------------------------------------
SessionStep(c) ==
    \/ getOrCreate(c) \/ claimWrite(c) \/ claimReadBack(c) \/ claimSweep(c)
    \/ \E p \in Prompts : claimRead(c, p)
    \/ \E s \in Submissions : \/ attachRead(c, s)
                              \/ \E h \in 0 .. MaxSubmissions : finishRead(c, s, h)
    \/ attachWrite(c) \/ finishWrite(c) \/ finishReadBack(c) \/ finishSweep(c)

RequestStep(c) ==
    \/ \E r \in Requests : \/ \E s \in Submissions : addPendingRequest(c, s, r)
                           \/ \E a \in Answers : answerRead(c, r, a)
                           \/ takeRead(c, r) \/ removeRequest(c, r)
    \/ answerWrite(c) \/ takeDelete(c)

Next == Dispatch \/ \E c \in Clients : SessionStep(c) \/ RequestStep(c) \/ Rollback(c)

Spec == Init /\ [][Next]_vars

-----------------------------------------------------------------------------
(* Properties *)

ClaimRecord == [sub : Submissions \cup {0}, prompt : Prompts \cup {NoPrompt},
                key : Keyed \cup {NoPrompt}, exec : Submissions \cup {0}]

RowRecord == [exists : BOOLEAN, count : 0 .. MaxSubmissions, claim : ClaimRecord,
              history : 0 .. MaxSubmissions]

AskRecord == [state : {"absent", "pending", "answered"}, answer : Answers \cup {NoPrompt},
              id : 0 .. MaxAsks, owner : Submissions \cup {0}]

Steps == {"idle", "claimWrite", "claimReadBack", "claimSweep", "attachWrite", "finishWrite",
          "finishReadBack", "finishSweep", "answerWrite", "takeDelete"}

TxnRecord == [step : Steps, sub : Submissions \cup {0}, seen : ClaimRecord,
              history : 0 .. MaxSubmissions, req : Requests \cup {NoPrompt},
              id : 0 .. MaxAsks, answer : Answers \cup {NoPrompt}]

\* The shape of the tables and of every open transaction.
TypeOK ==
    /\ isolation \in {"serial", "readCommitted"}
    /\ row \in RowRecord
    /\ request \in [Requests -> AskRecord]
    /\ asked \in 0 .. MaxAsks
    /\ txn \in [Clients -> TxnRecord]
    /\ running \subseteq started /\ started \subseteq Submissions
    /\ granted \subseteq ClaimRecord /\ turnedBack \in BOOLEAN
    /\ acked \subseteq [id : 1 .. MaxAsks, answer : Answers]

\* On a serial database the SQL store does what the memory store does, operation
\* by operation: every commit is one of its steps, every other step changes nothing.
SerialImplementsMemory ==
    Store!StoreInit /\ [][isolation = "serial" => Store!StoreNext]_(Store!storeVars)

\* A claim is ended by its own submission's finish and by nothing else, whatever
\* commits between that finish's read and its write (finish, attachExecution).
ClaimEndsWithItsFinish ==
    [][row.claim # NoClaim /\ row'.claim.sub # row.claim.sub
       => \E c \in Clients : finishWrite(c) /\ txn[c].sub = row.claim.sub]_vars

\* An execution id is stamped on the claim it was dispatched for, never on the
\* claim a concurrent finish and claim put in its place (attachExecution).
ExecutionIsOwn == row.claim.exec \in {0, row.claim.sub}

\* Canonical history never goes back: a late finish, with an older history, of a
\* submission that has ended writes nothing (finish, reconcile's FinishEnded),
\* until a claim decided on an old count lands.  That one takes a number again,
\* and with it, after a rejoin's attach, the text a late finisher compares.
HistoryNeverRegresses == [][~turnedBack => row'.history >= row.history]_vars

\* An answer reported as accepted is the one recorded, and stays it: of two
\* answers to one question at most one payload is acknowledged (answerRequest).
AnswersAreFirstWins ==
    /\ \A x, y \in acked : x.id = y.id => x.answer = y.answer
    /\ \A r \in Requests, x \in acked :
          request[r].id = x.id => request[r].state = "answered" /\ request[r].answer = x.answer

\* Nothing of a finished submission's projection survives it, so no successor
\* meets a question or an answer under an id it is about to reuse (finish, claim).
QuestionsBelongToTheHolder ==
    \A r \in Requests : request[r].state # "absent" => request[r].owner = row.claim.sub

\* DurableSessionStore.ts:919-925: the read-back exists because "Returning
\* `Claimed` regardless would hand both the same submission."
NoSubmissionGrantedTwice ==
    \A x, y \in granted : x.sub = y.sub => x.prompt = y.prompt

\* DurableSessionStore.ts:268: finish is `false` "when the session's active claim
\* does not match, which means this outcome landed after another one already did."
FalseMeansSuperseded ==
    [][\A c \in Clients : finishReadBack(c) /\ txn'[c] = NoTxn
                          => row.claim.sub # txn[c].sub]_vars
=============================================================================
