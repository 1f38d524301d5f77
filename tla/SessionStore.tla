---------------------------- MODULE SessionStore -----------------------------
(***************************************************************************)
(* What DurableSessionStore promises for one session: the in-memory store  *)
(* (memoryStoreWith), whose every operation is one Ref.modify.  The SQL    *)
(* store is checked against this module.                                   *)
(*                                                                         *)
(* A submission is its ordinal, a prompt is a model value, a history is    *)
(* the ordinal of the submission that wrote it (0: the initial one), and   *)
(* the execution id of a claim is the submission it was dispatched for.    *)
(***************************************************************************)
EXTENDS Naturals

CONSTANTS
    Prompts,          \* what is submitted; a keyed prompt is its own key
    Keyed,            \* the prompts submitted under an idempotency key
    Requests,         \* elicitation request ids, session-local
    Answers,          \* payloads of responses
    MaxSubmissions,   \* bound: submissions of the session
    NoPrompt          \* "no key", and the claim of a session nobody holds

Submissions == 1 .. MaxSubmissions

VARIABLES
    row,        \* the SessionRecord: exists, submissionCount, claim, history
    request     \* by request id: absent, pending, or answered with a payload

storeVars == <<row, request>>

NoClaim == [sub |-> 0, prompt |-> NoPrompt, key |-> NoPrompt, exec |-> 0]
Absent  == [state |-> "absent", answer |-> NoPrompt]
Pending == [state |-> "pending", answer |-> NoPrompt]
Answered(a)   == [state |-> "answered", answer |-> a]
NothingAsked  == [r \in Requests |-> Absent]

KeyOf(p) == IF p \in Keyed THEN p ELSE NoPrompt

\* A claim is held or the session is idle: claim and status are one record.
Held == row.claim # NoClaim

Adm == INSTANCE Admission WITH NoKey <- NoPrompt

slotOf(record) ==
    IF ~record.exists THEN Adm!MissingSlot
    ELSE IF record.claim # NoClaim THEN Adm!HeldSlot(record.claim, record.claim.key)
    ELSE Adm!IdleSlot(record.count)

decide(record, p) == Adm!admit(slotOf(record), KeyOf(p))

openClaim(ordinal, p) == [sub |-> ordinal, prompt |-> p, key |-> KeyOf(p), exec |-> 0]

NoRow == [exists |-> FALSE, count |-> 0, claim |-> NoClaim, history |-> 0]

StoreInit == row = NoRow /\ request = NothingAsked

-----------------------------------------------------------------------------
(* One action per operation that changes the store *)

getOrCreate ==
    /\ ~row.exists
    /\ row' = [row EXCEPT !.exists = TRUE]
    /\ UNCHANGED request

\* An idle session has nothing outstanding: leftovers of its ids are cleared.
claim(p) ==
    LET decision == decide(row, p) IN
    /\ decision.tag = "Open"
    /\ decision.ordinal \in Submissions
    /\ row' = [row EXCEPT !.count = decision.ordinal,
                          !.claim = openClaim(decision.ordinal, p)]
    /\ request' = NothingAsked

attachExecution(s, exec) ==
    /\ row.claim.sub = s /\ Held
    /\ row' = [row EXCEPT !.claim.exec = exec]
    /\ UNCHANGED request

finish(s, history) ==
    /\ row.claim.sub = s /\ Held
    /\ row' = [row EXCEPT !.claim = NoClaim, !.history = history]
    /\ request' = NothingAsked

\* First write wins, also over an answer already given.
addPendingRequest(r) ==
    /\ request[r] = Absent
    /\ request' = [request EXCEPT ![r] = Pending]
    /\ UNCHANGED row

answerRequest(r, a) ==
    /\ request[r] = Pending
    /\ request' = [request EXCEPT ![r] = Answered(a)]
    /\ UNCHANGED row

takeAnswer(r) ==
    /\ request[r].state = "answered"
    /\ request' = [request EXCEPT ![r] = Absent]
    /\ UNCHANGED row

removeRequest(r) ==
    /\ request[r] = Pending
    /\ request' = [request EXCEPT ![r] = Absent]
    /\ UNCHANGED row

StoreNext ==
    \/ getOrCreate
    \/ \E p \in Prompts : claim(p)
    \/ \E s \in Submissions : \/ attachExecution(s, s)
                              \/ \E h \in 0 .. MaxSubmissions : finish(s, h)
    \/ \E r \in Requests : \/ addPendingRequest(r) \/ takeAnswer(r) \/ removeRequest(r)
                           \/ \E a \in Answers : answerRequest(r, a)

StoreSpec == StoreInit /\ [][StoreNext]_storeVars
=============================================================================
