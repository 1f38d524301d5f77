----------------------------- MODULE ToolExecution -----------------------------
(***************************************************************************)
(* The tool calls of one model response (ToolExecution.execute): the calls  *)
(* that are refused unrun, and the ones dispatched under the per-name       *)
(* limits, the ceiling and the host's scheduling, each announced, decided,  *)
(* perhaps approved by somebody, run, and settled, while a failing sibling  *)
(* or an interrupted submission may cut it anywhere.                        *)
(*                                                                         *)
(* An emission is two steps: waiting for the bus, where an interruption     *)
(* loses the event, and being observed, where it does not.  A handler       *)
(* returns, fails or dies as it likes; whether its failure goes back to the *)
(* model or raises is the policies', and free.                              *)
(***************************************************************************)
EXTENDS Naturals, Sequences, FiniteSets

CONSTANTS
    Calls,        \* the positions of the calls in the response
    NameOf,       \* the tool each one names
    Limit,        \* how many calls of a name may run (Effect.all's concurrency)
    Total,        \* the ceiling over all names; Cardinality(Calls) for none
    Containers,   \* the calls whose work is other tool calls
    HostMax,      \* ToolScheduling.maxConcurrent of the deployment
    MaxNested     \* bound: nested calls a container makes

ASSUME ToolAssumption ==
    /\ Calls \subseteq Nat /\ IsFiniteSet(Calls) /\ Containers \subseteq Calls
    /\ Limit \in [{ NameOf[c] : c \in Calls } -> Nat \ {0}]
    /\ Total \in Nat \ {0} /\ HostMax \in Nat \ {0} /\ MaxNested \in Nat

VARIABLES
    hidden,     \* calls refused by name, or all of them when one must be alone
    pc,         \* where each call is
    shown,      \* of each call, the events subscribers were shown
    raising,    \* calls whose settlement fails the batch
    waiting,    \* the questions registered with the elicitor
    answer,     \* of each question, the answer it was given
    nested,     \* of each container, the calls it has made
    batch,      \* running, or cut: failing or interrupted; then ended
    silent,     \* calls that ended where nothing announces the end
    orphaned    \* questions whose asker was cut while it announced them

vars == <<hidden, pc, shown, raising, waiting, answer, nested, batch, silent, orphaned>>

\* What a call in each of these steps is about to show, and where that leads.
Says == [starting |-> "Started", asking |-> "Requested", resolving |-> "Resolved",
         settling |-> "Settled", cutting |-> "Interrupted"]
Said == [starting |-> "started", asking |-> "asked", resolving |-> "resolved",
         settling |-> "settled", cutting |-> "over"]

Init ==
    /\ hidden \in SUBSET Calls
    /\ pc = [c \in Calls |-> "none"]
    /\ shown = [c \in Calls |-> <<>>]
    /\ raising = {} /\ waiting = {} /\ answer = [c \in Calls |-> "none"]
    /\ nested = [c \in Calls |-> 0]
    /\ batch = "running" /\ silent = {} /\ orphaned = {}

Goto(c, step) == pc' = [pc EXCEPT ![c] = step]
Moves(c, from, to) == pc[c] = from /\ Goto(c, to)

-----------------------------------------------------------------------------
(* What holds a call back: its name's limit, the ceiling, the host *)

group(c) == { d \in Calls \ hidden : NameOf[d] = NameOf[c] }

TakeSlot(c) ==
    /\ batch = "running" /\ c \notin hidden
    /\ \A d \in hidden : pc[d] = "over"
    /\ \A d \in group(c) : d < c => pc[d] # "none"
    /\ Cardinality({ d \in group(c) : pc[d] \notin {"none", "over"} }) < Limit[NameOf[c]]
    /\ Moves(c, "none", "queued")
    /\ UNCHANGED <<hidden, shown, raising, waiting, answer, nested, batch, silent, orphaned>>

TakeCeiling(c) ==
    /\ Cardinality({ d \in Calls \ hidden : pc[d] \notin {"none", "queued", "over"} }) < Total
    /\ Moves(c, "queued", "ceiled")
    /\ UNCHANGED <<hidden, shown, raising, waiting, answer, nested, batch, silent, orphaned>>

\* Mutant: a container is held back like any call.
scheduledAll(c) == TRUE

\* A container is not held back; its nested calls are.
scheduled(c) == c \notin Containers

hostHolders ==
    { c \in Calls \ hidden : \/ scheduled(c) /\ pc[c] \notin {"none", "queued", "ceiled", "over"}
                             \/ pc[c] = "nesting" }
hostFree == Cardinality(hostHolders) < HostMax

TakeHost(c) ==
    /\ scheduled(c) => hostFree
    /\ Moves(c, "ceiled", "starting")
    /\ UNCHANGED <<hidden, shown, raising, waiting, answer, nested, batch, silent, orphaned>>

\* The refused calls are announced and settled one after the other, first.
RefuseNext(c) ==
    /\ batch = "running" /\ c \in hidden
    /\ \A d \in hidden : d < c => pc[d] = "over"
    /\ Moves(c, "none", "starting")
    /\ UNCHANGED <<hidden, shown, raising, waiting, answer, nested, batch, silent, orphaned>>

-----------------------------------------------------------------------------
(* executeOne *)

\* EventBus.emit, up to its observers.
Emit(c) ==
    /\ pc[c] \in DOMAIN Says
    /\ shown' = [shown EXCEPT ![c] = Append(@, Says[pc[c]])]
    /\ Goto(c, Said[pc[c]])
    /\ UNCHANGED <<hidden, raising, waiting, answer, nested, batch, silent, orphaned>>

Started(c) ==
    /\ Moves(c, "started", IF c \in hidden THEN "settling" ELSE "deciding")
    /\ UNCHANGED <<hidden, shown, raising, waiting, answer, nested, batch, silent, orphaned>>

\* The end of a call that settles, and whether it will raise.
Settles(c) ==
    /\ raising' \in {raising, raising \union {c}}
    /\ Goto(c, "settling")

fails == IF batch = "running" THEN "failing" ELSE batch

\* decide allows the call (or leaves bad parameters to the handler), or denies it.
Decide(c) ==
    /\ pc[c] = "deciding"
    /\ \/ Goto(c, "running") /\ UNCHANGED raising
       \/ Settles(c)
    /\ UNCHANGED <<hidden, shown, waiting, answer, nested, batch, silent, orphaned>>

\* A policy or a projection that dies raises at once, and so does a call whose
\* handler ends without any result.
Dies(c) ==
    /\ pc[c] \in {"deciding", "running"}
    /\ Goto(c, "over")
    /\ silent' = silent \union {c}
    /\ batch' = fails
    /\ UNCHANGED <<hidden, shown, raising, waiting, answer, nested, orphaned>>

\* Mutant: the question is announced before it is registered.
AskAnnouncing(c) ==
    /\ Moves(c, "deciding", "asking")
    /\ UNCHANGED <<hidden, shown, raising, waiting, answer, nested, batch, silent, orphaned>>

\* elicit: registered, then announced, then awaited.
Ask(c) ==
    /\ Moves(c, "deciding", "asking")
    /\ waiting' = waiting \union {c}
    /\ UNCHANGED <<hidden, shown, raising, answer, nested, batch, silent, orphaned>>

Wait(c) ==
    /\ Moves(c, "asked", "waiting")
    /\ UNCHANGED <<hidden, shown, raising, waiting, answer, nested, batch, silent, orphaned>>

Answered(c) ==
    /\ answer[c] # "none"
    /\ Moves(c, "waiting", "resolving")
    /\ waiting' = waiting \ {c}
    /\ UNCHANGED <<hidden, shown, raising, answer, nested, batch, silent, orphaned>>

Resolved(c) ==
    /\ pc[c] = "resolved"
    /\ \/ answer[c] = "granted" /\ Goto(c, "running") /\ UNCHANGED raising
       \/ answer[c] = "refused" /\ Settles(c)
    /\ UNCHANGED <<hidden, shown, waiting, answer, nested, batch, silent, orphaned>>

\* The handler's stream has ended, in a result, a failure or a defect.
Handle(c) ==
    /\ pc[c] = "running"
    /\ Settles(c)
    /\ UNCHANGED <<hidden, shown, waiting, answer, nested, batch, silent, orphaned>>

NestQueue(c) ==
    /\ c \in Containers /\ nested[c] < MaxNested
    /\ Moves(c, "running", "nestQueued")
    /\ nested' = [nested EXCEPT ![c] = @ + 1]
    /\ UNCHANGED <<hidden, shown, raising, waiting, answer, batch, silent, orphaned>>

NestTake(c) ==
    /\ hostFree
    /\ Moves(c, "nestQueued", "nesting")
    /\ UNCHANGED <<hidden, shown, raising, waiting, answer, nested, batch, silent, orphaned>>

NestReturn(c) ==
    /\ Moves(c, "nesting", "running")
    /\ UNCHANGED <<hidden, shown, raising, waiting, answer, nested, batch, silent, orphaned>>

Settled(c) ==
    /\ Moves(c, "settled", "over")
    /\ batch' = IF c \in raising THEN fails ELSE batch
    /\ UNCHANGED <<hidden, shown, raising, waiting, answer, nested, silent, orphaned>>

-----------------------------------------------------------------------------
(* Interruption, answers, and the end of the batch *)

\* Mutant: the handler alone announces its interruption.
handlerOnly == {"running", "nestQueued", "nesting"}

\* The steps that carry announceInterrupted: the decision and the handler.
announcing == {"deciding", "asking", "asked", "waiting", "resolving", "resolved",
               "running", "nestQueued", "nesting"}

\* A failed sibling or the submission's interruption reaches the call; the
\* wait is unregistered by its finalizer, which covers nothing before it.
Cut(c) ==
    /\ batch \in {"failing", "interrupted"} /\ pc[c] \notin {"none", "cutting", "over"}
    /\ Goto(c, IF pc[c] \in announcing THEN "cutting" ELSE "over")
    /\ waiting' = IF pc[c] = "waiting" THEN waiting \ {c} ELSE waiting
    /\ orphaned' = IF pc[c] \in {"asking", "asked"} THEN orphaned \union {c} ELSE orphaned
    /\ silent' = IF pc[c] \in {"started", "settling"} THEN silent \union {c} ELSE silent
    /\ UNCHANGED <<hidden, shown, raising, answer, nested, batch>>

Interrupt ==
    /\ batch = "running"
    /\ batch' = "interrupted"
    /\ UNCHANGED <<hidden, pc, shown, raising, waiting, answer, nested, silent, orphaned>>

\* respond: true to the first answer of a registered question.
Respond(c, granted) ==
    /\ c \in waiting /\ answer[c] = "none"
    /\ answer' = [answer EXCEPT ![c] = granted]
    /\ UNCHANGED <<hidden, pc, shown, raising, waiting, nested, batch, silent, orphaned>>

End ==
    /\ batch # "ended"
    /\ \A c \in Calls : pc[c] = "over" \/ (pc[c] = "none" /\ batch # "running")
    /\ batch' = "ended"
    /\ UNCHANGED <<hidden, pc, shown, raising, waiting, answer, nested, silent, orphaned>>

Step(c) ==
    \/ TakeSlot(c) \/ TakeCeiling(c) \/ TakeHost(c) \/ RefuseNext(c)
    \/ Emit(c) \/ Started(c) \/ Wait(c) \/ Answered(c) \/ Resolved(c) \/ Settled(c)
    \/ Decide(c) \/ Dies(c) \/ Ask(c)
    \/ Handle(c) \/ NestQueue(c) \/ NestTake(c) \/ NestReturn(c)
    \/ Cut(c)

Next ==
    \/ \E c \in Calls : Step(c) \/ \E granted \in {"granted", "refused"} : Respond(c, granted)
    \/ Interrupt
    \/ End

\* Fibres are scheduled, and a handler ends; nobody has to answer a question.
Fairness == WF_vars(End) /\ \A c \in Calls : WF_vars(Step(c))
Spec == Init /\ [][Next]_vars /\ Fairness

-----------------------------------------------------------------------------
(* Properties *)

terminals(c) == { i \in DOMAIN shown[c] : shown[c][i] \in {"Settled", "Interrupted"} }

\* Whatever cuts it, a call shows ToolCallStarted first and one terminal event
\* last (executeOne: "ToolCallStarted owes a terminal event"), but for the ends
\* nothing announces: a decision that dies, a handler without a result, a cut
\* while the start is observed, and one while the settlement waits for the bus.
OneTerminalEvent ==
    \A c \in Calls :
        /\ shown[c] # <<>> => shown[c][1] = "Started"
        /\ \A i \in terminals(c) : i = Len(shown[c])
        /\ pc[c] = "over" /\ shown[c] # <<>> /\ c \notin silent => terminals(c) # {}

\* A question subscribers were shown can be answered for as long as its call
\* may still hear it, and nothing is listed as waiting once its call has moved
\* on, but for a call cut while it announced the question.
QuestionsAreAnswerable ==
    /\ \A c \in Calls : pc[c] \in {"asked", "waiting"} => c \in waiting
    /\ \A c \in waiting \ orphaned : pc[c] \in {"asking", "asked", "waiting"}

\* Limits, ceiling, host scheduling and nested calls never wait on each other:
\* every batch ends, unless a question of it is left unanswered.
EveryBatchEnds ==
    []<>(batch = "ended" \/ \E c \in Calls : pc[c] = "waiting" /\ answer[c] = "none")
=============================================================================
