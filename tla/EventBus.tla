------------------------------- MODULE EventBus -------------------------------
(***************************************************************************)
(* The live event channel of one session (internal/eventBus.ts): emitting   *)
(* fibres that number, retain, publish and charge an envelope under one     *)
(* permit, subscribers that join at any moment without it, and the bound    *)
(* the publisher holds a watched subscriber to.                             *)
(*                                                                         *)
(* An envelope is its sequence number.  What the sink does with it is the   *)
(* composition's (Events); the observers are one step, which may try to     *)
(* emit itself.  One fibre, Closer, emits SessionClosed, uninterruptibly:   *)
(* it is the finalizer of the session's scope.                              *)
(***************************************************************************)
EXTENDS Integers, Sequences, FiniteSets, SequencesExt

CONSTANTS
    Fibres,           \* fibres that emit
    Closer,           \* the one that emits SessionClosed
    Subscribers,
    NoFibre,
    MaxEnvelopes,     \* the bound of a watched subscription: envelopes ...
    MaxBytes,         \* ... and bytes
    MaxSequence       \* bound: emissions ever numbered

ASSUME BusAssumption ==
    /\ Closer \in Fibres /\ NoFibre \notin Fibres
    /\ MaxEnvelopes \in Nat \ {0} /\ MaxBytes \in Nat \ {0} /\ MaxSequence \in Nat \ {0}

VARIABLES
    sequence,   \* the last number given
    order,      \* the fibre that holds the ordering permit
    emitting,   \* the fibre recorded as being inside emit
    closed,     \* the retained SessionClosed, 0 before it
    sizes,      \* the envelopes that were weighed for a watcher
    fibre,      \* of each fibre, where it is in emit, and with which envelope
    sub,        \* of each subscriber, its subscription and its watcher
    uncharged   \* an interruption fell between a publication and its charge

busVars == <<sequence, order, emitting, closed, sizes, fibre, sub, uncharged>>

Idle == [pc |-> "idle", seq |-> 0]
Away == [pc |-> "away", backlog |-> <<>>, since |-> 0, retained |-> 0, closes |-> 0]

BusInit ==
    /\ sequence = 0 /\ order = NoFibre /\ emitting = NoFibre /\ closed = 0 /\ sizes = {}
    /\ fibre = [f \in Fibres |-> Idle]
    /\ sub = [s \in Subscribers |-> Away]
    /\ uncharged = FALSE

At(f, pc) == fibre[f].pc = pc
Goto(f, pc) == fibre' = [fibre EXCEPT ![f].pc = pc]

\* The bytes of an envelope on the wire: some are larger than others.
wireSize(n) == 1 + (n % 2)

Watchers == { s \in Subscribers : sub[s].pc = "live" }

\* Mutant: the subscription is made once the retained close was read.
SubscribedLate == Watchers

Subscribed == { s \in Subscribers : sub[s].pc \in {"registered", "checked", "live"} }

-----------------------------------------------------------------------------
(* emit: guardReentry, the permit, the marker, and the steps under both *)

\* The bound, which counts the emissions not numbered yet.
mayBegin == sequence + Cardinality({ f \in Fibres : At(f, "waiting") \/ At(f, "holding") }) < MaxSequence

\* Mutant: the marker is set before the permit is held.
EnterMarking(f) ==
    /\ At(f, "idle") /\ mayBegin /\ (f = Closer => closed = 0)
    /\ emitting' = f
    /\ Goto(f, "waiting")
    /\ UNCHANGED <<sequence, order, closed, sizes, sub, uncharged>>

Enter(f) ==
    /\ At(f, "idle") /\ mayBegin /\ (f = Closer => closed = 0)
    /\ Goto(f, "waiting")
    /\ UNCHANGED <<sequence, order, emitting, closed, sizes, sub, uncharged>>

TakePermit(f) ==
    /\ At(f, "waiting") /\ order = NoFibre
    /\ order' = f
    /\ Goto(f, "holding")
    /\ UNCHANGED <<sequence, emitting, closed, sizes, sub, uncharged>>

\* holding, and the number.
Number(f) ==
    /\ At(f, "holding")
    /\ emitting' = f
    /\ sequence' = sequence + 1
    /\ fibre' = [fibre EXCEPT ![f] = [pc |-> IF f = Closer THEN "retaining" ELSE "publishing",
                                      seq |-> sequence + 1]]
    /\ UNCHANGED <<order, closed, sizes, sub, uncharged>>

\* The close is retained before it is published.
Retain(f) ==
    /\ At(f, "retaining")
    /\ closed' = fibre[f].seq
    /\ Goto(f, "publishing")
    /\ UNCHANGED <<sequence, order, emitting, sizes, sub, uncharged>>

\* Weighed, if anybody watches, and offered to every subscription there is.
Publish(f) ==
    LET n == fibre[f].seq IN
    /\ At(f, "publishing")
    /\ sizes' = IF Watchers = {} THEN sizes ELSE sizes \union {n}
    /\ sub' = [s \in Subscribers |->
                 IF s \in Subscribed THEN [sub[s] EXCEPT !.backlog = Append(@, n)] ELSE sub[s]]
    /\ Goto(f, "charging")
    /\ UNCHANGED <<sequence, order, emitting, closed, uncharged>>

\* Mutant: whoever is watched is charged, whether it received the envelope or not.
chargedToAll(s, n) == s \in Watchers

\* A watcher registered after the envelope was numbered is not charged for it.
charged(s, n) == s \in Watchers /\ n > sub[s].since

pastBound(w) == Len(w.backlog) > MaxEnvelopes \/ w.retained > MaxBytes

\* Mutant: the sink runs once the permit is returned.
ChargeReleasing(f) ==
    LET n == fibre[f].seq
        after(s) == [sub[s] EXCEPT !.retained = @ + wireSize(n)]
    IN
    /\ At(f, "charging")
    /\ order' = NoFibre
    /\ sub' = [s \in Subscribers |->
                 IF ~charged(s, n) THEN sub[s]
                 ELSE IF pastBound(after(s)) THEN [Away EXCEPT !.pc = "lagged"]
                 ELSE after(s)]
    /\ Goto(f, "sinking")
    /\ UNCHANGED <<sequence, emitting, closed, sizes, uncharged>>

\* enforce: charge every watcher, and end those past their bound.
Charge(f) ==
    LET n == fibre[f].seq
        after(s) == [sub[s] EXCEPT !.retained = @ + wireSize(n)]
    IN
    /\ At(f, "charging")
    /\ sub' = [s \in Subscribers |->
                 IF ~charged(s, n) THEN sub[s]
                 ELSE IF pastBound(after(s)) THEN [Away EXCEPT !.pc = "lagged"]
                 ELSE after(s)]
    /\ Goto(f, "sinking")
    /\ UNCHANGED <<sequence, order, emitting, closed, sizes, uncharged>>

\* The sink has recorded the envelope.
SinkReturns(f) ==
    /\ At(f, "sinking")
    /\ Goto(f, "observing")
    /\ UNCHANGED <<sequence, order, emitting, closed, sizes, sub, uncharged>>

\* An observer that emits: refused if this fibre is the one inside emit, else
\* left waiting for the permit.  The refusal is a defect, which notify absorbs.
Reenter(f) ==
    /\ At(f, "observing") /\ emitting # f
    /\ Goto(f, "selfWaiting")
    /\ UNCHANGED <<sequence, order, emitting, closed, sizes, sub, uncharged>>

\* The marker is cleared and the permit returned, however emit ends.
Unwind(f) ==
    /\ order' = NoFibre /\ emitting' = NoFibre
    /\ fibre' = [fibre EXCEPT ![f] = Idle]

Return(f) ==
    /\ At(f, "observing")
    /\ Unwind(f)
    /\ UNCHANGED <<sequence, closed, sizes, sub, uncharged>>

\* A sink that fails takes the emission with it.
SinkDies(f) ==
    /\ At(f, "sinking")
    /\ Unwind(f)
    /\ UNCHANGED <<sequence, closed, sizes, sub, uncharged>>

\* The sink's append is uninterruptible, and so is all of the finalizer.
InterruptEmit(f) ==
    /\ f # Closer
    /\ \/ /\ At(f, "waiting")
          /\ fibre' = [fibre EXCEPT ![f] = Idle]
          /\ UNCHANGED <<order, emitting, uncharged>>
       \/ /\ fibre[f].pc \in {"holding", "publishing", "charging", "observing"}
          /\ Unwind(f)
          /\ uncharged' = (uncharged \/ At(f, "charging"))
    /\ UNCHANGED <<sequence, closed, sizes, sub>>

-----------------------------------------------------------------------------
(* subscribeEvents, and the stream it returns *)

\* PubSub.subscribe.
Subscribe(s) ==
    /\ sub[s].pc = "away"
    /\ sub' = [sub EXCEPT ![s].pc = "registered"]
    /\ UNCHANGED <<sequence, order, emitting, closed, sizes, fibre, uncharged>>

\* A close found now is the whole stream; the subscription stays unread.
ReadClosed(s) ==
    /\ sub[s].pc = "registered"
    /\ sub' = [sub EXCEPT ![s] = IF closed = 0 THEN [@ EXCEPT !.pc = "checked"]
                                 ELSE [Away EXCEPT !.pc = "ended", !.closes = 1]]
    /\ UNCHANGED <<sequence, order, emitting, closed, sizes, fibre, uncharged>>

\* The number is read and the watcher added in one go.
Watch(s) ==
    /\ sub[s].pc = "checked"
    /\ sub' = [sub EXCEPT ![s].pc = "live", ![s].since = sequence]
    /\ UNCHANGED <<sequence, order, emitting, closed, sizes, fibre, uncharged>>

credit(s, n) == IF n > sub[s].since /\ n \in sizes THEN wireSize(n) ELSE 0

\* A pull.  The stream ends with the close.
Pull(s) ==
    LET n == Head(sub[s].backlog) IN
    /\ sub[s].pc = "live" /\ sub[s].backlog # <<>>
    /\ sub' = [sub EXCEPT ![s] =
                 IF n = closed THEN [Away EXCEPT !.pc = "ended", !.closes = sub[s].closes + 1]
                 ELSE [sub[s] EXCEPT !.backlog = Tail(@), !.retained = @ - credit(s, n)]]
    /\ UNCHANGED <<sequence, order, emitting, closed, sizes, fibre, uncharged>>

\* A subscriber that left, ended or lagged may come back.
Leave(s) ==
    /\ sub[s].pc \in {"live", "ended", "lagged"}
    /\ sub' = [sub EXCEPT ![s] = Away]
    /\ UNCHANGED <<sequence, order, emitting, closed, sizes, fibre, uncharged>>

Emit(f) ==
    \/ Enter(f) \/ TakePermit(f) \/ Number(f) \/ Retain(f) \/ Publish(f) \/ Charge(f)
    \/ Reenter(f) \/ Return(f) \/ InterruptEmit(f)

Observe(s) == Subscribe(s) \/ ReadClosed(s) \/ Watch(s) \/ Pull(s) \/ Leave(s)

-----------------------------------------------------------------------------
(* Properties *)

BusTypeOK ==
    /\ sequence \in 0 .. MaxSequence /\ closed \in 0 .. sequence
    /\ order \in Fibres \union {NoFibre} /\ emitting \in Fibres \union {NoFibre}
    /\ sizes \subseteq 1 .. sequence
    /\ \A f \in Fibres : fibre[f].seq \in 0 .. sequence
    /\ \A s \in Subscribers : /\ Range(sub[s].backlog) \subseteq 1 .. sequence
                              /\ sub[s].since \in 0 .. sequence
                              /\ sub[s].closes \in 0 .. 1

\* The marker names the fibre that holds the permit, so that an observer which
\* emits is refused and never waits for a permit its own fibre holds
\* (guardReentry; the marker was once set before the permit was acquired).
ReentryIsRefused ==
    \A f \in Fibres : /\ ~At(f, "selfWaiting")
                      /\ emitting = f => order = f
                      /\ At(f, "observing") => emitting = f

closePublished == closed # 0 /\ ~At(Closer, "publishing")

\* Every subscriber, whenever it joined, is shown SessionClosed exactly once:
\* one that found nothing retained has it coming, and one that found it does
\* not read the subscription in which it may stand a second time.
CloseReachesEveryone ==
    /\ closePublished => \A s \in Subscribers : sub[s].pc \in {"checked", "live"} =>
            Cardinality({ i \in DOMAIN sub[s].backlog : sub[s].backlog[i] = closed }) = 1
    /\ \A s \in Subscribers : sub[s].pc = "ended" => sub[s].closes = 1

\* The envelopes a watcher was charged for and has not pulled; their bytes.
owed(s) == { n \in Range(sub[s].backlog) : n > sub[s].since }
bytes(numbers) == UNION { {n} \X (1 .. wireSize(n)) : n \in numbers }

\* Between two emissions the bytes a watcher is charged with are those of the
\* envelopes it was charged for and has not pulled, whichever way its joining,
\* its pulls and the publisher's charge interleave, and they are in its bound.
RetainedIsCharged ==
    ~uncharged /\ (\A f \in Fibres : ~At(f, "charging")) => \A s \in Watchers :
        /\ sub[s].retained = Cardinality(bytes(owed(s)))
        /\ sub[s].retained <= MaxBytes
=============================================================================
