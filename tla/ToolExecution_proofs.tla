-------------------------- MODULE ToolExecution_proofs --------------------------
(***************************************************************************)
(* What a tool call shows, and the questions it asks, for every response,   *)
(* every limit, ceiling and host bound: OneTerminalEvent and                *)
(* QuestionsAreAnswerable are invariants of Spec.  Neither is inductive:    *)
(* what a call has shown follows from where it is, and it is there that the *)
(* registration of its question is to be found.                             *)
(***************************************************************************)
EXTENDS ToolExecution, TLAPS

\* Nothing was shown yet, and the call has started but not ended.
Before == {"none", "queued", "ceiled", "starting"}
During == {"started", "deciding", "asking", "asked", "waiting", "resolving", "resolved",
           "running", "nestQueued", "nesting", "settling", "cutting"}
Listed == {"asking", "asked", "waiting"}

EventKinds == {"Started", "Requested", "Resolved", "Settled", "Interrupted"}

Shape ==
    /\ hidden \subseteq Calls /\ waiting \subseteq Calls /\ orphaned \subseteq Calls
    /\ pc \in [Calls -> Before \union During \union {"settled", "over"}]
    /\ shown \in [Calls -> Seq(EventKinds)]

Opened(c) == shown[c] # <<>> /\ shown[c][1] = "Started"
EndsLast(c) == terminals(c) = {Len(shown[c])}

\* What a call has shown, by where it is.
Telling(c) ==
    /\ pc[c] \in Before => shown[c] = <<>>
    /\ pc[c] \in During => Opened(c) /\ terminals(c) = {}
    /\ pc[c] = "settled" => Opened(c) /\ EndsLast(c)
    /\ pc[c] = "over" /\ shown[c] # <<>> =>
            Opened(c) /\ (EndsLast(c) \/ (terminals(c) = {} /\ c \in silent))

\* Where a question is registered, by where its call is.
Asking(c) ==
    /\ pc[c] \in Listed => c \in waiting
    /\ c \in waiting => pc[c] \in Listed \/ c \in orphaned
    /\ c \in orphaned => pc[c] \in {"cutting", "over"}

IInv == Shape /\ \A c \in Calls : Telling(c) /\ Asking(c)

-----------------------------------------------------------------------------
\* A step that shows nothing and moves one call on, within its course, disturbs
\* what neither that call nor another has to show.
LEMMA TellingKept ==
  ASSUME Shape, NEW c \in Calls, NEW step, Goto(c, step), shown' = shown,
         silent \subseteq silent', NEW d \in Calls, Telling(d),
         \/ pc[c] \in Before /\ step \in Before \union {"over"}
         \/ pc[c] \in During /\ step \in During
         \/ pc[c] \in During /\ step = "over" /\ c \in silent'
         \/ pc[c] = "settled" /\ step = "over"
  PROVE  Telling(d)'
<1>1. pc'[d] = IF d = c THEN step ELSE pc[d]
  BY DEF Goto, Shape
<1>2. terminals(d)' = terminals(d)
  BY DEF terminals
<1>3. CASE d # c
  BY <1>1, <1>2, <1>3 DEF Telling, Opened, EndsLast
<1>4. CASE d = c /\ pc[c] \in Before
  BY <1>1, <1>4 DEF Telling, Before, During
<1>5. CASE d = c /\ pc[c] \in During
  BY <1>1, <1>2, <1>5 DEF Telling, Opened, EndsLast, Before, During
<1>6. CASE d = c /\ pc[c] = "settled"
  BY <1>1, <1>2, <1>6 DEF Telling, Opened, EndsLast, Before, During
<1>7. QED
  BY <1>3, <1>4, <1>5, <1>6

\* A call that moves neither into nor out of its question leaves the
\* registrations as they were.
LEMMA AskingKept ==
  ASSUME Shape, NEW c \in Calls, NEW step, Goto(c, step), waiting' = waiting,
         orphaned' = orphaned, NEW d \in Calls, Asking(d),
         \/ pc[c] \in Listed /\ step \in Listed
         \/ pc[c] \notin Listed /\ step \notin Listed /\ pc[c] # "over"
            /\ (pc[c] = "cutting" => step = "over")
  PROVE  Asking(d)'
<1>1. pc'[d] = IF d = c THEN step ELSE pc[d]
  BY DEF Goto, Shape
<1>2. QED
  BY <1>1 DEF Asking, Listed

\* The steps that change where a call is, and nothing of what is shown or asked.
LEMMA Moved ==
  ASSUME IInv, NEW c \in Calls, NEW step, Goto(c, step),
         UNCHANGED <<hidden, shown, waiting, orphaned>>, silent \subseteq silent',
         \/ pc[c] \in Before /\ step \in Before
         \/ pc[c] \in During \ Listed /\ step \in During \ Listed
            /\ pc[c] # "cutting"
         \/ pc[c] = "asked" /\ step = "waiting"
         \/ pc[c] \in During \ (Listed \union {"cutting"}) /\ step = "over" /\ c \in silent'
         \/ pc[c] = "settled" /\ step = "over"
  PROVE  IInv'
<1>1. Shape'
  BY DEF IInv, Shape, Goto, Before, During
<1>2. ASSUME NEW d \in Calls PROVE Telling(d)'
  BY TellingKept DEF IInv, Before, During, Listed
<1>3. ASSUME NEW d \in Calls PROVE Asking(d)'
  BY AskingKept DEF IInv, Before, During, Listed
<1>4. QED
  BY <1>1, <1>2, <1>3 DEF IInv

\* What Append does to what a call has shown.
LEMMA Shows ==
  ASSUME Shape, NEW c \in Calls, NEW e \in EventKinds,
         shown' = [shown EXCEPT ![c] = Append(@, e)]
  PROVE  /\ shown' \in [Calls -> Seq(EventKinds)]
         /\ \A d \in Calls \ {c} : shown'[d] = shown[d]
         /\ Opened(c) \/ (shown[c] = <<>> /\ e = "Started") => Opened(c)'
         /\ terminals(c) = {} /\ e \notin {"Settled", "Interrupted"} => terminals(c)' = {}
         /\ terminals(c) = {} /\ e \in {"Settled", "Interrupted"} => EndsLast(c)'
<1> DEFINE t == shown[c]
<1>1. t \in Seq(EventKinds) /\ shown'[c] = Append(t, e)
  BY DEF Shape
<1>2. /\ Len(shown'[c]) = Len(t) + 1
      /\ DOMAIN shown'[c] = 1 .. Len(t) + 1
      /\ DOMAIN t = 1 .. Len(t)
      /\ \A i \in 1 .. Len(t) : shown'[c][i] = t[i]
      /\ shown'[c][Len(t) + 1] = e
      /\ Len(t) \in Nat
  BY <1>1
<1>3. shown' \in [Calls -> Seq(EventKinds)]
  BY <1>1 DEF Shape
<1>4. \A d \in Calls \ {c} : shown'[d] = shown[d]
  BY DEF Shape
<1>5. Opened(c) \/ (shown[c] = <<>> /\ e = "Started") => Opened(c)'
  BY <1>1, <1>2 DEF Opened
<1>6. ASSUME terminals(c) = {}
      PROVE  \A i \in 1 .. Len(t) : shown'[c][i] \notin {"Settled", "Interrupted"}
  BY <1>2, <1>6 DEF terminals
<1>7. terminals(c) = {} /\ e \notin {"Settled", "Interrupted"} => terminals(c)' = {}
  BY <1>2, <1>6 DEF terminals
<1>8. terminals(c) = {} /\ e \in {"Settled", "Interrupted"} => EndsLast(c)'
  BY <1>2, <1>6 DEF terminals, EndsLast
<1>9. QED
  BY <1>3, <1>4, <1>5, <1>7, <1>8

-----------------------------------------------------------------------------
(* The inductive invariant *)

LEMMA EmitInv ==
  ASSUME IInv, NEW c \in Calls, Emit(c)
  PROVE  IInv'
<1> DEFINE e == Says[pc[c]]
           step == Said[pc[c]]
<1>1. /\ pc[c] \in {"starting", "asking", "resolving", "settling", "cutting"}
      /\ shown' = [shown EXCEPT ![c] = Append(@, e)]
      /\ pc' = [pc EXCEPT ![c] = step]
      /\ UNCHANGED <<hidden, waiting, orphaned, silent>>
  BY DEF Emit, Says, Goto
<1>2. /\ pc[c] = "starting" => e = "Started" /\ step = "started"
      /\ pc[c] = "asking" => e = "Requested" /\ step = "asked"
      /\ pc[c] = "resolving" => e = "Resolved" /\ step = "resolved"
      /\ pc[c] = "settling" => e = "Settled" /\ step = "settled"
      /\ pc[c] = "cutting" => e = "Interrupted" /\ step = "over"
  BY DEF Says, Said
<1>3. e \in EventKinds /\ step \in During \union {"settled", "over"}
  BY <1>1, <1>2 DEF EventKinds, During
<1> HIDE DEF e, step
<1>4. /\ shown' \in [Calls -> Seq(EventKinds)]
      /\ \A d \in Calls \ {c} : shown'[d] = shown[d]
      /\ Opened(c) \/ (shown[c] = <<>> /\ e = "Started") => Opened(c)'
      /\ terminals(c) = {} /\ e \notin {"Settled", "Interrupted"} => terminals(c)' = {}
      /\ terminals(c) = {} /\ e \in {"Settled", "Interrupted"} => EndsLast(c)'
  BY <1>1, <1>3, Shows DEF IInv
<1>5. Shape'
  BY <1>1, <1>3, <1>4 DEF IInv, Shape
<1>6. pc' \in [Calls -> Before \union During \union {"settled", "over"}] /\ pc'[c] = step
      /\ \A d \in Calls \ {c} : pc'[d] = pc[d]
  BY <1>1, <1>5 DEF IInv, Shape
<1>7. Telling(c)'
  <2>1. CASE pc[c] = "starting"
    <3>1. shown[c] = <<>> /\ terminals(c) = {}
      BY <2>1 DEF IInv, Telling, Before, terminals
    <3>2. QED
      BY <2>1, <3>1, <1>2, <1>4, <1>6 DEF Telling, Before, During
  <2>2. CASE pc[c] \in {"asking", "resolving"}
    BY <2>2, <1>2, <1>4, <1>6 DEF IInv, Telling, Before, During
  <2>3. CASE pc[c] \in {"settling", "cutting"}
    BY <2>3, <1>2, <1>4, <1>6 DEF IInv, Telling, Before, During
  <2>4. QED
    BY <1>1, <2>1, <2>2, <2>3
<1>8. ASSUME NEW d \in Calls \ {c} PROVE Telling(d)'
  <2>1. shown'[d] = shown[d] /\ pc'[d] = pc[d]
    BY <1>4, <1>6
  <2>2. terminals(d)' = terminals(d)
    BY <2>1 DEF terminals
  <2>3. QED
    BY <2>1, <2>2, <1>1 DEF IInv, Telling, Opened, EndsLast
<1>9. ASSUME NEW d \in Calls PROVE Asking(d)'
  BY <1>1, <1>2, <1>6 DEF IInv, Asking, Listed
<1>10. QED
  BY <1>5, <1>7, <1>8, <1>9 DEF IInv

LEMMA CutInv ==
  ASSUME IInv, NEW c \in Calls, Cut(c)
  PROVE  IInv'
<1> DEFINE step == IF pc[c] \in announcing THEN "cutting" ELSE "over"
<1>1. /\ Goto(c, step) /\ pc[c] \notin {"none", "cutting", "over"}
      /\ UNCHANGED <<hidden, shown>> /\ silent \subseteq silent'
      /\ pc[c] \in {"started", "settling"} => c \in silent'
      /\ waiting' = IF pc[c] = "waiting" THEN waiting \ {c} ELSE waiting
      /\ orphaned' = IF pc[c] \in {"asking", "asked"} THEN orphaned \union {c} ELSE orphaned
  BY DEF Cut
<1>2. pc[c] \in announcing \union {"started", "settling", "settled"} \union Before
  BY <1>1 DEF IInv, Shape, Before, During, announcing
<1>3. Shape'
  BY <1>1 DEF IInv, Shape, Goto, During
<1>4. ASSUME NEW d \in Calls PROVE Telling(d)'
  <2>1. CASE pc[c] \in announcing
    <3>1. pc[c] \in During /\ step \in During
      BY <2>1 DEF announcing, During
    <3>2. QED
      BY <3>1, <1>1, TellingKept DEF IInv
  <2>2. CASE pc[c] \in {"started", "settling"}
    <3>1. pc[c] \in During /\ step = "over"
      BY <2>2 DEF announcing, During
    <3>2. QED
      BY <3>1, <2>2, <1>1, TellingKept DEF IInv
  <2>3. CASE pc[c] = "settled" \/ pc[c] \in Before
    <3>1. step = "over"
      BY <2>3 DEF announcing, Before
    <3>2. QED
      BY <3>1, <2>3, <1>1, TellingKept DEF IInv
  <2>4. QED
    BY <1>2, <2>1, <2>2, <2>3
<1>5. ASSUME NEW d \in Calls PROVE Asking(d)'
  <2>1. pc'[d] = IF d = c THEN step ELSE pc[d]
    BY <1>1 DEF Goto, IInv, Shape
  <2>2. step \in {"cutting", "over"}
    OBVIOUS
  <2>3. QED
    BY <1>1, <2>1, <2>2 DEF IInv, Asking, Listed
<1>6. QED
  BY <1>3, <1>4, <1>5 DEF IInv

LEMMA StepInv ==
  ASSUME IInv, NEW c \in Calls, Step(c)
  PROVE  IInv'
<1>1. CASE TakeSlot(c) \/ TakeCeiling(c) \/ TakeHost(c) \/ RefuseNext(c)
  BY <1>1, Moved DEF TakeSlot, TakeCeiling, TakeHost, RefuseNext, Moves, Before
<1>2. CASE Emit(c)
  BY <1>2, EmitInv
<1>3. CASE Started(c) \/ Wait(c) \/ Settled(c)
  BY <1>3, Moved DEF Started, Wait, Settled, Moves, Before, During, Listed
<1>4. CASE Answered(c)
  <2>1. /\ pc[c] = "waiting" /\ Goto(c, "resolving") /\ waiting' = waiting \ {c}
        /\ UNCHANGED <<hidden, shown, silent, orphaned>>
    BY <1>4 DEF Answered, Moves
  <2>2. Shape'
    BY <2>1 DEF IInv, Shape, Goto, During
  <2>3. ASSUME NEW d \in Calls PROVE Telling(d)'
    BY <2>1, TellingKept DEF IInv, During
  <2>4. ASSUME NEW d \in Calls PROVE Asking(d)'
    <3>1. pc'[d] = IF d = c THEN "resolving" ELSE pc[d]
      BY <2>1 DEF Goto, IInv, Shape
    <3>2. QED
      BY <2>1, <3>1 DEF IInv, Asking, Listed
  <2>5. QED
    BY <2>2, <2>3, <2>4 DEF IInv
<1>5. CASE Resolved(c) \/ Decide(c) \/ Handle(c)
  BY <1>5, Moved DEF Resolved, Decide, Handle, Settles, During, Listed
<1>6. CASE Dies(c)
  BY <1>6, Moved DEF Dies, During, Listed
<1>7. CASE Ask(c)
  <2>1. /\ pc[c] = "deciding" /\ Goto(c, "asking") /\ waiting' = waiting \union {c}
        /\ UNCHANGED <<hidden, shown, silent, orphaned>>
    BY <1>7 DEF Ask, Moves
  <2>2. Shape'
    BY <2>1 DEF IInv, Shape, Goto, During
  <2>3. ASSUME NEW d \in Calls PROVE Telling(d)'
    BY <2>1, TellingKept DEF IInv, During
  <2>4. ASSUME NEW d \in Calls PROVE Asking(d)'
    <3>1. pc'[d] = IF d = c THEN "asking" ELSE pc[d]
      BY <2>1 DEF Goto, IInv, Shape
    <3>2. QED
      BY <2>1, <3>1 DEF IInv, Asking, Listed
  <2>5. QED
    BY <2>2, <2>3, <2>4 DEF IInv
<1>8. CASE NestQueue(c) \/ NestTake(c) \/ NestReturn(c)
  BY <1>8, Moved DEF NestQueue, NestTake, NestReturn, Moves, During, Listed
<1>9. CASE Cut(c)
  BY <1>9, CutInv
<1>10. QED
  BY <1>1, <1>2, <1>3, <1>4, <1>5, <1>6, <1>7, <1>8, <1>9 DEF Step

LEMMA Same ==
  ASSUME IInv, UNCHANGED <<hidden, pc, shown, waiting, orphaned, silent>>
  PROVE  IInv'
<1>1. \A c \in Calls : terminals(c)' = terminals(c)
  BY DEF terminals
<1>2. QED
  BY <1>1 DEF IInv, Shape, Telling, Asking, Opened, EndsLast

LEMMA Invariance == Spec => []IInv
<1>1. Init => IInv
  <2> SUFFICES ASSUME Init PROVE IInv
    OBVIOUS
  <2>1. Shape
    BY DEF Init, Shape, Before
  <2>2. ASSUME NEW c \in Calls PROVE Telling(c) /\ Asking(c)
    BY DEF Init, Telling, Asking, Before, During, Listed
  <2>3. QED
    BY <2>1, <2>2 DEF IInv
<1>2. IInv /\ [Next]_vars => IInv'
  <2> SUFFICES ASSUME IInv, [Next]_vars PROVE IInv'
    OBVIOUS
  <2>1. ASSUME NEW c \in Calls, Step(c) PROVE IInv'
    BY <2>1, StepInv
  <2>2. CASE \E c \in Calls, granted \in {"granted", "refused"} : Respond(c, granted)
    BY <2>2, Same DEF Respond
  <2>3. CASE Interrupt \/ End
    BY <2>3, Same DEF Interrupt, End
  <2>4. CASE UNCHANGED vars
    BY <2>4, Same DEF vars
  <2>5. QED
    BY <2>1, <2>2, <2>3, <2>4 DEF Next
<1>3. QED
  BY <1>1, <1>2, PTL DEF Spec

-----------------------------------------------------------------------------
\* Whatever cuts it, and wherever, a call shows ToolCallStarted first and one
\* terminal event last, but for the ends that nothing announces.
THEOREM SpecOneTerminalEvent == Spec => []OneTerminalEvent
<1>1. IInv => OneTerminalEvent
  <2> SUFFICES ASSUME IInv, NEW c \in Calls
               PROVE  /\ shown[c] # <<>> => shown[c][1] = "Started"
                      /\ \A i \in terminals(c) : i = Len(shown[c])
                      /\ pc[c] = "over" /\ shown[c] # <<>> /\ c \notin silent => terminals(c) # {}
    BY DEF OneTerminalEvent
  <2>1. Telling(c) /\ pc[c] \in Before \union During \union {"settled", "over"}
    BY DEF IInv, Shape
  <2>2. CASE shown[c] = <<>>
    BY <2>2 DEF terminals
  <2>3. CASE shown[c] # <<>>
    BY <2>1, <2>3 DEF Telling, Opened, EndsLast, During
  <2>4. QED
    BY <2>2, <2>3
<1>2. QED
  BY <1>1, Invariance, PTL

\* A question subscribers were shown is registered for as long as its call may
\* still hear the answer, and none is registered beyond that but those whose
\* call was cut while it announced them.
THEOREM SpecQuestionsAreAnswerable == Spec => []QuestionsAreAnswerable
<1>1. IInv => QuestionsAreAnswerable
  BY DEF IInv, Shape, Asking, Listed, QuestionsAreAnswerable
<1>2. QED
  BY <1>1, Invariance, PTL
=============================================================================
