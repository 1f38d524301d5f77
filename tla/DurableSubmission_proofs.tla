------------------------ MODULE DurableSubmission_proofs ------------------------
(***************************************************************************)
(* The durable submission, for every number of submissions, clients and     *)
(* faults: what the engine keeps of an execution, what the clients may      *)
(* assume of it, and what a replay of its journal can end with.             *)
(***************************************************************************)
EXTENDS DurableSubmission, TLAPS, FiniteSetTheorems

Ending == {"releasing", "clearing", "clearingIntent", "finishing", "recording", "flushing", "ending"}
Projected == {"recording", "flushing", "ending"}
Tags == {"completed", "failed", "interrupted"}

ClaimRec == [sub : Submissions, prompt : Prompts, key : Prompts \union {NoPrompt},
             exec : {0} \union Submissions]
RowRec == [exists : BOOLEAN, count : 0 .. MaxSubmissions, history : 0 .. MaxSubmissions,
           claim : ClaimRec \union {NoClaim}]
RequestRec == {Absent, Pending} \union { Answered(a) : a \in Answers }
ItemRec == [value : Nat, claim : Nat \X Nat]
MemRec == [pc : InRun \union Ending, runs : Nat \ {0}, drains : Nat, took : BOOLEAN,
           batch : Seq(Nat), pending : Seq(Nat), applied : Seq(Nat), held : {"none"} \union Tags]
JournalRec == [models : Seq({"text", "asks", "fails"}), answer : Answers \union {NoPrompt},
               drains : Seq(Seq(Nat)), finished : {"no", "ok"}]
OutcomeRec == [tag : {"none"} \union Tags, applied : Seq(Nat), answer : Answers \union {NoPrompt}]
ClientRec == [pc : {"idle", "opening", "executing", "attaching", "gathering", "releasing",
                    "delivering", "taking", "signalling", "refusing"},
              sub : 0 .. MaxSubmissions, answer : Answers \union {NoPrompt}]

StoreTypes ==
    /\ row \in RowRec /\ row.exists /\ request \in [Submissions -> RequestRec]
    /\ row.claim # NoClaim => row.claim.sub = row.count

EngineTypes ==
    /\ open \in BOOLEAN /\ intents \subseteq asked /\ asked \subseteq Submissions
    /\ rows \subseteq ItemRec /\ IsFiniteSet(rows) /\ accepted \in Seq(Nat)
    /\ exec \in [Submissions -> {"none", "running", "parked", "ended"}]
    /\ deferred \in [Submissions -> Answers \union {NoPrompt}]
    /\ journal \in [Submissions -> JournalRec] /\ mem \in [Submissions -> MemRec]
    /\ log \in [Submissions -> SUBSET Tags] /\ acked \in [Submissions -> SUBSET Answers]
    /\ stored \in [Submissions -> OutcomeRec] /\ client \in [Clients -> ClientRec]
    /\ faults \in 0 .. MaxFaults /\ freed \subseteq Submissions
    /\ beside \subseteq Submissions /\ reopened \subseteq {0} \union Submissions

\* The body of an execution, and what is journalled of it.  One that does not
\* run has no body; one that has not begun, or has ended, has left no trace.
BodyAt(s) ==
    /\ exec[s] # "running" => mem[s] = Fresh
    /\ exec[s] \in {"none", "ended"} => /\ journal[s] = NoJournal /\ deferred[s] = NoPrompt
                                       /\ log[s] = {} /\ stored[s] = NoOutcome
    /\ exec[s] = "none" => acked[s] = {}
    /\ mem[s].pc \in InRun <=> mem[s].held = "none"
    /\ mem[s].took => mem[s].pc \in Draining /\ mem[s].drains >= Len(journal[s].drains)
    /\ mem[s].pc = "reopening" => mem[s].pending # <<>>
    /\ journal[s].answer # NoPrompt => deferred[s] # NoPrompt

\* Its projection is through, in this body or in one it replays.
Past(s) == mem[s].pc \in Projected \/ journal[s].finished = "ok" \/ log[s] # {}

\* An execution begins under the claim of its submission, and one past its
\* projection no longer holds it.
ClaimAt(s) ==
    /\ exec[s] = "none" => request[s] = Absent
    /\ s > row.count => exec[s] = "none"
    /\ exec[s] = "none" /\ s <= row.count => row.claim.sub = s
    /\ row.claim.sub = s /\ row.claim.exec # 0 => exec[s] # "none"
    /\ Past(s) => row.claim.sub # s

\* The answers somebody was told are taken.
KeptAt(s) ==
    acked[s] # {} /\ row.claim.sub = s /\ exec[s] # "ended" =>
        \/ request[s].state = "answered" /\ request[s].answer \in acked[s]
        \/ deferred[s] # NoPrompt

\* What a client has seen of the submission it is calling about.
CallAt(c) ==
    LET s == client[c].sub IN
    /\ client[c].pc # "idle" => s \in Submissions /\ s <= row.count
    /\ client[c].pc \in {"attaching", "gathering", "releasing", "delivering", "taking"} =>
            exec[s] # "none"
    /\ client[c].pc = "delivering" => client[c].answer \in Answers
    /\ client[c].pc = "signalling" => s \in asked
    /\ client[c].pc = "taking" => deferred[s] # NoPrompt \/ exec[s] = "ended"

Standing ==
    /\ StoreTypes /\ EngineTypes
    /\ \A s \in Submissions : BodyAt(s) /\ ClaimAt(s) /\ KeptAt(s)
    /\ \A c \in Clients : CallAt(c)

-----------------------------------------------------------------------------
(* The records *)

LEMMA Constants ==
  /\ Submissions = 1 .. MaxSubmissions /\ MaxSubmissions \in Nat /\ 0 \notin Submissions
  /\ Requests = Submissions /\ Submissions \subseteq Nat
  /\ NoClaim.sub = 0 /\ NoClaim.exec = 0 /\ NoClaim \notin ClaimRec
  /\ NoPrompt \notin Answers /\ Refusal \in Answers /\ MaxFaults \in Nat
BY SubmissionAssumption DEF Submissions, NoClaim, ClaimRec

LEMMA Requested ==
  /\ Absent.state = "absent" /\ Pending.state = "pending" /\ Absent # Pending
  /\ \A a : Answered(a).state = "answered" /\ Answered(a).answer = a
  /\ Absent \in RequestRec /\ Pending \in RequestRec /\ \A a \in Answers : Answered(a) \in RequestRec
  /\ \A q \in RequestRec : q.state = "answered" => q.answer \in Answers /\ q # Absent /\ q # Pending
<1>1. Absent.state = "absent" /\ Pending.state = "pending" /\ Absent # Pending
  BY DEF Absent, Pending
<1>2. \A a : Answered(a).state = "answered" /\ Answered(a).answer = a
  BY DEF Answered
<1>3. Absent \in RequestRec /\ Pending \in RequestRec /\ \A a \in Answers : Answered(a) \in RequestRec
  BY DEF RequestRec
<1>4. ASSUME NEW q \in RequestRec, q.state = "answered"
      PROVE  q.answer \in Answers /\ q # Absent /\ q # Pending
  BY <1>1, <1>2, <1>4 DEF RequestRec
<1>5. QED
  BY <1>1, <1>2, <1>3, <1>4

LEMMA FreshBody ==
  /\ Fresh \in MemRec /\ Fresh.pc = "calling" /\ Fresh.runs = 1 /\ Fresh.drains = 0
  /\ Fresh.took = FALSE /\ Fresh.batch = <<>> /\ Fresh.pending = <<>> /\ Fresh.applied = <<>>
  /\ Fresh.held = "none"
BY DEF Fresh, MemRec, InRun, Ending

LEMMA NothingKept ==
  /\ NoJournal \in JournalRec /\ NoJournal.models = <<>> /\ NoJournal.answer = NoPrompt
  /\ NoJournal.drains = <<>> /\ NoJournal.finished = "no"
  /\ NoOutcome \in OutcomeRec /\ NoOutcome.tag = "none"
BY DEF NoJournal, JournalRec, NoOutcome, OutcomeRec

LEMMA ClientRecords ==
  /\ NoCall \in ClientRec /\ NoCall.pc = "idle"
BY Constants DEF NoCall, ClientRec

-----------------------------------------------------------------------------
(* What a step of a body does to it *)

Others(s) ==
    \A t \in Submissions \ {s} :
        /\ exec'[t] = exec[t] /\ mem'[t] = mem[t] /\ journal'[t] = journal[t]
        /\ log'[t] = log[t] /\ stored'[t] = stored[t]
        /\ deferred'[t] = deferred[t] /\ acked'[t] = acked[t]

\* The body goes to another place, and is otherwise as it was.
Went(s, pc) ==
    /\ mem' \in [Submissions -> MemRec] /\ mem'[s].pc = pc
    /\ mem'[s].runs = mem[s].runs /\ mem'[s].drains = mem[s].drains
    /\ mem'[s].took = mem[s].took /\ mem'[s].batch = mem[s].batch
    /\ mem'[s].pending = mem[s].pending /\ mem'[s].applied = mem[s].applied
    /\ \A t \in Submissions \ {s} : mem'[t] = mem[t]

LEMMA GotoWent ==
  ASSUME EngineTypes, NEW s \in Submissions, NEW step \in InRun \union Ending, Goto(s, step)
  PROVE  Went(s, step) /\ mem'[s].held = mem[s].held
<1> DEFINE to == [mem[s] EXCEPT !.pc = step]
<1>1. mem \in [Submissions -> MemRec] /\ mem[s] \in MemRec /\ mem' = [mem EXCEPT ![s] = to]
  BY DEF EngineTypes, Goto
<1>2. /\ to \in MemRec /\ to.pc = step /\ to.runs = mem[s].runs /\ to.drains = mem[s].drains
      /\ to.took = mem[s].took /\ to.batch = mem[s].batch /\ to.pending = mem[s].pending
      /\ to.applied = mem[s].applied /\ to.held = mem[s].held
  BY <1>1 DEF MemRec
<1> HIDE DEF to
<1>3. mem'[s] = to /\ mem' \in [Submissions -> MemRec] /\ \A t \in Submissions \ {s} : mem'[t] = mem[t]
  BY <1>1, <1>2
<1>4. QED
  BY <1>2, <1>3 DEF Went

LEMMA EndsWent ==
  ASSUME EngineTypes, NEW s \in Submissions, NEW tag \in Tags, Ends(s, tag)
  PROVE  Went(s, "releasing") /\ mem'[s].held = tag
<1> DEFINE half == [mem[s] EXCEPT !.pc = "releasing"]
           to == [half EXCEPT !.held = tag]
<1>1. mem \in [Submissions -> MemRec] /\ mem[s] \in MemRec
  BY DEF EngineTypes
<1>2. to = [mem[s] EXCEPT !.pc = "releasing", !.held = tag]
  BY Zenon
<1>3. mem' = [mem EXCEPT ![s] = to]
  BY <1>1 DEF Ends
<1>4. /\ half \in MemRec /\ half.pc = "releasing" /\ half.runs = mem[s].runs
      /\ half.drains = mem[s].drains /\ half.took = mem[s].took /\ half.batch = mem[s].batch
      /\ half.pending = mem[s].pending /\ half.applied = mem[s].applied
  BY <1>1 DEF MemRec, Ending
<1> HIDE DEF half
<1>5. /\ to \in MemRec /\ to.pc = "releasing" /\ to.runs = mem[s].runs /\ to.drains = mem[s].drains
      /\ to.took = mem[s].took /\ to.batch = mem[s].batch /\ to.pending = mem[s].pending
      /\ to.applied = mem[s].applied /\ to.held = tag
  BY <1>4 DEF MemRec
<1> HIDE DEF to
<1>6. mem'[s] = to /\ mem' \in [Submissions -> MemRec] /\ \A t \in Submissions \ {s} : mem'[t] = mem[t]
  BY <1>1, <1>3, <1>5
<1>7. QED
  BY <1>5, <1>6 DEF Went

\* The answer of a model, told or replayed.
LEMMA ModelWent ==
  ASSUME EngineTypes, NEW s \in Submissions, NEW result \in {"text", "asks", "fails"},
         AfterModel(s, result)
  PROVE  \/ /\ result = "text" /\ mem'[s].held = mem[s].held
            /\ Went(s, IF mem[s].pending = <<>> THEN "draining" ELSE "reopening")
         \/ result = "asks" /\ Went(s, "registering") /\ mem'[s].held = mem[s].held
         \/ result = "fails" /\ Went(s, "releasing") /\ mem'[s].held = "failed"
<1>1. result = "text" => Goto(s, AfterRun(s))
  BY Zenon DEF AfterModel
<1>2. result = "asks" => Goto(s, "registering")
  BY Zenon DEF AfterModel
<1>3. result = "fails" => Ends(s, "failed")
  BY Zenon DEF AfterModel
<1>4. AfterRun(s) = (IF mem[s].pending = <<>> THEN "draining" ELSE "reopening")
  BY DEF AfterRun
<1>5. {"draining", "reopening", "registering"} \subseteq InRun \union Ending /\ "failed" \in Tags
  BY DEF InRun, Ending, Tags
<1>6. AfterRun(s) \in InRun \union Ending
  BY <1>4, <1>5
<1>7. CASE result = "text"
  BY <1>1, <1>4, <1>6, <1>7, GotoWent
<1>8. CASE result = "asks"
  BY <1>2, <1>5, <1>8, GotoWent
<1>9. CASE result = "fails"
  BY <1>3, <1>5, <1>9, EndsWent
<1>10. QED
  BY <1>7, <1>8, <1>9

\* A drain that ends: what the body does with the batch depends on where it
\* drained.
LEMMA DrainWent ==
  ASSUME EngineTypes, NEW s \in Submissions, mem[s].pc \in Draining, NEW batch \in Seq(Nat),
         AfterDrain(s, batch)
  PROVE  /\ mem' \in [Submissions -> MemRec] /\ \A t \in Submissions \ {s} : mem'[t] = mem[t]
         /\ mem'[s].drains = mem[s].drains + 1 /\ mem'[s].took = FALSE
         /\ mem'[s].runs = mem[s].runs /\ mem'[s].applied = mem[s].applied
         /\ \/ /\ mem[s].pc = "releasing" /\ mem'[s].pc = "clearing"
               /\ mem'[s].pending = <<>> /\ mem'[s].held = mem[s].held
            \/ /\ mem[s].pc # "releasing" /\ batch # <<>> /\ mem'[s].pc = "reopening"
               /\ mem'[s].pending = batch /\ mem'[s].held = mem[s].held
            \/ /\ mem[s].pc = "draining" /\ batch = <<>> /\ mem'[s].pc = "closing"
               /\ mem'[s].pending = <<>> /\ mem'[s].held = mem[s].held
            \/ /\ mem[s].pc = "closed" /\ batch = <<>> /\ mem'[s].pc = "releasing"
               /\ mem'[s].pending = <<>> /\ mem'[s].held = "completed"
<1> DEFINE pc == mem[s].pc
           pending == IF pc = "releasing" THEN <<>> ELSE batch
           next == CASE pc = "releasing" -> "clearing"
                     [] pending # <<>> -> "reopening"
                     [] pc = "draining" /\ pending = <<>> -> "closing"
                     [] pc = "closed" /\ pending = <<>> -> "releasing"
           held == IF pc = "closed" /\ pending = <<>> THEN "completed" ELSE mem[s].held
           m0 == mem[s]
           m1 == [m0 EXCEPT !.pc = next]
           m2 == [m1 EXCEPT !.drains = @ + 1]
           m3 == [m2 EXCEPT !.took = FALSE]
           m4 == [m3 EXCEPT !.batch = <<>>]
           m5 == [m4 EXCEPT !.pending = pending]
           m6 == [m5 EXCEPT !.held = held]
<1>1. mem \in [Submissions -> MemRec] /\ mem[s] \in MemRec
  BY DEF EngineTypes
<1>2. m6 = [m0 EXCEPT !.pc = next, !.drains = @ + 1, !.took = FALSE, !.batch = <<>>,
                      !.pending = pending, !.held = held]
  <2> HIDE DEF next, pending, held, m0
  <2>1. m2 = [m0 EXCEPT !.pc = next, !.drains = @ + 1]
    OBVIOUS
  <2>2. QED
    BY Zenon
<1>3. mem' = [mem EXCEPT ![s] = m6]
  BY <1>1, <1>2 DEF AfterDrain
<1>4. pc \in {"draining", "closed", "releasing"}
  BY DEF Draining
<1>4a. pending \in Seq(Nat) /\ <<>> \in Seq(Nat)
  <2> HIDE DEF next, held, pc
  <2>1. <<>> \in Seq(Nat)
    OBVIOUS
  <2>2. pending = <<>> \/ pending = batch
    OBVIOUS
  <2> HIDE DEF pending
  <2>3. batch \in Seq(Nat)
    OBVIOUS
  <2>4. pending \in Seq(Nat)
    BY <2>1, <2>2, <2>3, Zenon
  <2>5. QED
    BY <2>1, <2>4
<1>5. pc = "releasing" => next = "clearing"
  BY Zenon
<1>6. pc # "releasing" /\ pending # <<>> => next = "reopening"
  <2> HIDE DEF pending
  <2>1. ASSUME pc # "releasing", pending # <<>> PROVE next = "reopening"
    BY <1>4, <2>1, Zenon
  <2>2. QED
    BY <2>1
<1>7. pc = "draining" /\ pending = <<>> => next = "closing"
  BY Zenon
<1>8. pc = "closed" /\ pending = <<>> => next = "releasing"
  BY Zenon
<1>9. pc = "releasing" => pending = <<>>
  OBVIOUS
<1>10. pc # "releasing" => pending = batch
  OBVIOUS
<1>11. held = IF pc = "closed" /\ pending = <<>> THEN "completed" ELSE mem[s].held
  OBVIOUS
<1>12. pc = mem[s].pc
  OBVIOUS
<1> HIDE DEF pc, pending, next, held
<1>13. next \in {"clearing", "reopening", "closing", "releasing"}
  BY <1>4, <1>5, <1>6, <1>7, <1>8
<1>14. next \in InRun \union Ending
  BY <1>13 DEF InRun, Ending
<1>15. held \in {"none"} \union Tags
  BY <1>1, <1>11 DEF MemRec, Tags
<1>15a. m0 = mem[s]
  OBVIOUS
<1> HIDE DEF m0
<1>16. m1 \in MemRec /\ m1.pc = next /\ m1.drains = mem[s].drains /\ m1.runs = mem[s].runs /\ m1.applied = mem[s].applied
  BY <1>1, <1>14, <1>15a DEF MemRec
<1> HIDE DEF m1
<1>16a. mem[s].drains + 1 \in Nat /\ m1.drains + 1 = mem[s].drains + 1
  BY <1>1, <1>16 DEF MemRec
<1>17. m2 \in MemRec /\ m2.pc = next /\ m2.drains = mem[s].drains + 1 /\ m2.runs = mem[s].runs /\ m2.applied = mem[s].applied
  BY <1>16, <1>16a DEF MemRec
<1> HIDE DEF m2
<1>18. /\ m3 \in MemRec /\ m3.pc = next /\ m3.drains = mem[s].drains + 1 /\ m3.runs = mem[s].runs
       /\ m3.applied = mem[s].applied /\ m3.took = FALSE
  BY <1>17 DEF MemRec
<1> HIDE DEF m3
<1>19. /\ m4 \in MemRec /\ m4.pc = next /\ m4.drains = mem[s].drains + 1 /\ m4.runs = mem[s].runs
       /\ m4.applied = mem[s].applied /\ m4.took = FALSE
  BY <1>4a, <1>18 DEF MemRec
<1> HIDE DEF m4
<1>20. /\ m5 \in MemRec /\ m5.pc = next /\ m5.drains = mem[s].drains + 1 /\ m5.runs = mem[s].runs
       /\ m5.applied = mem[s].applied /\ m5.took = FALSE /\ m5.pending = pending
  BY <1>4a, <1>19 DEF MemRec
<1> HIDE DEF m5
<1>21. /\ m6 \in MemRec /\ m6.pc = next /\ m6.drains = mem[s].drains + 1 /\ m6.runs = mem[s].runs
       /\ m6.applied = mem[s].applied /\ m6.took = FALSE /\ m6.pending = pending /\ m6.held = held
  BY <1>15, <1>20 DEF MemRec
<1> HIDE DEF m6
<1>22. /\ mem'[s] = m6 /\ mem' \in [Submissions -> MemRec]
       /\ \A t \in Submissions \ {s} : mem'[t] = mem[t]
  BY <1>1, <1>3, <1>21
<1>23. CASE pc = "releasing"
  BY <1>5, <1>9, <1>11, <1>12, <1>21, <1>22, <1>23
<1>24. CASE pc # "releasing" /\ batch # <<>>
  BY <1>6, <1>10, <1>11, <1>12, <1>21, <1>22, <1>24
<1>25. CASE pc = "draining" /\ batch = <<>>
  BY <1>7, <1>10, <1>11, <1>12, <1>21, <1>22, <1>25
<1>26. CASE pc = "closed" /\ batch = <<>>
  BY <1>8, <1>10, <1>11, <1>12, <1>21, <1>22, <1>26
<1>27. QED
  BY <1>4, <1>23, <1>24, <1>25, <1>26

LEMMA FiniteImage ==
  ASSUME NEW S, IsFiniteSet(S), NEW T, NEW f \in [S -> T], \A y \in T : \E x \in S : f[x] = y
  PROVE  IsFiniteSet(T)
<1>1. f \in Surjection(S, T)
  BY DEF Surjection
<1>2. QED
  BY <1>1, FS_Surjection

\* The rows a drain takes are claimed, and a batch is a sequence of values.
LEMMA Taken ==
  ASSUME rows \subseteq ItemRec, IsFiniteSet(rows), NEW claimId \in Nat \X Nat, takeAll(claimId)
  PROVE  /\ rows' \subseteq ItemRec /\ IsFiniteSet(rows')
         /\ batches(takable(claimId)) \subseteq Seq(Nat)
<1> DEFINE rs == takable(claimId)
           claimed == { [r EXCEPT !.claim = claimId] : r \in rs }
           values == { r.value : r \in rs }
<1>1. rs \subseteq rows /\ rs \subseteq ItemRec
  BY DEF takable
<1>2. IsFiniteSet(rs)
  BY <1>1, FS_Subset
<1>3. rows' = claimed
  BY DEF takeAll
<1>4. claimed \subseteq ItemRec /\ values \subseteq Nat
  <2>1. ASSUME NEW r \in rs PROVE [r EXCEPT !.claim = claimId] \in ItemRec /\ r.value \in Nat
    BY <1>1 DEF ItemRec
  <2>2. QED
    BY <2>1
<1>5. IsFiniteSet(claimed)
  <2> DEFINE f == [r \in rs |-> [r EXCEPT !.claim = claimId]]
  <2>1. f \in [rs -> claimed] /\ \A y \in claimed : \E r \in rs : f[r] = y
    OBVIOUS
  <2> HIDE DEF f, claimed, rs
  <2>2. QED
    BY <1>2, <2>1, FiniteImage
<1>6. IsFiniteSet(values)
  <2> DEFINE f == [r \in rs |-> r.value]
  <2>1. f \in [rs -> values] /\ \A y \in values : \E r \in rs : f[r] = y
    OBVIOUS
  <2> HIDE DEF f, values, rs
  <2>2. QED
    BY <1>2, <2>1, FiniteImage
<1>7. Cardinality(values) \in Nat
  BY <1>6, FS_CardinalityType
<1>8. ASSUME NEW q \in batches(rs) PROVE q \in Seq(Nat)
  <2>1. q \in [1 .. Cardinality(values) -> values]
    BY <1>8 DEF batches
  <2> HIDE DEF values
  <2>2. QED
    BY <1>4, <1>7, <2>1
<1>9. QED
  BY <1>3, <1>4, <1>5, <1>8

LEMMA TakeWent ==
  ASSUME EngineTypes, NEW s \in Submissions, Take(s)
  PROVE  /\ rows' \subseteq ItemRec /\ IsFiniteSet(rows')
         /\ mem' \in [Submissions -> MemRec] /\ \A t \in Submissions \ {s} : mem'[t] = mem[t]
         /\ mem'[s].pc = mem[s].pc /\ mem'[s].runs = mem[s].runs /\ mem'[s].drains = mem[s].drains
         /\ mem'[s].took = TRUE /\ mem'[s].pending = mem[s].pending
         /\ mem'[s].applied = mem[s].applied /\ mem'[s].held = mem[s].held
<1> DEFINE claimId == <<s, mem[s].drains>>
           half == [mem[s] EXCEPT !.took = TRUE]
<1>1. mem \in [Submissions -> MemRec] /\ mem[s] \in MemRec /\ rows \subseteq ItemRec /\ IsFiniteSet(rows)
  BY DEF EngineTypes
<1>2. claimId \in Nat \X Nat
  BY <1>1, Constants DEF MemRec
<1>3. /\ takeAll(claimId)
      /\ \E batch \in batches(takable(claimId)) :
            mem' = [mem EXCEPT ![s].took = TRUE, ![s].batch = batch]
  BY DEF Take
<1> HIDE DEF claimId
<1>4. /\ rows' \subseteq ItemRec /\ IsFiniteSet(rows') /\ batches(takable(claimId)) \subseteq Seq(Nat)
  BY <1>1, <1>2, <1>3, Taken
<1>5. PICK batch \in Seq(Nat) : mem' = [mem EXCEPT ![s].took = TRUE, ![s].batch = batch]
  BY <1>3, <1>4
<1> DEFINE to == [half EXCEPT !.batch = batch]
<1>6. to = [mem[s] EXCEPT !.took = TRUE, !.batch = batch]
  BY Zenon
<1>7. mem' = [mem EXCEPT ![s] = to]
  BY <1>1, <1>5
<1>8. /\ half \in MemRec /\ half.pc = mem[s].pc /\ half.runs = mem[s].runs /\ half.drains = mem[s].drains
      /\ half.took = TRUE /\ half.pending = mem[s].pending /\ half.applied = mem[s].applied
      /\ half.held = mem[s].held
  BY <1>1 DEF MemRec
<1> HIDE DEF half
<1>9. /\ to \in MemRec /\ to.pc = mem[s].pc /\ to.runs = mem[s].runs /\ to.drains = mem[s].drains
      /\ to.took = TRUE /\ to.pending = mem[s].pending /\ to.applied = mem[s].applied
      /\ to.held = mem[s].held
  BY <1>8 DEF MemRec
<1> HIDE DEF to
<1>10. /\ mem'[s] = to /\ mem' \in [Submissions -> MemRec]
       /\ \A t \in Submissions \ {s} : mem'[t] = mem[t]
  BY <1>1, <1>7, <1>9
<1>11. QED
  BY <1>4, <1>9, <1>10

\* The next run begins with the first input that waits.
LEMMA NextRunWent ==
  ASSUME EngineTypes, NEW s \in Submissions, NextRun(s), mem[s].pending # <<>>
  PROVE  /\ mem' \in [Submissions -> MemRec] /\ \A t \in Submissions \ {s} : mem'[t] = mem[t]
         /\ mem'[s].pc = "calling" /\ mem'[s].runs = mem[s].runs + 1
         /\ mem'[s].applied = Append(mem[s].applied, Head(mem[s].pending))
         /\ mem'[s].pending = Tail(mem[s].pending) /\ mem'[s].drains = mem[s].drains
         /\ mem'[s].took = mem[s].took /\ mem'[s].held = mem[s].held
<1> DEFINE m == mem[s]
           m1 == [m EXCEPT !.pc = "calling"]
           m2 == [m1 EXCEPT !.runs = @ + 1]
           m3 == [m2 EXCEPT !.applied = Append(@, Head(m.pending))]
           m4 == [m3 EXCEPT !.pending = Tail(@)]
<1>1. mem \in [Submissions -> MemRec] /\ m \in MemRec
  BY DEF EngineTypes
<1>2. m4 = [m EXCEPT !.pc = "calling", !.runs = @ + 1, !.applied = Append(@, Head(m.pending)),
                     !.pending = Tail(@)]
  BY Zenon
<1>3. mem' = [mem EXCEPT ![s] = m4]
  BY <1>1 DEF NextRun
<1>4. /\ m.pending \in Seq(Nat) /\ m.applied \in Seq(Nat) /\ m.runs \in Nat \ {0}
      /\ Head(m.pending) \in Nat /\ Tail(m.pending) \in Seq(Nat)
  BY <1>1 DEF MemRec
<1>5. Append(m.applied, Head(m.pending)) \in Seq(Nat) /\ m.runs + 1 \in Nat \ {0}
  BY <1>4
<1>6. /\ m1 \in MemRec /\ m1.pc = "calling" /\ m1.runs = m.runs /\ m1.applied = m.applied
      /\ m1.pending = m.pending /\ m1.drains = m.drains /\ m1.took = m.took /\ m1.held = m.held
  BY <1>1 DEF MemRec, InRun
<1> HIDE DEF m1
<1>7. /\ m2 \in MemRec /\ m2.pc = "calling" /\ m2.runs = m.runs + 1 /\ m2.applied = m.applied
      /\ m2.pending = m.pending /\ m2.drains = m.drains /\ m2.took = m.took /\ m2.held = m.held
  BY <1>5, <1>6 DEF MemRec
<1> HIDE DEF m2
<1>8. /\ m3 \in MemRec /\ m3.pc = "calling" /\ m3.runs = m.runs + 1
      /\ m3.applied = Append(m.applied, Head(m.pending))
      /\ m3.pending = m.pending /\ m3.drains = m.drains /\ m3.took = m.took /\ m3.held = m.held
  BY <1>5, <1>7 DEF MemRec
<1> HIDE DEF m3
<1>9. /\ m4 \in MemRec /\ m4.pc = "calling" /\ m4.runs = m.runs + 1
      /\ m4.applied = Append(m.applied, Head(m.pending))
      /\ m4.pending = Tail(m.pending) /\ m4.drains = m.drains /\ m4.took = m.took /\ m4.held = m.held
  BY <1>4, <1>8 DEF MemRec
<1> HIDE DEF m4
<1>10. /\ mem'[s] = m4 /\ mem' \in [Submissions -> MemRec]
       /\ \A t \in Submissions \ {s} : mem'[t] = mem[t]
  BY <1>1, <1>3, <1>9
<1>11. QED
  BY <1>9, <1>10

-----------------------------------------------------------------------------
(* The steps that touch one submission *)

\* What such a step must show: it is as it was everywhere else.
Touches(s) ==
    /\ EngineTypes' /\ BodyAt(s)' /\ ClaimAt(s)' /\ KeptAt(s)' /\ Others(s)
    /\ row' = row /\ request' \in [Submissions -> RequestRec]
    /\ \A t \in Submissions \ {s} : request'[t] = request[t]
    /\ asked \subseteq asked'
    /\ exec[s] # "none" => exec'[s] # "none"
    /\ exec[s] = "ended" => exec'[s] = "ended"
    /\ deferred[s] # NoPrompt => deferred'[s] # NoPrompt \/ exec'[s] = "ended"
    /\ \A c \in Clients : client'[c] = client[c] \/ CallAt(c)'

LEMMA Touched ==
  ASSUME Standing, NEW s \in Submissions, Touches(s)
  PROVE  Standing'
<1>1. StoreTypes'
  BY DEF Standing, Touches, StoreTypes
<1>2. ASSUME NEW t \in Submissions PROVE BodyAt(t)' /\ ClaimAt(t)' /\ KeptAt(t)'
  <2>1. BodyAt(t) /\ ClaimAt(t) /\ KeptAt(t)
    BY DEF Standing
  <2>2. CASE t = s
    BY <2>2 DEF Touches
  <2>3. CASE t # s
    <3>1. /\ exec'[t] = exec[t] /\ mem'[t] = mem[t] /\ journal'[t] = journal[t]
          /\ log'[t] = log[t] /\ stored'[t] = stored[t] /\ deferred'[t] = deferred[t]
          /\ acked'[t] = acked[t] /\ row' = row /\ request'[t] = request[t]
      BY <2>3 DEF Touches, Others
    <3>2. BodyAt(t)'
      BY <2>1, <3>1 DEF BodyAt
    <3>3. ClaimAt(t)'
      BY <2>1, <3>1 DEF ClaimAt, Past
    <3>4. KeptAt(t)'
      BY <2>1, <3>1 DEF KeptAt
    <3>5. QED
      BY <3>2, <3>3, <3>4
  <2>4. QED
    BY <2>2, <2>3
<1>3. ASSUME NEW c \in Clients PROVE CallAt(c)'
  <2>1. CASE client'[c] = client[c]
    <3>1. CallAt(c) /\ row' = row /\ asked \subseteq asked'
      BY DEF Standing, Touches
    <3> DEFINE t == client[c].sub
    <3>2. t \in Submissions => /\ exec[t] # "none" => exec'[t] # "none"
                               /\ exec[t] = "ended" => exec'[t] = "ended"
                               /\ deferred[t] # NoPrompt => deferred'[t] # NoPrompt \/ exec'[t] = "ended"
      BY DEF Touches, Others
    <3>3. QED
      BY <2>1, <3>1, <3>2 DEF CallAt
  <2>2. CASE CallAt(c)'
    BY <2>2
  <2>3. QED
    BY <2>1, <2>2 DEF Touches
<1>4. QED
  BY <1>1, <1>2, <1>3 DEF Standing, Touches

\* The steps of a body that leave the claim alone: nothing else is to show.
Rests(s) ==
    /\ EngineTypes' /\ BodyAt(s)' /\ Others(s)
    /\ UNCHANGED <<row, client, asked>>
    /\ \/ request' = request
       \/ /\ request' \in [Submissions -> RequestRec]
          /\ \A t \in Submissions \ {s} : request'[t] = request[t]
          /\ request[s].state = "answered" => request'[s] = request[s]
    /\ exec[s] # "none" /\ exec'[s] # "none"
    /\ exec'[s] = "ended" \/ (deferred'[s] = deferred[s] /\ acked'[s] = acked[s])
    /\ exec[s] # "ended"
    /\ Past(s)' => Past(s) \/ row.claim.sub # s

LEMMA Rested ==
  ASSUME Standing, NEW s \in Submissions, Rests(s)
  PROVE  Standing'
<1>1. BodyAt(s) /\ ClaimAt(s) /\ KeptAt(s) /\ request \in [Submissions -> RequestRec]
  BY DEF Standing, StoreTypes
<1>2. ClaimAt(s)'
  BY <1>1 DEF Rests, ClaimAt
<1>3. KeptAt(s)'
  BY <1>1 DEF Rests, KeptAt
<1>4. Touches(s)
  BY <1>1, <1>2, <1>3 DEF Rests, Touches
<1>5. QED
  BY <1>4, Touched

\* A body that only goes on.
LEMMA OnlyMoved ==
  ASSUME Standing, NEW s \in Submissions, exec[s] = "running",
         UNCHANGED <<storeVars, intents, rows, exec, journal, deferred, client, log, faults>>,
         open' \in BOOLEAN, reopened' \subseteq {0} \union Submissions,
         UNCHANGED <<accepted, asked, acked, stored, freed, beside>>,
         mem' \in [Submissions -> MemRec], \A t \in Submissions \ {s} : mem'[t] = mem[t],
         mem'[s].pc \in InRun <=> mem'[s].held = "none",
         mem'[s].took => mem'[s].pc \in Draining /\ mem'[s].drains >= Len(journal[s].drains),
         mem'[s].pc = "reopening" => mem'[s].pending # <<>>,
         mem'[s].pc \in Projected => Past(s)
  PROVE  Standing'
<1>1. EngineTypes'
  BY DEF Standing, EngineTypes
<1>2. BodyAt(s)'
  BY DEF Standing, BodyAt
<1>3. Past(s)' => Past(s)
  BY DEF Past
<1>4. Rests(s)
  BY <1>1, <1>2, <1>3 DEF Rests, Others, storeVars
<1>5. QED
  BY <1>4, Rested

LEMMA Places ==
  /\ \A pc \in Draining : pc \notin Projected
  /\ \A pc \in {"calling", "registering", "asking", "resumed", "removing", "closing", "reopening"} :
        pc \in InRun /\ pc \notin Draining /\ pc \notin Projected /\ pc \notin Ending
  /\ {"draining", "closed"} \subseteq InRun
  /\ \A pc \in Ending : pc \notin InRun
  /\ Projected \subseteq Ending
  /\ \A pc \in {"clearing", "clearingIntent", "finishing", "recording", "flushing", "ending"} : pc \notin Draining
  /\ "releasing" \in Draining /\ "releasing" \in Ending
  /\ {"clearing", "clearingIntent", "finishing"} \subseteq Ending \ Projected
  /\ "none" \notin Tags
BY DEF Draining, Projected, InRun, Ending, Tags

\* From a place where nothing is drained, to another.
LEMMA WentOn ==
  ASSUME Standing, NEW s \in Submissions, exec[s] = "running",
         UNCHANGED <<storeVars, intents, rows, exec, journal, deferred, client, log, faults>>,
         open' \in BOOLEAN, UNCHANGED ghosts,
         NEW pc, Went(s, pc), ~mem[s].took, pc \in InRun <=> mem'[s].held = "none",
         pc = "reopening" => mem[s].pending # <<>>, pc \in Projected => Past(s)
  PROVE  Standing'
<1>1. reopened' \subseteq {0} \union Submissions
  BY DEF Standing, EngineTypes, ghosts
<1>2. QED
  BY <1>1, OnlyMoved DEF Went, ghosts

LEMMA BodyOf ==
  ASSUME Standing, NEW s \in Submissions
  PROVE  /\ EngineTypes /\ BodyAt(s) /\ mem[s] \in MemRec /\ journal[s] \in JournalRec
         /\ mem[s].took \in BOOLEAN
         /\ mem[s].pc \notin Draining => ~mem[s].took
         /\ mem[s].pc \in InRun => mem[s].held = "none"
         /\ open \in BOOLEAN
<1>1. EngineTypes /\ BodyAt(s) /\ open \in BOOLEAN
  BY DEF Standing, EngineTypes
<1>2. mem[s] \in MemRec /\ journal[s] \in JournalRec
  BY <1>1 DEF EngineTypes
<1>3. mem[s].took \in BOOLEAN
  BY <1>2 DEF MemRec
<1>4. (mem[s].pc \notin Draining => ~mem[s].took) /\ (mem[s].pc \in InRun => mem[s].held = "none")
  BY <1>1 DEF BodyAt
<1>5. QED
  BY <1>1, <1>2, <1>3, <1>4

LEMMA ReplayModelStands ==
  ASSUME Standing, NEW s \in Submissions, ReplayModel(s)
  PROVE  Standing'
<1> DEFINE result == journal[s].models[mem[s].runs]
<1>1. EngineTypes /\ mem[s] \in MemRec /\ journal[s] \in JournalRec
  BY BodyOf
<1>2. exec[s] = "running" /\ mem[s].pc = "calling" /\ mem[s].runs <= Len(journal[s].models)
  BY DEF ReplayModel, At, Replays
<1>3. ~mem[s].took /\ mem[s].held = "none"
  BY <1>2, BodyOf, Places
<1>4. result \in {"text", "asks", "fails"}
  BY <1>1, <1>2 DEF MemRec, JournalRec
<1>5. AfterModel(s, result)
  BY DEF ReplayModel
<1> HIDE DEF result
<1>6. PICK pc \in {"draining", "reopening", "registering", "releasing"} :
        /\ Went(s, pc) /\ (pc = "reopening" => mem[s].pending # <<>>)
        /\ mem'[s].held = (IF pc = "releasing" THEN "failed" ELSE "none")
  BY <1>1, <1>3, <1>4, <1>5, ModelWent
<1>7. (pc \in InRun <=> mem'[s].held = "none") /\ pc \notin Projected
  BY <1>6 DEF InRun, Projected
<1>8. open' \in BOOLEAN
  BY BodyOf DEF ReplayModel, durableVars
<1>9. QED
  BY <1>2, <1>3, <1>6, <1>7, <1>8, WentOn DEF ReplayModel, durableVars

LEMMA CallModelStands ==
  ASSUME Standing, NEW s \in Submissions, CallModel(s)
  PROVE  Standing'
<1>1. EngineTypes /\ mem[s] \in MemRec /\ journal[s] \in JournalRec /\ BodyAt(s)
  BY BodyOf
<1>2. exec[s] = "running" /\ mem[s].pc = "calling"
  BY DEF CallModel, At
<1>3. ~mem[s].took /\ mem[s].held = "none"
  BY <1>2, BodyOf, Places
<1>4. PICK result \in {"text", "asks", "fails"} :
        /\ journal' = [journal EXCEPT ![s].models = Append(@, result)]
        /\ AfterModel(s, result)
  BY DEF CallModel, Results
<1>5. PICK pc \in {"draining", "reopening", "registering", "releasing"} :
        /\ Went(s, pc) /\ (pc = "reopening" => mem[s].pending # <<>>)
        /\ mem'[s].held = (IF pc = "releasing" THEN "failed" ELSE "none")
  BY <1>1, <1>3, <1>4, ModelWent
<1>6. (pc \in InRun <=> mem'[s].held = "none") /\ pc \notin Projected
  BY <1>5 DEF InRun, Projected
<1> DEFINE to == [journal[s] EXCEPT !.models = Append(@, result)]
<1>7. journal \in [Submissions -> JournalRec] /\ journal' = [journal EXCEPT ![s] = to]
  BY <1>1, <1>4 DEF EngineTypes
<1>8. Append(journal[s].models, result) \in Seq({"text", "asks", "fails"})
  BY <1>1 DEF JournalRec
<1>9. /\ to \in JournalRec /\ to.answer = journal[s].answer /\ to.drains = journal[s].drains
      /\ to.finished = journal[s].finished
  BY <1>1, <1>8 DEF JournalRec
<1> HIDE DEF to
<1>10. /\ journal' \in [Submissions -> JournalRec] /\ journal'[s] = to
       /\ \A t \in Submissions \ {s} : journal'[t] = journal[t]
  BY <1>7, <1>9
<1>11. EngineTypes'
  BY <1>1, <1>5, <1>10 DEF EngineTypes, CallModel, ghosts, Went
<1>12. BodyAt(s)'
  BY <1>1, <1>2, <1>3, <1>5, <1>6, <1>9, <1>10 DEF BodyAt, CallModel, Went, ghosts
<1>13. Past(s)' => Past(s)
  BY <1>5, <1>6, <1>9, <1>10 DEF Past, CallModel, Went
<1>14. Rests(s)
  BY <1>2, <1>5, <1>10, <1>11, <1>12, <1>13 DEF Rests, Others, Went, CallModel, storeVars, ghosts
<1>15. QED
  BY <1>14, Rested

LEMMA ObserveStands ==
  ASSUME Standing, NEW s \in Submissions, Observe(s)
  PROVE  Standing'
<1>1. EngineTypes /\ mem[s] \in MemRec /\ journal[s] \in JournalRec /\ BodyAt(s)
  BY BodyOf
<1>2. exec[s] = "running" /\ mem[s].pc = "asking" /\ deferred[s] # NoPrompt
  BY DEF Observe, At
<1>3. ~mem[s].took /\ mem[s].held = "none"
  BY <1>2, BodyOf, Places
<1>4. "resumed" \in InRun /\ "resumed" \notin Projected
  BY DEF InRun, Projected
<1>5. Went(s, "resumed") /\ mem'[s].held = "none"
  BY <1>1, <1>3, <1>4, GotoWent DEF Observe
<1> DEFINE answer == IF journal[s].answer = NoPrompt THEN deferred[s] ELSE journal[s].answer
           to == [journal[s] EXCEPT !.answer = answer]
<1>6. journal \in [Submissions -> JournalRec] /\ journal' = [journal EXCEPT ![s] = to]
  BY <1>1 DEF EngineTypes, Observe
<1>7. answer \in Answers \union {NoPrompt}
  BY <1>1 DEF JournalRec, EngineTypes
<1> HIDE DEF answer
<1>8. /\ to \in JournalRec /\ to.models = journal[s].models /\ to.drains = journal[s].drains
      /\ to.finished = journal[s].finished
  BY <1>1, <1>7 DEF JournalRec
<1> HIDE DEF to
<1>9. /\ journal' \in [Submissions -> JournalRec] /\ journal'[s] = to
      /\ \A t \in Submissions \ {s} : journal'[t] = journal[t]
  BY <1>6, <1>8
<1>10. EngineTypes'
  BY <1>1, <1>5, <1>9 DEF EngineTypes, Observe, ghosts, Went
<1>11. BodyAt(s)'
  BY <1>1, <1>2, <1>3, <1>4, <1>5, <1>8, <1>9 DEF BodyAt, Observe, Went, ghosts
<1>12. Past(s)' => Past(s)
  BY <1>4, <1>5, <1>8, <1>9 DEF Past, Observe, Went
<1>13. Rests(s)
  BY <1>2, <1>5, <1>9, <1>10, <1>11, <1>12 DEF Rests, Others, Went, Observe, storeVars, ghosts
<1>14. QED
  BY <1>13, Rested

LEMMA CheckInterruptStands ==
  ASSUME Standing, NEW s \in Submissions, CheckInterrupt(s)
  PROVE  Standing'
<1>1. EngineTypes /\ open' \in BOOLEAN
  BY BodyOf DEF CheckInterrupt, durableVars
<1>2. exec[s] = "running" /\ mem[s].pc = "resumed"
  BY DEF CheckInterrupt, At
<1>3. ~mem[s].took /\ mem[s].held = "none"
  BY <1>2, BodyOf, Places
<1>4. "removing" \in InRun /\ "interrupted" \in Tags /\ "releasing" \in Ending
  BY DEF InRun, Ending, Tags
<1>5. \/ Went(s, "releasing") /\ mem'[s].held = "interrupted"
      \/ Went(s, "removing") /\ mem'[s].held = "none"
  BY <1>1, <1>3, <1>4, GotoWent, EndsWent DEF CheckInterrupt
<1>6. QED
  BY <1>1, <1>2, <1>3, <1>5, WentOn DEF CheckInterrupt, durableVars, InRun, Projected

LEMMA InterruptedStands ==
  ASSUME Standing, NEW s \in Submissions, Interrupted(s)
  PROVE  Standing'
<1>1. EngineTypes /\ open' \in BOOLEAN
  BY BodyOf DEF Interrupted, durableVars
<1>2. exec[s] = "running" /\ ~mem[s].took /\ "interrupted" \in Tags
  BY DEF Interrupted, Tags
<1>3. Went(s, "releasing") /\ mem'[s].held = "interrupted"
  BY <1>1, <1>2, EndsWent DEF Interrupted
<1>4. QED
  BY <1>1, <1>2, <1>3, WentOn DEF Interrupted, durableVars, InRun, Projected

LEMMA PublishCloseStands ==
  ASSUME Standing, NEW s \in Submissions, PublishClose(s)
  PROVE  Standing'
<1>1. EngineTypes /\ open' \in BOOLEAN
  BY BodyOf DEF PublishClose
<1>2. exec[s] = "running" /\ mem[s].pc = "closing"
  BY DEF PublishClose, At
<1>3. ~mem[s].took /\ mem[s].held = "none"
  BY <1>2, BodyOf, Places
<1>4. "closed" \in InRun
  BY DEF InRun
<1>5. Went(s, "closed") /\ mem'[s].held = "none"
  BY <1>1, <1>3, <1>4, GotoWent DEF PublishClose
<1>6. QED
  BY <1>1, <1>2, <1>3, <1>5, WentOn DEF PublishClose, InRun, Projected

LEMMA ClearOpenStands ==
  ASSUME Standing, NEW s \in Submissions, ClearOpen(s)
  PROVE  Standing'
<1>1. EngineTypes /\ open' \in BOOLEAN
  BY BodyOf DEF ClearOpen
<1>2. exec[s] = "running" /\ mem[s].pc = "clearing"
  BY DEF ClearOpen, At
<1>3. ~mem[s].took /\ mem[s].held # "none"
  BY <1>2, BodyOf, Places DEF BodyAt, InRun
<1>4. Went(s, "clearingIntent") /\ mem'[s].held = mem[s].held
  BY <1>1, Places, GotoWent DEF ClearOpen
<1>5. QED
  BY <1>1, <1>2, <1>3, <1>4, WentOn DEF ClearOpen, InRun, Projected

LEMMA ReplayFinishStands ==
  ASSUME Standing, NEW s \in Submissions, ReplayFinish(s)
  PROVE  Standing'
<1>1. EngineTypes /\ open' \in BOOLEAN
  BY BodyOf DEF ReplayFinish, durableVars
<1>2. exec[s] = "running" /\ mem[s].pc = "clearing" /\ Past(s)
  BY DEF ReplayFinish, At, Past
<1>3. ~mem[s].took /\ mem[s].held # "none"
  BY <1>2, BodyOf, Places DEF BodyAt, InRun
<1>4. Went(s, "flushing") /\ mem'[s].held = mem[s].held
  BY <1>1, GotoWent DEF ReplayFinish, Ending
<1>5. QED
  BY <1>1, <1>2, <1>3, <1>4, WentOn DEF ReplayFinish, durableVars, InRun

LEMMA ClearIntentStands ==
  ASSUME Standing, NEW s \in Submissions, ClearIntent(s)
  PROVE  Standing'
<1>1. EngineTypes /\ BodyAt(s)
  BY BodyOf
<1>2. exec[s] = "running" /\ mem[s].pc = "clearingIntent"
  BY DEF ClearIntent, At
<1>3. ~mem[s].took /\ mem[s].held # "none"
  BY <1>2, BodyOf, Places DEF BodyAt, InRun
<1>4. Went(s, "finishing") /\ mem'[s].held = mem[s].held
  BY <1>1, GotoWent DEF ClearIntent, Ending
<1>5. EngineTypes'
  BY <1>1, <1>4 DEF EngineTypes, ClearIntent, ghosts, Went
<1>6. BodyAt(s)'
  BY <1>1, <1>2, <1>3, <1>4 DEF BodyAt, ClearIntent, Went, ghosts, InRun
<1>7. Past(s)' => Past(s)
  BY <1>4 DEF Past, ClearIntent, Went, Projected
<1>8. Rests(s)
  BY <1>2, <1>4, <1>5, <1>6, <1>7 DEF Rests, Others, Went, ClearIntent, storeVars, ghosts
<1>9. QED
  BY <1>8, Rested

LEMMA JournalFinishStands ==
  ASSUME Standing, NEW s \in Submissions, JournalFinish(s)
  PROVE  Standing'
<1>1. EngineTypes /\ BodyAt(s) /\ journal[s] \in JournalRec
  BY BodyOf
<1>2. exec[s] = "running" /\ mem[s].pc = "recording"
  BY DEF JournalFinish, At
<1>3. ~mem[s].took /\ mem[s].held # "none"
  BY <1>2, BodyOf, Places DEF BodyAt, InRun
<1>4. Went(s, "flushing") /\ mem'[s].held = mem[s].held
  BY <1>1, GotoWent DEF JournalFinish, Ending
<1> DEFINE to == [journal[s] EXCEPT !.finished = "ok"]
<1>5. journal \in [Submissions -> JournalRec] /\ journal' = [journal EXCEPT ![s] = to]
  BY <1>1 DEF EngineTypes, JournalFinish
<1>6. /\ to \in JournalRec /\ to.models = journal[s].models /\ to.drains = journal[s].drains
      /\ to.answer = journal[s].answer
  BY <1>1 DEF JournalRec
<1> HIDE DEF to
<1>7. /\ journal' \in [Submissions -> JournalRec] /\ journal'[s] = to
      /\ \A t \in Submissions \ {s} : journal'[t] = journal[t]
  BY <1>5, <1>6
<1>8. EngineTypes'
  BY <1>1, <1>4, <1>7 DEF EngineTypes, JournalFinish, ghosts, Went
<1>9. BodyAt(s)'
  BY <1>1, <1>2, <1>3, <1>4, <1>6, <1>7 DEF BodyAt, JournalFinish, Went, ghosts, InRun
<1>10. Past(s)
  BY <1>2 DEF Past, Projected
<1>11. Rests(s)
  BY <1>2, <1>4, <1>7, <1>8, <1>9, <1>10 DEF Rests, Others, Went, JournalFinish, storeVars, ghosts
<1>12. QED
  BY <1>11, Rested

LEMMA FlushTerminalStands ==
  ASSUME Standing, NEW s \in Submissions, FlushTerminal(s)
  PROVE  Standing'
<1>1. EngineTypes /\ BodyAt(s) /\ mem[s] \in MemRec
  BY BodyOf
<1>2. exec[s] = "running" /\ mem[s].pc = "flushing"
  BY DEF FlushTerminal, At
<1>3. ~mem[s].took /\ mem[s].held \in Tags
  BY <1>1, <1>2, BodyOf, Places DEF BodyAt, InRun, MemRec
<1>4. Went(s, "ending") /\ mem'[s].held = mem[s].held
  BY <1>1, GotoWent DEF FlushTerminal, Ending
<1>5. /\ log' \in [Submissions -> SUBSET Tags]
      /\ \A t \in Submissions \ {s} : log'[t] = log[t]
  BY <1>1, <1>3 DEF EngineTypes, FlushTerminal
<1>6. EngineTypes'
  BY <1>1, <1>4, <1>5 DEF EngineTypes, FlushTerminal, durableVars, ghosts, Went
<1>7. BodyAt(s)'
  BY <1>1, <1>2, <1>3, <1>4, Places DEF BodyAt, FlushTerminal, Went, durableVars, ghosts, InRun
<1>8. Past(s)
  BY <1>2 DEF Past, Projected
<1>9. Rests(s)
  BY <1>2, <1>4, <1>5, <1>6, <1>7, <1>8 DEF Rests, Others, Went, FlushTerminal, durableVars, storeVars, ghosts
<1>10. QED
  BY <1>9, Rested

LEMMA TakeStands ==
  ASSUME Standing, NEW s \in Submissions, Take(s)
  PROVE  Standing'
<1>1. EngineTypes /\ BodyAt(s) /\ mem[s] \in MemRec /\ journal[s] \in JournalRec
  BY BodyOf
<1>2. /\ exec[s] = "running" /\ mem[s].pc \in Draining
      /\ ~(mem[s].drains < Len(journal[s].drains))
  BY DEF Take, Journalled
<1>3. mem[s].drains >= Len(journal[s].drains)
  BY <1>1, <1>2 DEF MemRec, JournalRec
<1>4. /\ rows' \subseteq ItemRec /\ IsFiniteSet(rows')
      /\ mem' \in [Submissions -> MemRec] /\ \A t \in Submissions \ {s} : mem'[t] = mem[t]
      /\ mem'[s].pc = mem[s].pc /\ mem'[s].drains = mem[s].drains /\ mem'[s].held = mem[s].held
  BY <1>1, TakeWent
<1>5. EngineTypes'
  BY <1>1, <1>4 DEF EngineTypes, Take, ghosts
<1>6. mem[s].pc # "reopening"
  BY <1>2 DEF Draining
<1>7. BodyAt(s)'
  BY <1>1, <1>2, <1>3, <1>4, <1>6 DEF BodyAt, Take, ghosts
<1>8. Past(s)' => Past(s)
  BY <1>4 DEF Past, Take
<1>9. Rests(s)
  BY <1>2, <1>4, <1>5, <1>7, <1>8 DEF Rests, Others, Take, storeVars, ghosts
<1>10. QED
  BY <1>9, Rested

LEMMA Drained ==
  ASSUME EngineTypes, NEW s \in Submissions, BodyAt(s), mem[s].pc \in Draining,
         NEW batch \in Seq(Nat), AfterDrain(s, batch)
  PROVE  /\ mem' \in [Submissions -> MemRec] /\ \A t \in Submissions \ {s} : mem'[t] = mem[t]
         /\ ~mem'[s].took /\ mem'[s].pc \notin Projected
         /\ (mem'[s].pc \in InRun) <=> (mem'[s].held = "none")
         /\ mem'[s].pc = "reopening" => mem'[s].pending # <<>>
<1>1. /\ "clearing" \notin InRun /\ "releasing" \notin InRun /\ {"reopening", "closing"} \subseteq InRun
      /\ {"draining", "closed"} \subseteq InRun
      /\ {"clearing", "releasing", "reopening", "closing"} \cap Projected = {}
  BY DEF InRun, Projected
<1>2. (mem[s].pc \in InRun) <=> (mem[s].held = "none")
  BY DEF BodyAt
<1>3. mem[s].pc \in {"draining", "closed", "releasing"}
  BY DEF Draining
<1>4. /\ mem' \in [Submissions -> MemRec] /\ \A t \in Submissions \ {s} : mem'[t] = mem[t]
      /\ mem'[s].took = FALSE
  BY DrainWent
<1>5. \/ /\ mem[s].pc = "releasing" /\ mem'[s].pc = "clearing" /\ mem'[s].held = mem[s].held
      \/ /\ mem[s].pc # "releasing" /\ mem'[s].pc = "reopening"
         /\ mem'[s].pending # <<>> /\ mem'[s].held = mem[s].held
      \/ mem[s].pc = "draining" /\ mem'[s].pc = "closing" /\ mem'[s].held = mem[s].held
      \/ mem[s].pc = "closed" /\ mem'[s].pc = "releasing" /\ mem'[s].held = "completed"
  BY DrainWent
<1>6. QED
  BY <1>1, <1>2, <1>3, <1>4, <1>5

LEMMA ReplayDrainStands ==
  ASSUME Standing, NEW s \in Submissions, ReplayDrain(s)
  PROVE  Standing'
<1>1. EngineTypes /\ BodyAt(s) /\ mem[s] \in MemRec /\ journal[s] \in JournalRec /\ open' \in BOOLEAN
  BY BodyOf DEF ReplayDrain, durableVars
<1> DEFINE batch == journal[s].drains[mem[s].drains + 1]
<1>2. /\ exec[s] = "running" /\ mem[s].pc \in Draining /\ mem[s].drains < Len(journal[s].drains)
      /\ AfterDrain(s, batch)
  BY DEF ReplayDrain, Journalled
<1>3. batch \in Seq(Nat)
  <2>1. mem[s].drains \in Nat /\ journal[s].drains \in Seq(Seq(Nat))
    BY <1>1 DEF MemRec, JournalRec
  <2>2. mem[s].drains + 1 \in 1 .. Len(journal[s].drains)
    BY <1>2, <2>1
  <2>3. QED
    BY <2>1, <2>2
<1> HIDE DEF batch
<1>4. /\ mem' \in [Submissions -> MemRec] /\ \A t \in Submissions \ {s} : mem'[t] = mem[t]
      /\ ~mem'[s].took /\ mem'[s].pc \notin Projected
      /\ mem'[s].pc \in InRun <=> mem'[s].held = "none"
      /\ mem'[s].pc = "reopening" => mem'[s].pending # <<>>
  BY <1>1, <1>2, <1>3, Drained
<1>5. reopened' \subseteq {0} \union Submissions
  BY <1>1 DEF EngineTypes, ReplayDrain, ghosts
<1>6. QED
  BY <1>1, <1>2, <1>4, <1>5, OnlyMoved DEF ReplayDrain, durableVars, ghosts

LEMMA JournalDrainStands ==
  ASSUME Standing, NEW s \in Submissions, JournalDrain(s)
  PROVE  Standing'
<1>1. EngineTypes /\ BodyAt(s) /\ mem[s] \in MemRec /\ journal[s] \in JournalRec
  BY BodyOf
<1>2. /\ exec[s] = "running" /\ mem[s].pc \in Draining /\ AfterDrain(s, mem[s].batch)
      /\ mem[s].batch \in Seq(Nat)
  BY <1>1 DEF JournalDrain, BodyAt, MemRec
<1>3. /\ mem' \in [Submissions -> MemRec] /\ \A t \in Submissions \ {s} : mem'[t] = mem[t]
      /\ ~mem'[s].took /\ mem'[s].pc \notin Projected
      /\ mem'[s].pc \in InRun <=> mem'[s].held = "none"
      /\ mem'[s].pc = "reopening" => mem'[s].pending # <<>>
  BY <1>1, <1>2, Drained
<1> DEFINE to == [journal[s] EXCEPT !.drains = Append(@, mem[s].batch)]
<1>4. journal \in [Submissions -> JournalRec] /\ journal' = [journal EXCEPT ![s] = to]
  BY <1>1 DEF EngineTypes, JournalDrain
<1>5. journal[s].drains \in Seq(Seq(Nat))
  BY <1>1 DEF JournalRec
<1>6. Append(journal[s].drains, mem[s].batch) \in Seq(Seq(Nat))
  BY <1>2, <1>5
<1>7. /\ to \in JournalRec /\ to.answer = journal[s].answer /\ to.models = journal[s].models
      /\ to.finished = journal[s].finished
  BY <1>1, <1>6 DEF JournalRec
<1> HIDE DEF to
<1>8. /\ journal' \in [Submissions -> JournalRec] /\ journal'[s] = to
      /\ \A t \in Submissions \ {s} : journal'[t] = journal[t]
  BY <1>4, <1>7
<1>9. EngineTypes'
  BY <1>1, <1>3, <1>8 DEF EngineTypes, JournalDrain, ghosts
<1>10. BodyAt(s)'
  BY <1>1, <1>2, <1>3, <1>7, <1>8 DEF BodyAt, JournalDrain, ghosts
<1>11. Past(s)' => Past(s)
  BY <1>3, <1>7, <1>8 DEF Past, JournalDrain
<1>12. Rests(s)
  BY <1>2, <1>3, <1>8, <1>9, <1>10, <1>11 DEF Rests, Others, JournalDrain, storeVars, ghosts
<1>13. QED
  BY <1>12, Rested

LEMMA NextRunStands ==
  ASSUME Standing, NEW s \in Submissions, NextRun(s)
  PROVE  Standing'
<1>1. EngineTypes /\ BodyAt(s) /\ open' \in BOOLEAN
  BY BodyOf DEF NextRun
<1>2. exec[s] = "running" /\ mem[s].pc = "reopening" /\ mem[s].pending # <<>>
  BY <1>1 DEF NextRun, At, BodyAt
<1>3. ~mem[s].took /\ mem[s].held = "none"
  BY <1>2, BodyOf, Places
<1>4. /\ mem' \in [Submissions -> MemRec] /\ \A t \in Submissions \ {s} : mem'[t] = mem[t]
      /\ mem'[s].pc = "calling" /\ mem'[s].took = mem[s].took /\ mem'[s].held = mem[s].held
  BY <1>1, <1>2, NextRunWent
<1>5. row.claim.sub \in {0} \union Submissions
  BY Constants DEF Standing, StoreTypes, RowRec, ClaimRec
<1>6. reopened' \subseteq {0} \union Submissions
  BY <1>1, <1>5 DEF EngineTypes, NextRun
<1>7. /\ UNCHANGED <<storeVars, intents, rows, exec, journal, deferred, client, log, faults>>
      /\ UNCHANGED <<accepted, asked, acked, stored, freed, beside>>
  BY DEF NextRun
<1>8. /\ ~mem'[s].took /\ mem'[s].pc \notin Projected /\ mem'[s].pc # "reopening"
      /\ mem'[s].pc \in InRun /\ mem'[s].held = "none"
  BY <1>3, <1>4, Places
<1>9. QED
  BY <1>1, <1>2, <1>4, <1>6, <1>7, <1>8, OnlyMoved

\* A body that is gone, by a crash, a suspension or its end.
LEMMA BodyGone ==
  ASSUME EngineTypes, NEW s \in Submissions, mem' = [mem EXCEPT ![s] = Fresh]
  PROVE  /\ mem' \in [Submissions -> MemRec] /\ mem'[s] = Fresh
         /\ \A t \in Submissions \ {s} : mem'[t] = mem[t]
         /\ Fresh.pc \in InRun /\ Fresh.pc \notin Projected /\ Fresh.pc # "reopening"
         /\ Fresh.held = "none" /\ ~Fresh.took
BY FreshBody DEF EngineTypes, InRun, Projected

LEMMA CrashStands ==
  ASSUME Standing, NEW s \in Submissions, Crash(s)
  PROVE  Standing'
<1>1. EngineTypes /\ BodyAt(s) /\ exec[s] = "running"
  BY BodyOf DEF Crash
<1>2. /\ mem' \in [Submissions -> MemRec] /\ mem'[s] = Fresh
      /\ \A t \in Submissions \ {s} : mem'[t] = mem[t]
  BY <1>1, BodyGone DEF Crash
<1>3. faults' \in 0 .. MaxFaults
  BY <1>1, Constants DEF EngineTypes, Crash
<1>4. EngineTypes'
  BY <1>1, <1>2, <1>3 DEF EngineTypes, Crash, durableVars, ghosts
<1>5. BodyAt(s)'
  BY <1>1, <1>2, FreshBody DEF BodyAt, Crash, durableVars, ghosts, InRun
<1>6. Past(s)' => Past(s)
  BY <1>2, FreshBody DEF Past, Crash, durableVars, Projected
<1>7. Rests(s)
  BY <1>1, <1>2, <1>4, <1>5, <1>6 DEF Rests, Others, Crash, durableVars, storeVars, ghosts
<1>8. QED
  BY <1>7, Rested

LEMMA ParkStands ==
  ASSUME Standing, NEW s \in Submissions, Park(s)
  PROVE  Standing'
<1>1. EngineTypes /\ BodyAt(s) /\ exec[s] = "running"
  BY BodyOf DEF Park, At
<1>2. /\ mem' \in [Submissions -> MemRec] /\ mem'[s] = Fresh
      /\ \A t \in Submissions \ {s} : mem'[t] = mem[t]
  BY <1>1, BodyGone DEF Park
<1>3. /\ exec' \in [Submissions -> {"none", "running", "parked", "ended"}] /\ exec'[s] = "parked"
      /\ \A t \in Submissions \ {s} : exec'[t] = exec[t]
  BY <1>1 DEF EngineTypes, Park
<1>4. EngineTypes'
  BY <1>1, <1>2, <1>3 DEF EngineTypes, Park, ghosts
<1>5. BodyAt(s)'
  BY <1>1, <1>2, <1>3, FreshBody DEF BodyAt, Park, ghosts, InRun
<1>6. Past(s)' => Past(s)
  BY <1>2, FreshBody DEF Past, Park, Projected
<1>7. Rests(s)
  BY <1>1, <1>2, <1>3, <1>4, <1>5, <1>6 DEF Rests, Others, Park, storeVars, ghosts
<1>8. QED
  BY <1>7, Rested

LEMMA ResumeStands ==
  ASSUME Standing, NEW s \in Submissions, Resume(s)
  PROVE  Standing'
<1>1. EngineTypes /\ BodyAt(s) /\ exec[s] = "parked"
  BY BodyOf DEF Resume
<1>2. /\ exec' \in [Submissions -> {"none", "running", "parked", "ended"}] /\ exec'[s] = "running"
      /\ \A t \in Submissions \ {s} : exec'[t] = exec[t]
  BY <1>1 DEF EngineTypes, Resume
<1>3. EngineTypes'
  BY <1>1, <1>2 DEF EngineTypes, Resume, ghosts
<1>4. BodyAt(s)'
  BY <1>1, <1>2 DEF BodyAt, Resume, ghosts
<1>5. Past(s)' => Past(s)
  BY DEF Past, Resume
<1>6. Rests(s)
  BY <1>1, <1>2, <1>3, <1>4, <1>5 DEF Rests, Others, Resume, storeVars, ghosts
<1>7. QED
  BY <1>6, Rested

\* An execution that has ended leaves nothing behind.
LEMMA EndedStands ==
  ASSUME Standing, NEW s \in Submissions, exec[s] = "running", Ended(s),
         UNCHANGED <<storeVars, open, intents, rows, client, accepted, asked, beside, reopened>>,
         faults' \in 0 .. MaxFaults
  PROVE  Standing'
<1>1. EngineTypes /\ BodyAt(s)
  BY BodyOf
<1>2. /\ mem' \in [Submissions -> MemRec] /\ mem'[s] = Fresh
      /\ \A t \in Submissions \ {s} : mem'[t] = mem[t]
  BY <1>1, BodyGone DEF Ended
<1>3. /\ exec' \in [Submissions -> {"none", "running", "parked", "ended"}] /\ exec'[s] = "ended"
      /\ \A t \in Submissions \ {s} : exec'[t] = exec[t]
  BY <1>1 DEF EngineTypes, Ended
<1>4. /\ journal' \in [Submissions -> JournalRec] /\ journal'[s] = NoJournal
      /\ deferred' \in [Submissions -> Answers \union {NoPrompt}] /\ deferred'[s] = NoPrompt
      /\ stored' \in [Submissions -> OutcomeRec] /\ stored'[s] = NoOutcome
      /\ \A t \in Submissions \ {s} : /\ journal'[t] = journal[t] /\ deferred'[t] = deferred[t]
                                        /\ stored'[t] = stored[t]
  BY <1>1, NothingKept DEF EngineTypes, Ended
<1>5. /\ acked' \in [Submissions -> SUBSET Answers] /\ log' \in [Submissions -> SUBSET Tags]
      /\ acked'[s] = {} /\ log'[s] = {}
      /\ \A t \in Submissions \ {s} : acked'[t] = acked[t] /\ log'[t] = log[t]
  BY <1>1 DEF EngineTypes, Ended
<1>6. EngineTypes'
  BY <1>1, <1>2, <1>3, <1>4, <1>5 DEF EngineTypes, Ended
<1>7. BodyAt(s)'
  BY <1>2, <1>3, <1>4, <1>5, FreshBody, NothingKept DEF BodyAt, InRun
<1>8. ~Past(s)'
  BY <1>2, <1>4, <1>5, FreshBody, NothingKept DEF Past, Projected
<1>9. Rests(s)
  BY <1>1, <1>2, <1>3, <1>4, <1>5, <1>6, <1>7, <1>8 DEF Rests, Others, storeVars
<1>10. QED
  BY <1>9, Rested

LEMMA CompleteStands ==
  ASSUME Standing, NEW s \in Submissions, Complete(s)
  PROVE  Standing'
<1>1. faults' \in 0 .. MaxFaults
  BY DEF Complete, Standing, EngineTypes
<1>2. QED
  BY <1>1, EndedStands DEF Complete, At

LEMMA FinishFailsStands ==
  ASSUME Standing, NEW s \in Submissions, FinishFails(s)
  PROVE  Standing'
<1>1. faults' \in 0 .. MaxFaults
  BY Constants DEF FinishFails, Standing, EngineTypes
<1>2. QED
  BY <1>1, EndedStands DEF FinishFails, At

\* The question is registered, and its row removed: an answer stays.
LEMMA RegisterStands ==
  ASSUME Standing, NEW s \in Submissions, Register(s)
  PROVE  Standing'
<1>1. EngineTypes /\ BodyAt(s) /\ request \in [Submissions -> RequestRec]
  BY BodyOf DEF Standing, StoreTypes
<1>2. exec[s] = "running" /\ mem[s].pc = "registering"
  BY DEF Register, At
<1>3. ~mem[s].took /\ mem[s].held = "none"
  BY <1>2, BodyOf, Places
<1>4. Went(s, "asking") /\ mem'[s].held = "none"
  BY <1>1, <1>3, GotoWent DEF Register, InRun
<1>5. /\ row' = row /\ request' \in [Submissions -> RequestRec]
      /\ \A t \in Submissions \ {s} : request'[t] = request[t]
      /\ request[s].state = "answered" => request'[s] = request[s]
  BY <1>1, Requested DEF Register, addPendingRequest, storeVars
<1>6. EngineTypes'
  BY <1>1, <1>4 DEF EngineTypes, Register, durableVars, ghosts, Went
<1>7. BodyAt(s)'
  BY <1>1, <1>2, <1>3, <1>4 DEF BodyAt, Register, durableVars, Went, ghosts, InRun
<1>8. Past(s)' => Past(s)
  BY <1>4 DEF Past, Register, durableVars, Went, Projected
<1>9. Rests(s)
  BY <1>2, <1>4, <1>5, <1>6, <1>7, <1>8 DEF Rests, Others, Went, Register, durableVars, ghosts
<1>10. QED
  BY <1>9, Rested

LEMMA ConsumeStands ==
  ASSUME Standing, NEW s \in Submissions, Consume(s)
  PROVE  Standing'
<1>1. EngineTypes /\ BodyAt(s) /\ request \in [Submissions -> RequestRec]
  BY BodyOf DEF Standing, StoreTypes
<1>2. exec[s] = "running" /\ mem[s].pc = "removing"
  BY DEF Consume, At
<1>3. ~mem[s].took /\ mem[s].held = "none"
  BY <1>2, BodyOf, Places
<1>4. PICK pc \in {"draining", "reopening"} :
        /\ Goto(s, pc) /\ (pc = "reopening" => mem[s].pending # <<>>)
  BY DEF Consume, AfterRun
<1>5. pc \in InRun /\ pc \notin Projected
  BY DEF InRun, Projected
<1>6. Went(s, pc) /\ mem'[s].held = "none"
  BY <1>1, <1>3, <1>4, <1>5, GotoWent
<1>7. /\ row' = row /\ request' \in [Submissions -> RequestRec]
      /\ \A t \in Submissions \ {s} : request'[t] = request[t]
      /\ request[s].state = "answered" => request'[s] = request[s]
  BY <1>1, Requested DEF Consume, removeRequest, storeVars
<1>8. EngineTypes'
  BY <1>1, <1>6 DEF EngineTypes, Consume, durableVars, ghosts, Went
<1>9. BodyAt(s)'
  BY <1>1, <1>2, <1>3, <1>4, <1>5, <1>6 DEF BodyAt, Consume, durableVars, Went, ghosts
<1>10. Past(s)' => Past(s)
  BY <1>5, <1>6 DEF Past, Consume, durableVars, Went
<1>11. Rests(s)
  BY <1>2, <1>6, <1>7, <1>8, <1>9, <1>10 DEF Rests, Others, Went, Consume, durableVars, ghosts
<1>12. QED
  BY <1>11, Rested

-----------------------------------------------------------------------------
(* The claim ends *)

LEMMA NothingRequested ==
  /\ NothingAsked \in [Submissions -> RequestRec] /\ \A s \in Submissions : NothingAsked[s] = Absent
BY Constants, Requested DEF NothingAsked

LEMMA Freed ==
  ASSUME Standing, NEW s \in Submissions, NEW history \in 0 .. MaxSubmissions, finish(s, history),
         exec[s] # "none", EngineTypes', BodyAt(s)', Others(s), UNCHANGED <<exec, deferred, acked, asked>>,
         \A c \in Clients : client'[c] = client[c] \/ client'[c].pc = "idle"
  PROVE  Standing'
<1>1. /\ row \in RowRec /\ row.claim.sub = s
      /\ row' = [row EXCEPT !.claim = NoClaim, !.history = history] /\ request' = NothingAsked
      /\ row.exists
  BY DEF finish, Standing, StoreTypes
<1>2. /\ row' \in RowRec /\ row'.exists /\ row'.count = row.count /\ row'.claim = NoClaim
  <2> DEFINE half == [row EXCEPT !.claim = NoClaim]
             to == [half EXCEPT !.history = history]
  <2>1. to = [row EXCEPT !.claim = NoClaim, !.history = history]
    BY Zenon
  <2>2. row' = to
    BY <1>1, <2>1
  <2>3. half \in RowRec /\ half.exists /\ half.count = row.count /\ half.claim = NoClaim
    BY <1>1 DEF RowRec
  <2> HIDE DEF half
  <2>4. to \in RowRec /\ to.exists /\ to.count = row.count /\ to.claim = NoClaim
    BY <2>3 DEF RowRec
  <2>5. QED
    BY <2>2, <2>4
<1>3. StoreTypes'
  BY <1>1, <1>2, NothingRequested DEF StoreTypes
<1>4. ASSUME NEW t \in Submissions PROVE BodyAt(t)' /\ ClaimAt(t)' /\ KeptAt(t)'
  <2>1. BodyAt(t) /\ ClaimAt(t) /\ row'.claim.sub # t /\ request'[t] = Absent
    BY <1>1, <1>2, Constants, NothingRequested DEF Standing
  <2>2. BodyAt(t)'
    <3>1. CASE t = s
      BY <3>1
    <3>2. CASE t # s
      BY <2>1, <3>2 DEF BodyAt, Others
    <3>3. QED
      BY <3>1, <3>2
  <2>3. ClaimAt(t)'
    BY <1>1, <1>2, <2>1 DEF ClaimAt
  <2>4. KeptAt(t)'
    BY <2>1 DEF KeptAt
  <2>5. QED
    BY <2>2, <2>3, <2>4
<1>5. ASSUME NEW c \in Clients PROVE CallAt(c)'
  <2>1. CallAt(c)
    BY DEF Standing
  <2>2. QED
    BY <1>2, <2>1 DEF CallAt
<1>6. QED
  BY <1>3, <1>4, <1>5 DEF Standing

LEMMA ReportTyped ==
  ASSUME EngineTypes, NEW s \in Submissions
  PROVE  ReportOf(s) \in OutcomeRec
<1>1. mem[s] \in MemRec /\ journal[s] \in JournalRec
  BY DEF EngineTypes
<1>2. /\ mem[s].held \in {"none"} \union Tags /\ mem[s].applied \in Seq(Nat)
      /\ journal[s].answer \in Answers \union {NoPrompt}
  BY <1>1 DEF MemRec, JournalRec
<1>3. QED
  BY <1>2 DEF ReportOf, OutcomeRec

LEMMA FinishClaimStands ==
  ASSUME Standing, NEW s \in Submissions, FinishClaim(s)
  PROVE  Standing'
<1>1. EngineTypes /\ BodyAt(s)
  BY BodyOf
<1>2. exec[s] = "running" /\ mem[s].pc = "finishing"
  BY DEF FinishClaim, At
<1>3. ~mem[s].took /\ mem[s].held # "none"
  BY <1>2, BodyOf, Places DEF BodyAt, InRun
<1>4. Went(s, "recording") /\ mem'[s].held = mem[s].held
  BY <1>1, GotoWent DEF FinishClaim, Ending
<1>5. /\ stored' \in [Submissions -> OutcomeRec]
      /\ \A t \in Submissions \ {s} : stored'[t] = stored[t]
  BY <1>1, ReportTyped DEF FinishClaim, EngineTypes
<1>6. EngineTypes'
  BY <1>1, <1>4, <1>5 DEF EngineTypes, FinishClaim, durableVars, Went
<1>7. BodyAt(s)'
  BY <1>1, <1>2, <1>3, <1>4 DEF BodyAt, FinishClaim, durableVars, Went, InRun
<1>8. Others(s)
  BY <1>4, <1>5 DEF Others, FinishClaim, durableVars, Went
<1>9. CASE row.claim.sub # s /\ UNCHANGED storeVars
  <2>1. Rests(s)
    BY <1>2, <1>6, <1>7, <1>8, <1>9 DEF Rests, FinishClaim, durableVars, storeVars
  <2>2. QED
    BY <2>1, Rested
<1>10. CASE finish(s, s)
  BY <1>2, <1>6, <1>7, <1>8, <1>10, Constants, Freed DEF FinishClaim, durableVars
<1>11. QED
  BY <1>9, <1>10 DEF FinishClaim

-----------------------------------------------------------------------------
(* The calls *)

CallPlaces == {"idle", "opening", "executing", "attaching", "gathering", "releasing",
               "delivering", "taking", "signalling", "refusing"}

LEMMA CallWent ==
  ASSUME EngineTypes, NEW c \in Clients, NEW pc \in CallPlaces, NEW s \in 0 .. MaxSubmissions,
         NEW a \in Answers \union {NoPrompt}, Call(c, pc, s, a)
  PROVE  /\ client' \in [Clients -> ClientRec]
         /\ client'[c].pc = pc /\ client'[c].sub = s /\ client'[c].answer = a
         /\ \A d \in Clients \ {c} : client'[d] = client[d]
<1> DEFINE to == [pc |-> pc, sub |-> s, answer |-> a]
<1>1. client \in [Clients -> ClientRec] /\ client' = [client EXCEPT ![c] = to]
  BY DEF EngineTypes, Call
<1>2. to \in ClientRec /\ to.pc = pc /\ to.sub = s /\ to.answer = a
  BY DEF ClientRec, CallPlaces
<1> HIDE DEF to
<1>3. QED
  BY <1>1, <1>2

LEMMA StepWent ==
  ASSUME EngineTypes, NEW c \in Clients, NEW pc \in CallPlaces, Step(c, pc)
  PROVE  /\ client' \in [Clients -> ClientRec]
         /\ client'[c].pc = pc /\ client'[c].sub = client[c].sub /\ client'[c].answer = client[c].answer
         /\ \A d \in Clients \ {c} : client'[d] = client[d]
<1> DEFINE to == [client[c] EXCEPT !.pc = pc]
<1>1. client \in [Clients -> ClientRec] /\ client' = [client EXCEPT ![c] = to]
  BY DEF EngineTypes, Step
<1>2. to \in ClientRec /\ to.pc = pc /\ to.sub = client[c].sub /\ to.answer = client[c].answer
  BY <1>1 DEF ClientRec, CallPlaces
<1> HIDE DEF to
<1>3. QED
  BY <1>1, <1>2

LEMMA ReturnWent ==
  ASSUME EngineTypes, NEW c \in Clients, Return(c)
  PROVE  /\ client' \in [Clients -> ClientRec] /\ client'[c].pc = "idle"
         /\ \A d \in Clients \ {c} : client'[d] = client[d]
BY ClientRecords DEF EngineTypes, Return

LEMMA Typed ==
  ASSUME Standing
  PROVE  /\ EngineTypes /\ row \in RowRec /\ request \in [Submissions -> RequestRec]
         /\ row.claim \in ClaimRec \union {NoClaim} /\ row.claim.sub \in 0 .. MaxSubmissions
         /\ row.claim.exec \in {0} \union Submissions /\ row.count \in 0 .. MaxSubmissions
         /\ row.history \in 0 .. MaxSubmissions
         /\ \A s \in Submissions : row.claim.sub = s => row.claim # NoClaim /\ s = row.count
         /\ row.claim # NoClaim => row.claim.sub \in Submissions /\ row.claim.sub = row.count
<1>1. EngineTypes /\ row \in RowRec /\ request \in [Submissions -> RequestRec] /\ StoreTypes
  BY DEF Standing, StoreTypes
<1>2. /\ row.claim \in ClaimRec \union {NoClaim} /\ row.count \in 0 .. MaxSubmissions
      /\ row.history \in 0 .. MaxSubmissions
  BY <1>1 DEF RowRec
<1>3. /\ row.claim \in ClaimRec => row.claim.sub \in Submissions /\ row.claim.exec \in {0} \union Submissions
  BY DEF ClaimRec
<1>4. row.claim.sub \in 0 .. MaxSubmissions /\ row.claim.exec \in {0} \union Submissions
  BY <1>2, <1>3, Constants
<1>5. row.claim # NoClaim => row.claim.sub = row.count
  BY <1>1 DEF StoreTypes
<1>6. QED
  BY <1>1, <1>2, <1>3, <1>4, <1>5, Constants

\* What touches no submission.
LEMMA Untouched ==
  ASSUME Standing, EngineTypes', asked \subseteq asked',
         UNCHANGED <<row, request, exec, mem, journal, deferred, log, acked, stored>>,
         \A c \in Clients : client'[c] = client[c] \/ CallAt(c)'
  PROVE  Standing'
<1>1. 1 \in Submissions
  BY SubmissionAssumption DEF Submissions
<1>2. BodyAt(1) /\ ClaimAt(1) /\ KeptAt(1)
  BY <1>1 DEF Standing
<1>3. BodyAt(1)' /\ ClaimAt(1)' /\ KeptAt(1)'
  BY <1>2 DEF BodyAt, ClaimAt, KeptAt, Past
<1>4. Touches(1)
  BY <1>3, Typed DEF Touches, Others
<1>5. QED
  BY <1>1, <1>4, Touched

LEMMA FollowUpStands ==
  ASSUME Standing, followUp
  PROVE  Standing'
<1>1. EngineTypes /\ accepted \in Seq(Nat) /\ rows \subseteq ItemRec /\ IsFiniteSet(rows)
  BY Typed DEF EngineTypes
<1>2. /\ rows' = rows \union {[value |-> Len(accepted) + 1, claim |-> Unclaimed]}
      /\ accepted' = Append(accepted, row.claim.sub)
  BY DEF followUp
<1>3. [value |-> Len(accepted) + 1, claim |-> Unclaimed] \in ItemRec
  BY <1>1 DEF ItemRec, Unclaimed
<1>4. rows' \subseteq ItemRec /\ IsFiniteSet(rows')
  BY <1>1, <1>2, <1>3, FS_AddElement
<1>5. row.claim.sub \in Nat
  BY Typed, Constants
<1>6. accepted' \in Seq(Nat)
  BY <1>1, <1>2, <1>5
<1>7. EngineTypes'
  BY <1>1, <1>4, <1>6 DEF EngineTypes, followUp
<1>8. QED
  BY <1>7, Untouched DEF followUp, storeVars

LEMMA OpenAdmissionStands ==
  ASSUME Standing, NEW c \in Clients, OpenAdmission(c)
  PROVE  Standing'
<1>1. EngineTypes /\ CallAt(c) /\ client[c].pc = "opening"
  BY Typed DEF Standing, OpenAdmission, In
<1>2. /\ client' \in [Clients -> ClientRec] /\ client'[c].pc = "executing"
      /\ client'[c].sub = client[c].sub
      /\ \A d \in Clients \ {c} : client'[d] = client[d]
  BY <1>1, StepWent DEF OpenAdmission, CallPlaces
<1>3. reopened' \subseteq {0} \union Submissions
  BY <1>1, Typed, Constants DEF EngineTypes, OpenAdmission
<1>4. EngineTypes'
  BY <1>1, <1>2, <1>3 DEF EngineTypes, OpenAdmission
<1>5. CallAt(c)'
  BY <1>1, <1>2 DEF CallAt, OpenAdmission, storeVars
<1>6. QED
  BY <1>2, <1>4, <1>5, Untouched DEF OpenAdmission, storeVars

LEMMA AcquireStands ==
  ASSUME Standing, NEW c \in Clients, Acquire(c)
  PROVE  Standing'
<1>1. EngineTypes /\ row.claim # NoClaim
  BY Typed DEF Acquire, Held
<1>2. row.claim.sub \in Submissions /\ row.claim.sub = row.count
  BY <1>1, Typed
<1>3. PICK pc \in {"opening", "gathering"} :
        /\ Call(c, pc, row.claim.sub, NoPrompt) /\ (pc = "gathering" => row.claim.exec # 0)
  BY DEF Acquire
<1>4. /\ client' \in [Clients -> ClientRec] /\ client'[c].pc = pc /\ client'[c].sub = row.claim.sub
      /\ \A d \in Clients \ {c} : client'[d] = client[d]
  BY <1>1, <1>3, Typed, CallWent DEF CallPlaces
<1>5. EngineTypes'
  BY <1>1, <1>4 DEF EngineTypes, Acquire, durableVars, ghosts
<1>6. ClaimAt(row.claim.sub)
  BY <1>2 DEF Standing
<1>7. pc = "gathering" => exec[row.claim.sub] # "none"
  BY <1>2, <1>3, <1>6 DEF ClaimAt
<1>8. row.count <= row.count
  BY Typed
<1>9. CallAt(c)'
  BY <1>2, <1>4, <1>7, <1>8 DEF CallAt, Acquire, storeVars, durableVars, ghosts
<1>10. QED
  BY <1>4, <1>5, <1>9, Untouched DEF Acquire, storeVars, durableVars, ghosts

LEMMA ClassifyStands ==
  ASSUME Standing, NEW c \in Clients, Classify(c)
  PROVE  Standing'
<1>1. EngineTypes /\ CallAt(c) /\ client[c].pc = "gathering"
  BY Typed DEF Standing, Classify, In
<1>2. UNCHANGED <<row, request, exec, mem, journal, deferred, log, acked, stored, asked>>
  BY DEF Classify, storeVars, durableVars, ghosts
<1>3. client' \in [Clients -> ClientRec] => EngineTypes'
  BY <1>1 DEF EngineTypes, Classify, durableVars, ghosts
<1>4. CASE Step(c, "releasing")
  <2>1. /\ client' \in [Clients -> ClientRec] /\ client'[c].pc = "releasing"
        /\ client'[c].sub = client[c].sub
        /\ \A d \in Clients \ {c} : client'[d] = client[d]
    BY <1>1, <1>4, StepWent DEF CallPlaces
  <2>2. CallAt(c)'
    BY <1>1, <1>2, <2>1 DEF CallAt
  <2>3. QED
    BY <1>2, <1>3, <2>1, <2>2, Untouched
<1>5. CASE Return(c)
  <2>1. /\ client' \in [Clients -> ClientRec] /\ client'[c].pc = "idle"
        /\ \A d \in Clients \ {c} : client'[d] = client[d]
    BY <1>1, <1>5, ReturnWent
  <2>2. CallAt(c)'
    BY <2>1 DEF CallAt
  <2>3. QED
    BY <1>2, <1>3, <2>1, <2>2, Untouched
<1>6. ASSUME NEW r \in recordedAnswers, Call(c, "delivering", r, request[r].answer)
      PROVE  Standing'
  <2>1. r \in Submissions /\ request[r].state = "answered" /\ request[r] \in RequestRec
    BY <1>6, Constants, Typed DEF recordedAnswers
  <2>2. request[r].answer \in Answers /\ request[r] # Absent
    BY <2>1, Requested
  <2>3. exec[r] # "none" /\ r <= row.count
    BY <2>1, <2>2, Constants, Typed DEF Standing, ClaimAt
  <2>4. /\ client' \in [Clients -> ClientRec] /\ client'[c].pc = "delivering"
        /\ client'[c].sub = r /\ client'[c].answer = request[r].answer
        /\ \A d \in Clients \ {c} : client'[d] = client[d]
    BY <1>1, <1>6, <2>1, <2>2, Constants, CallWent DEF CallPlaces
  <2>5. CallAt(c)'
    BY <1>2, <2>1, <2>2, <2>3, <2>4 DEF CallAt
  <2>6. QED
    BY <1>2, <1>3, <2>4, <2>5, Untouched
<1>7. QED
  BY <1>4, <1>5, <1>6 DEF Classify

LEMMA LostStands ==
  ASSUME Standing, NEW c \in Clients, Lost(c)
  PROVE  Standing'
<1>1. EngineTypes
  BY Typed
<1>2. /\ client' \in [Clients -> ClientRec] /\ client'[c].pc = "idle"
      /\ \A d \in Clients \ {c} : client'[d] = client[d]
  BY <1>1, ReturnWent DEF Lost
<1>3. faults' \in 0 .. MaxFaults
  BY <1>1, Constants DEF EngineTypes, Lost
<1>4. EngineTypes'
  BY <1>1, <1>2, <1>3 DEF EngineTypes, Lost, durableVars, ghosts
<1>5. CallAt(c)'
  BY <1>2 DEF CallAt
<1>6. QED
  BY <1>2, <1>4, <1>5, Untouched DEF Lost, storeVars, durableVars, ghosts

LEMMA InterruptStands ==
  ASSUME Standing, NEW c \in Clients, Interrupt(c)
  PROVE  Standing'
<1>1. EngineTypes /\ row.claim # NoClaim
  BY Typed DEF Interrupt, Held
<1>2. row.claim.sub \in Submissions /\ row.claim.sub <= row.count
  BY <1>1, Typed
<1>3. /\ client' \in [Clients -> ClientRec] /\ client'[c].pc = "signalling"
      /\ client'[c].sub = row.claim.sub
      /\ \A d \in Clients \ {c} : client'[d] = client[d]
  BY <1>1, Typed, CallWent DEF Interrupt, CallPlaces
<1>4. EngineTypes'
  BY <1>1, <1>2, <1>3 DEF EngineTypes, Interrupt, durableVars
<1>5. CallAt(c)'
  BY <1>2, <1>3 DEF CallAt, Interrupt, storeVars
<1>6. QED
  BY <1>3, <1>4, <1>5, Untouched DEF Interrupt, storeVars, durableVars

LEMMA SignalStands ==
  ASSUME Standing, NEW c \in Clients, Signal(c)
  PROVE  Standing'
<1>1. EngineTypes /\ CallAt(c) /\ client[c].pc = "signalling"
  BY Typed DEF Standing, Signal, In
<1>2. /\ client' \in [Clients -> ClientRec] /\ client'[c].pc = "refusing"
      /\ client'[c].sub = client[c].sub
      /\ \A d \in Clients \ {c} : client'[d] = client[d]
  BY <1>1, StepWent DEF Signal, CallPlaces
<1>3. client[c].sub \in asked
  BY <1>1 DEF CallAt
<1>4. EngineTypes'
  BY <1>1, <1>2, <1>3 DEF EngineTypes, Signal, ghosts
<1>5. CallAt(c)'
  BY <1>1, <1>2 DEF CallAt, Signal, storeVars
<1>6. QED
  BY <1>2, <1>4, <1>5, Untouched DEF Signal, storeVars, ghosts

LEMMA ExecuteStands ==
  ASSUME Standing, NEW c \in Clients, Execute(c)
  PROVE  Standing'
<1>0. PICK s : s = client[c].sub
  OBVIOUS
<1>1. EngineTypes /\ CallAt(c) /\ client[c].pc = "executing"
  BY <1>0, Typed DEF Standing, Execute, In
<1>2. /\ client' \in [Clients -> ClientRec] /\ client'[c].pc = "attaching" /\ client'[c].sub = s
      /\ \A d \in Clients \ {c} : client'[d] = client[d]
  BY <1>0, <1>1, StepWent DEF Execute, CallPlaces
<1>3. s \in Submissions /\ s <= row.count /\ BodyAt(s) /\ ClaimAt(s) /\ KeptAt(s)
  BY <1>0, <1>1 DEF Standing, CallAt
<1>4. exec' = [exec EXCEPT ![s] = IF exec[s] = "none" THEN "running" ELSE exec[s]]
  BY <1>0 DEF Execute
<1>5. /\ exec' \in [Submissions -> {"none", "running", "parked", "ended"}]
      /\ exec'[s] = (IF exec[s] = "none" THEN "running" ELSE exec[s])
      /\ \A t \in Submissions \ {s} : exec'[t] = exec[t]
  BY <1>0, <1>1, <1>3, <1>4 DEF EngineTypes
<1>6. EngineTypes'
  BY <1>0, <1>1, <1>2, <1>5 DEF EngineTypes, Execute, ghosts
<1>7. BodyAt(s)'
  BY <1>0, <1>3, <1>5 DEF BodyAt, Execute, ghosts
<1>8. Past(s)' <=> Past(s)
  BY <1>0 DEF Past, Execute
<1>9. exec'[s] # "none" /\ row' = row /\ request' = request /\ ~(s > row.count)
  BY <1>3, <1>5, Typed, Constants DEF Execute, storeVars
<1>10. ClaimAt(s)'
  BY <1>3, <1>8, <1>9 DEF ClaimAt
<1>11. KeptAt(s)'
  BY <1>0, <1>3, <1>5 DEF KeptAt, BodyAt, Execute, storeVars, ghosts
<1>12. CallAt(c)'
  BY <1>0, <1>2, <1>3, <1>5 DEF CallAt, Execute, storeVars
<1>13. Touches(s)
  BY <1>0, <1>2, <1>5, <1>6, <1>7, <1>10, <1>11, <1>12, Typed DEF Touches, Others, Execute, storeVars, ghosts
<1>14. QED
  BY <1>0, <1>3, <1>13, Touched

LEMMA DeliverStands ==
  ASSUME Standing, NEW c \in Clients, Deliver(c)
  PROVE  Standing'
<1>0. PICK s : s = client[c].sub
  OBVIOUS
<1>1. EngineTypes /\ CallAt(c) /\ client[c].pc = "delivering"
  BY <1>0, Typed DEF Standing, Deliver, In
<1>2. /\ s \in Submissions /\ s <= row.count /\ BodyAt(s) /\ ClaimAt(s) /\ KeptAt(s)
      /\ exec[s] # "none" /\ client[c].answer \in Answers
  BY <1>0, <1>1 DEF Standing, CallAt
<1>3. CASE Return(c) /\ UNCHANGED deferred
  <2>1. /\ client' \in [Clients -> ClientRec] /\ client'[c].pc = "idle"
        /\ \A d \in Clients \ {c} : client'[d] = client[d]
    BY <1>0, <1>1, <1>3, ReturnWent
  <2>2. EngineTypes'
    BY <1>0, <1>1, <1>3, <2>1 DEF EngineTypes, Deliver, ghosts
  <2>3. CallAt(c)'
    BY <1>0, <2>1 DEF CallAt
  <2>4. QED
    BY <1>0, <1>3, <2>1, <2>2, <2>3, Untouched DEF Deliver, storeVars, ghosts
<1>4. CASE /\ deferred' = [deferred EXCEPT ![s] = IF Awaited(s) THEN client[c].answer ELSE @]
           /\ Step(c, "taking")
  <2>1. /\ client' \in [Clients -> ClientRec] /\ client'[c].pc = "taking" /\ client'[c].sub = s
        /\ \A d \in Clients \ {c} : client'[d] = client[d]
    BY <1>0, <1>1, <1>4, StepWent DEF CallPlaces
  <2>2. /\ deferred' \in [Submissions -> Answers \union {NoPrompt}]
        /\ deferred'[s] = (IF Awaited(s) THEN client[c].answer ELSE deferred[s])
        /\ \A t \in Submissions \ {s} : deferred'[t] = deferred[t]
    BY <1>0, <1>1, <1>2, <1>4 DEF EngineTypes
  <2>3. exec[s] \in {"none", "running", "parked", "ended"}
    BY <1>0, <1>1, <1>2 DEF EngineTypes
  <2>4. deferred'[s] # NoPrompt \/ exec[s] = "ended"
    BY <1>0, <1>2, <2>2, <2>3, Constants DEF BodyAt, Awaited
  <2>5. exec[s] = "ended" => deferred'[s] = deferred[s]
    BY <1>0, <2>2 DEF Awaited
  <2>6. EngineTypes'
    BY <1>0, <1>1, <2>1, <2>2 DEF EngineTypes, Deliver, ghosts
  <2>7. BodyAt(s)'
    BY <1>0, <1>2, <2>4, <2>5 DEF BodyAt, Deliver, ghosts
  <2>8. ClaimAt(s)'
    BY <1>0, <1>2 DEF ClaimAt, Past, Deliver, storeVars
  <2>9. KeptAt(s)'
    BY <1>0, <2>4 DEF KeptAt, Deliver
  <2>10. CallAt(c)'
    BY <1>0, <1>2, <2>1, <2>4 DEF CallAt, Deliver, storeVars
  <2>11. Touches(s)
    BY <1>0, <1>2, <2>1, <2>2, <2>4, <2>6, <2>7, <2>8, <2>9, <2>10, Typed
    DEF Touches, Others, Deliver, storeVars, ghosts
  <2>12. QED
    BY <1>0, <1>2, <2>11, Touched
<1>5. QED
  BY <1>0, <1>3, <1>4 DEF Deliver

\* A step on the row of one question.
LEMMA Asks ==
  ASSUME Standing, NEW s \in Submissions, NEW c \in Clients, exec[s] # "none",
         NEW q \in RequestRec, request' = [request EXCEPT ![s] = q], row' = row,
         UNCHANGED <<exec, mem, journal, deferred, log, stored>>, asked \subseteq asked',
         \A t \in Submissions \ {s} : acked'[t] = acked[t],
         EngineTypes', KeptAt(s)', CallAt(c)', \A d \in Clients \ {c} : client'[d] = client[d]
  PROVE  Standing'
<1>1. BodyAt(s) /\ ClaimAt(s) /\ request \in [Submissions -> RequestRec]
  BY Typed DEF Standing
<1>2. request' \in [Submissions -> RequestRec] /\ \A t \in Submissions \ {s} : request'[t] = request[t]
  BY <1>1
<1>3. BodyAt(s)'
  BY <1>1 DEF BodyAt
<1>4. ClaimAt(s)'
  BY <1>1 DEF ClaimAt, Past
<1>5. Touches(s)
  BY <1>2, <1>3, <1>4 DEF Touches, Others
<1>6. QED
  BY <1>5, Touched

LEMMA AskedOf ==
  ASSUME Standing, NEW s \in Submissions, request[s] # Absent
  PROVE  exec[s] # "none" /\ s <= row.count
BY Typed, Constants DEF Standing, ClaimAt

LEMMA TakeDeliveredStands ==
  ASSUME Standing, NEW c \in Clients, TakeDelivered(c)
  PROVE  Standing'
<1>0. PICK s : s = client[c].sub
  OBVIOUS
<1>1. EngineTypes /\ CallAt(c) /\ client[c].pc = "taking"
  BY <1>0, Typed DEF Standing, TakeDelivered, In
<1>2. /\ s \in Submissions /\ exec[s] # "none" /\ (deferred[s] # NoPrompt \/ exec[s] = "ended")
  BY <1>0, <1>1 DEF CallAt
<1>3. /\ client' \in [Clients -> ClientRec] /\ client'[c].pc = "idle"
      /\ \A d \in Clients \ {c} : client'[d] = client[d]
  BY <1>0, <1>1, ReturnWent DEF TakeDelivered
<1>4. EngineTypes'
  BY <1>0, <1>1, <1>3 DEF EngineTypes, TakeDelivered, durableVars, ghosts
<1>5. CallAt(c)'
  BY <1>0, <1>3 DEF CallAt
<1>6. CASE UNCHANGED storeVars
  BY <1>0, <1>3, <1>4, <1>5, <1>6, Untouched DEF TakeDelivered, storeVars, durableVars, ghosts
<1>7. CASE takeAnswer(s)
  <2>1. KeptAt(s)'
    BY <1>0, <1>2 DEF KeptAt, TakeDelivered, durableVars
  <2>2. QED
    BY <1>0, <1>2, <1>3, <1>4, <1>5, <1>7, <2>1, Asks, Requested
    DEF TakeDelivered, takeAnswer, durableVars, ghosts
<1>8. QED
  BY <1>0, <1>6, <1>7 DEF TakeDelivered

LEMMA RespondStands ==
  ASSUME Standing, NEW c \in Clients, NEW s \in Submissions, NEW a \in Answers, Respond(c, s, a)
  PROVE  Standing'
<1>1. EngineTypes /\ request \in [Submissions -> RequestRec] /\ request[s] = Pending
  BY Typed DEF Respond, answerRequest
<1>2. exec[s] # "none" /\ s <= row.count
  BY <1>1, AskedOf, Requested
<1>3. s \in 0 .. MaxSubmissions
  BY Constants
<1>4. /\ client' \in [Clients -> ClientRec] /\ client'[c].pc = "delivering"
      /\ client'[c].sub = s /\ client'[c].answer = a
      /\ \A d \in Clients \ {c} : client'[d] = client[d]
  BY <1>1, <1>3, CallWent DEF Respond, CallPlaces
<1>5. /\ acked' \in [Submissions -> SUBSET Answers] /\ a \in acked'[s]
      /\ \A t \in Submissions \ {s} : acked'[t] = acked[t]
  BY <1>1 DEF EngineTypes, Respond
<1>6. EngineTypes'
  BY <1>1, <1>4, <1>5 DEF EngineTypes, Respond, durableVars
<1>7. CallAt(c)'
  BY <1>2, <1>4 DEF CallAt, Respond, answerRequest, durableVars
<1>8. request'[s] = Answered(a)
  BY <1>1 DEF Respond, answerRequest
<1>9. KeptAt(s)'
  BY <1>5, <1>8, Requested DEF KeptAt
<1>10. QED
  BY <1>2, <1>4, <1>5, <1>6, <1>7, <1>9, Asks, Requested DEF Respond, answerRequest, durableVars

LEMMA RefuseStands ==
  ASSUME Standing, NEW c \in Clients, Refuse(c)
  PROVE  Standing'
<1>0. PICK s : s = client[c].sub
  OBVIOUS
<1>1. EngineTypes /\ CallAt(c) /\ client[c].pc = "refusing" /\ request \in [Submissions -> RequestRec]
  BY <1>0, Typed DEF Standing, Refuse, In
<1>2. s \in Submissions /\ s <= row.count /\ KeptAt(s)
  BY <1>0, <1>1 DEF CallAt, Standing
<1>3. CASE UNCHANGED storeVars /\ Return(c)
  <2>1. /\ client' \in [Clients -> ClientRec] /\ client'[c].pc = "idle"
        /\ \A d \in Clients \ {c} : client'[d] = client[d]
    BY <1>0, <1>1, <1>3, ReturnWent
  <2>2. EngineTypes'
    BY <1>0, <1>1, <2>1 DEF EngineTypes, Refuse, durableVars, ghosts
  <2>3. CallAt(c)'
    BY <1>0, <2>1 DEF CallAt
  <2>4. QED
    BY <1>0, <1>3, <2>1, <2>2, <2>3, Untouched DEF Refuse, storeVars, durableVars, ghosts
<1>4. CASE answerRequest(s, Refusal) /\ Call(c, "delivering", s, Refusal)
  <2>1. request[s] = Pending
    BY <1>0, <1>4 DEF answerRequest
  <2>2. exec[s] # "none"
    BY <1>0, <1>2, <2>1, AskedOf, Requested
  <2>3. s \in 0 .. MaxSubmissions /\ Refusal \in Answers
    BY <1>0, <1>2, Constants
  <2>4. /\ client' \in [Clients -> ClientRec] /\ client'[c].pc = "delivering"
        /\ client'[c].sub = s /\ client'[c].answer = Refusal
        /\ \A d \in Clients \ {c} : client'[d] = client[d]
    BY <1>0, <1>1, <1>4, <2>3, CallWent DEF CallPlaces
  <2>5. EngineTypes'
    BY <1>0, <1>1, <2>4 DEF EngineTypes, Refuse, durableVars, ghosts
  <2>6. CallAt(c)'
    BY <1>0, <1>2, <1>4, <2>2, <2>3, <2>4 DEF CallAt, Refuse, answerRequest, durableVars
  <2>7. KeptAt(s)'
    BY <1>0, <1>2, <1>4, <2>1, Requested DEF KeptAt, Refuse, answerRequest, durableVars, ghosts
  <2>8. QED
    BY <1>0, <1>2, <1>4, <2>2, <2>3, <2>4, <2>5, <2>6, <2>7, Asks, Requested
    DEF Refuse, answerRequest, durableVars, ghosts
<1>5. QED
  BY <1>0, <1>3, <1>4 DEF Refuse

LEMMA ReleaseStands ==
  ASSUME Standing, NEW c \in Clients, Release(c)
  PROVE  Standing'
<1>0. PICK s : s = client[c].sub
  OBVIOUS
<1>1. EngineTypes /\ CallAt(c) /\ client[c].pc = "releasing"
  BY <1>0, Typed DEF Standing, Release, In
<1>2. s \in Submissions /\ exec[s] # "none" /\ BodyAt(s)
  BY <1>0, <1>1 DEF CallAt, Standing
<1>3. /\ client' \in [Clients -> ClientRec] /\ client'[c].pc = "idle"
      /\ \A d \in Clients \ {c} : client'[d] = client[d]
  BY <1>0, <1>1, ReturnWent DEF Release
<1>4. freed' \subseteq Submissions
  BY <1>0, <1>1, <1>2 DEF EngineTypes, Release
<1>5. EngineTypes'
  BY <1>0, <1>1, <1>3, <1>4 DEF EngineTypes, Release, durableVars
<1>6. CASE UNCHANGED storeVars
  <2>1. CallAt(c)'
    BY <1>0, <1>3 DEF CallAt
  <2>2. QED
    BY <1>0, <1>3, <1>5, <1>6, <2>1, Untouched DEF Release, storeVars, durableVars
<1>7. CASE finish(s, row.history)
  <2>1. BodyAt(s)'
    BY <1>0, <1>2 DEF BodyAt, Release, durableVars
  <2>2. QED
    BY <1>0, <1>2, <1>3, <1>5, <1>7, <2>1, Typed, Freed DEF Release, Others, durableVars
<1>8. QED
  BY <1>0, <1>6, <1>7 DEF Release

\* The claim changes, and stays with the submission that holds it.
LEMMA AttachStands ==
  ASSUME Standing, NEW c \in Clients, Attach(c)
  PROVE  Standing'
<1>0. PICK s : s = client[c].sub
  OBVIOUS
<1>1. EngineTypes /\ CallAt(c) /\ client[c].pc = "attaching"
  BY <1>0, Typed DEF Standing, Attach, In
<1>2. s \in Submissions /\ exec[s] # "none" /\ s # 0
  BY <1>0, <1>1, Constants DEF CallAt
<1>3. /\ client' \in [Clients -> ClientRec] /\ client'[c].pc = "idle"
      /\ \A d \in Clients \ {c} : client'[d] = client[d]
  BY <1>0, <1>1, ReturnWent DEF Attach
<1>4. EngineTypes'
  BY <1>0, <1>1, <1>3 DEF EngineTypes, Attach, durableVars, ghosts
<1>5. CASE UNCHANGED storeVars
  <2>1. CallAt(c)'
    BY <1>0, <1>3 DEF CallAt
  <2>2. QED
    BY <1>0, <1>3, <1>4, <1>5, <2>1, Untouched DEF Attach, storeVars, durableVars, ghosts
<1>6. CASE attachExecution(s, s)
  <2> DEFINE now == [row.claim EXCEPT !.exec = s]
             to == [row EXCEPT !.claim = now]
  <2>1. row' = to /\ request' = request /\ row.claim.sub = s /\ row \in RowRec /\ row.claim \in ClaimRec
    BY <1>0, <1>6, Typed DEF attachExecution, Held
  <2>2. now \in ClaimRec /\ now.sub = s
    BY <1>0, <1>2, <2>1 DEF ClaimRec
  <2> HIDE DEF now
  <2>3. to \in RowRec /\ to.exists = row.exists /\ to.count = row.count /\ to.claim = now
    BY <1>0, <2>1, <2>2 DEF RowRec
  <2> HIDE DEF to
  <2>4. row'.claim.sub = row.claim.sub /\ row'.count = row.count /\ row'.exists = row.exists
    BY <1>0, <2>1, <2>2, <2>3
  <2>5. StoreTypes'
    BY <1>0, <2>1, <2>2, <2>3, <2>4, Constants DEF Standing, StoreTypes
  <2>6. UNCHANGED <<exec, mem, journal, deferred, log, acked, stored, asked, request>>
    BY <1>0, <2>1 DEF Attach, durableVars, ghosts
  <2>7. ASSUME NEW t \in Submissions PROVE BodyAt(t)' /\ ClaimAt(t)' /\ KeptAt(t)'
    <3>1. BodyAt(t) /\ ClaimAt(t) /\ KeptAt(t)
      BY <1>0 DEF Standing
    <3>2. BodyAt(t)'
      BY <1>0, <2>6, <3>1 DEF BodyAt
    <3>3. ClaimAt(t)'
      BY <1>0, <1>2, <2>1, <2>4, <2>6, <3>1 DEF ClaimAt, Past
    <3>4. KeptAt(t)'
      BY <1>0, <2>4, <2>6, <3>1 DEF KeptAt
    <3>5. QED
      BY <1>0, <3>2, <3>3, <3>4
  <2>8. ASSUME NEW d \in Clients PROVE CallAt(d)'
    BY <1>0, <1>3, <2>4, <2>6 DEF Standing, CallAt
  <2>9. QED
    BY <1>0, <1>4, <2>5, <2>7, <2>8 DEF Standing
<1>7. QED
  BY <1>0, <1>5, <1>6 DEF Attach

LEMMA Decision ==
  ASSUME row.exists, NEW p
  PROVE  /\ decide(row, p).tag = "Open" => row.claim = NoClaim /\ decide(row, p).ordinal = row.count + 1
         /\ decide(row, p).tag = "Rejoin" => row.claim # NoClaim
<1> DEFINE slot == slotOf(row)
           d == Adm!admit(slot, KeyOf(p))
<1>1. decide(row, p) = d
  BY DEF decide
<1>2. CASE row.claim # NoClaim
  <2>1. slot.tag = "Held"
    BY <1>2 DEF slotOf, Adm!HeldSlot
  <2> HIDE DEF slot
  <2>2. d.tag \in {"Rejoin", "Busy"}
    <3>1. d = [tag |-> IF Adm!Rejoins(slot, KeyOf(p)) THEN "Rejoin" ELSE "Busy", holder |-> slot.holder]
      BY <2>1, Zenon DEF Adm!admit
    <3>2. QED
      BY <3>1
  <2>3. QED
    BY <1>1, <1>2, <2>2
<1>3. CASE row.claim = NoClaim
  <2>1. slot.tag = "Idle" /\ slot.count = row.count
    BY <1>3 DEF slotOf, Adm!IdleSlot
  <2> HIDE DEF slot
  <2>2. d = [tag |-> "Open", ordinal |-> slot.count + 1]
    BY <2>1, Zenon DEF Adm!admit
  <2>3. QED
    BY <1>1, <1>3, <2>1, <2>2
<1>4. QED
  BY <1>2, <1>3

\* A new claim is of a submission that nothing was kept of.
LEMMA PromptStands ==
  ASSUME Standing, NEW c \in Clients, NEW p \in Prompts, Prompt(c, p)
  PROVE  Standing'
<1>1. EngineTypes /\ row \in RowRec /\ row.exists /\ row.count \in Nat
  BY Typed, Constants DEF Standing, StoreTypes
<1>2. UNCHANGED <<exec, mem, journal, deferred, log, acked, stored, asked>>
  BY DEF Prompt, durableVars
<1>3. CASE /\ decide(row, p).tag = "Rejoin" /\ Call(c, "opening", row.claim.sub, NoPrompt)
           /\ UNCHANGED <<storeVars, beside, reopened>>
  <2>1. row.claim.sub \in Submissions /\ row.claim.sub <= row.count
    BY <1>1, <1>3, Decision, Typed
  <2>2. /\ client' \in [Clients -> ClientRec] /\ client'[c].pc = "opening"
        /\ client'[c].sub = row.claim.sub
        /\ \A d \in Clients \ {c} : client'[d] = client[d]
    BY <1>1, <1>3, Typed, CallWent DEF CallPlaces
  <2>3. EngineTypes'
    BY <1>1, <1>3, <2>2 DEF EngineTypes, Prompt, durableVars
  <2>4. CallAt(c)'
    BY <1>3, <2>1, <2>2 DEF CallAt, storeVars
  <2>5. QED
    BY <1>2, <1>3, <2>2, <2>3, <2>4, Untouched DEF storeVars
<1>4. CASE /\ claim(p) /\ Call(c, "opening", row'.claim.sub, NoPrompt)
           /\ reopened' = reopened \union { s \in {row'.claim.sub} : open }
           /\ beside' = beside \union { s \in {row'.claim.sub} : StillUnderWay # {} }
  <2> DEFINE n == row.count + 1
             now == openClaim(n, p)
             half == [row EXCEPT !.count = n]
             to == [half EXCEPT !.claim = now]
  <2>1. row.claim = NoClaim /\ decide(row, p).ordinal = n /\ n \in Submissions
    BY <1>1, <1>4, Decision DEF claim
  <2>2. request' = NothingAsked /\ row' = [row EXCEPT !.count = n, !.claim = now]
    BY <1>4, <2>1 DEF claim
  <2>3. to = [row EXCEPT !.count = n, !.claim = now]
    BY Zenon
  <2>4. now \in ClaimRec /\ now.sub = n /\ now.exec = 0
    BY <2>1 DEF openClaim, KeyOf, ClaimRec
  <2>5. n \in 0 .. MaxSubmissions /\ n = row.count + 1
    BY <1>1, <2>1, Constants
  <2> HIDE DEF now, n
  <2>6. half \in RowRec /\ half.count = n /\ half.exists
    BY <1>1, <2>5 DEF RowRec
  <2> HIDE DEF half
  <2>7. to \in RowRec /\ to.count = n /\ to.exists /\ to.claim = now
    BY <2>4, <2>6 DEF RowRec
  <2>8. row' = to
    BY <2>2, <2>3
  <2> HIDE DEF to
  <2>9. row' \in RowRec /\ row'.exists /\ row'.count = n /\ row'.claim.sub = n /\ row'.claim.exec = 0
    BY <2>4, <2>7, <2>8
  <2>10. StoreTypes'
    BY <2>2, <2>9, NothingRequested DEF StoreTypes
  <2>11. /\ client' \in [Clients -> ClientRec] /\ client'[c].pc = "opening" /\ client'[c].sub = n
         /\ \A d \in Clients \ {c} : client'[d] = client[d]
    BY <1>1, <1>4, <2>5, <2>9, CallWent DEF CallPlaces
  <2>12. reopened' \subseteq {0} \union Submissions /\ beside' \subseteq Submissions
    BY <1>1, <1>4, <2>1, <2>9 DEF EngineTypes
  <2>13. EngineTypes'
    BY <1>1, <2>11, <2>12 DEF EngineTypes, Prompt, durableVars
  <2>14. ASSUME NEW t \in Submissions PROVE BodyAt(t)' /\ ClaimAt(t)' /\ KeptAt(t)'
    <3>1. BodyAt(t) /\ ClaimAt(t) /\ KeptAt(t) /\ t \in Nat /\ request'[t] = Absent
      BY <2>2, Constants, NothingRequested DEF Standing
    <3>2. BodyAt(t)'
      BY <1>2, <3>1 DEF BodyAt
    <3>3. row.claim.sub # t
      BY <2>1, Constants
    <3>4. t > row.count => exec[t] = "none" /\ ~Past(t) /\ acked[t] = {}
      BY <3>1, FreshBody, NothingKept DEF BodyAt, ClaimAt, Past, Projected
    <3>5. t <= row.count => exec[t] # "none"
      BY <3>1, <3>3 DEF ClaimAt
    <3>6. Past(t)' <=> Past(t)
      BY <1>2 DEF Past
    <3>7. (t = n => t > row.count) /\ (t > n => t > row.count) /\ (t <= n => t = n \/ t <= row.count)
      BY <1>1, <2>5, <3>1
    <3>8. ClaimAt(t)'
      BY <1>2, <2>9, <3>1, <3>4, <3>5, <3>6, <3>7 DEF ClaimAt
    <3>9. KeptAt(t)'
      BY <1>2, <2>9, <3>4, <3>7 DEF KeptAt
    <3>10. QED
      BY <3>2, <3>8, <3>9
  <2>15. ASSUME NEW d \in Clients PROVE CallAt(d)'
    <3>1. CASE d = c
      <4>1. n <= n
        BY <2>5, Constants
      <4>2. QED
        BY <2>1, <2>9, <2>11, <3>1, <4>1 DEF CallAt, n
    <3>2. CASE d # c
      <4>1. CallAt(d) /\ client'[d] = client[d]
        BY <2>11, <3>2 DEF Standing
      <4>2. client[d].pc # "idle" => client[d].sub <= n
        BY <1>1, <2>5, <4>1, Constants DEF CallAt
      <4>3. QED
        BY <1>2, <2>9, <4>1, <4>2 DEF CallAt
    <3>3. QED
      BY <3>1, <3>2
  <2>16. QED
    BY <2>10, <2>13, <2>14, <2>15 DEF Standing
<1>5. QED
  BY <1>3, <1>4 DEF Prompt

-----------------------------------------------------------------------------
(* The invariant *)

LEMMA StandingInit == Init => Standing
<1> SUFFICES ASSUME Init PROVE Standing
  OBVIOUS
<1>1. /\ row = [exists |-> TRUE, count |-> 0, claim |-> NoClaim, history |-> 0] /\ request = NothingAsked
  BY DEF Init, NoRow
<1>2. row \in RowRec /\ row.exists /\ row.claim = NoClaim /\ row.count = 0
  BY <1>1, Constants DEF RowRec
<1>3. StoreTypes
  BY <1>1, <1>2, NothingRequested DEF StoreTypes
<1>4. /\ mem \in [Submissions -> MemRec] /\ journal \in [Submissions -> JournalRec]
      /\ stored \in [Submissions -> OutcomeRec] /\ client \in [Clients -> ClientRec]
  BY FreshBody, NothingKept, ClientRecords DEF Init
<1>5. rows \subseteq ItemRec /\ IsFiniteSet(rows)
  BY FS_EmptySet DEF Init
<1>6. accepted \in Seq(Nat) /\ faults \in 0 .. MaxFaults
  BY Constants DEF Init
<1>7. EngineTypes
  BY <1>4, <1>5, <1>6 DEF EngineTypes, Init
<1>8. ASSUME NEW s \in Submissions PROVE BodyAt(s) /\ ClaimAt(s) /\ KeptAt(s)
  <2>1. /\ exec[s] = "none" /\ mem[s] = Fresh /\ journal[s] = NoJournal /\ deferred[s] = NoPrompt
        /\ log[s] = {} /\ stored[s] = NoOutcome /\ acked[s] = {} /\ request[s] = Absent
        /\ s > row.count /\ ~(s <= row.count) /\ row.claim.sub # s
    BY <1>1, <1>2, Constants, NothingRequested DEF Init, Submissions
  <2>2. BodyAt(s)
    BY <2>1, FreshBody, NothingKept DEF BodyAt, InRun
  <2>3. QED
    BY <2>1, <2>2 DEF ClaimAt, KeptAt
<1>9. \A c \in Clients : CallAt(c)
  BY ClientRecords DEF Init, CallAt
<1>10. QED
  BY <1>3, <1>7, <1>8, <1>9 DEF Standing

LEMMA StandingStutters ==
  ASSUME Standing, UNCHANGED vars
  PROVE  Standing'
<1>1. EngineTypes'
  BY Typed DEF EngineTypes, vars, storeVars, durableVars, ghosts
<1>2. QED
  BY <1>1, Untouched DEF vars, storeVars, durableVars, ghosts

LEMMA StandingNext ==
  ASSUME Standing, [Next]_vars
  PROVE  Standing'
<1>1. CASE followUp
  BY <1>1, FollowUpStands
<1>2. ASSUME NEW s \in Submissions, Body(s) \/ FinishFails(s) \/ Crash(s) PROVE Standing'
  <2>1. CASE Body(s)
    BY <2>1, ReplayModelStands, CallModelStands, RegisterStands, ObserveStands, ParkStands,
       ResumeStands, CheckInterruptStands, ConsumeStands, TakeStands, ReplayDrainStands,
       JournalDrainStands, PublishCloseStands, NextRunStands, InterruptedStands, ClearOpenStands,
       ClearIntentStands, FinishClaimStands, JournalFinishStands, ReplayFinishStands,
       FlushTerminalStands, CompleteStands
    DEF Body
  <2>2. QED
    BY <1>2, <2>1, FinishFailsStands, CrashStands
<1>3. ASSUME NEW c \in Clients,
             \/ \E p \in Prompts : Prompt(c, p)
             \/ Acquire(c) \/ UnderWay(c) \/ Lost(c) \/ Interrupt(c)
             \/ \E s \in Submissions, a \in Answers : Respond(c, s, a)
      PROVE  Standing'
  <2>1. CASE UnderWay(c)
    BY <2>1, OpenAdmissionStands, ExecuteStands, AttachStands, ClassifyStands, ReleaseStands,
       DeliverStands, TakeDeliveredStands, SignalStands, RefuseStands
    DEF UnderWay
  <2>2. QED
    BY <1>3, <2>1, PromptStands, AcquireStands, LostStands, InterruptStands, RespondStands
<1>4. CASE UNCHANGED vars
  BY <1>4, StandingStutters
<1>5. QED
  BY <1>1, <1>2, <1>3, <1>4 DEF Next

LEMMA SpecStanding == Spec => []Standing
<1>1. Init => Standing
  BY StandingInit
<1>2. Standing /\ [Next]_vars => Standing'
  BY StandingNext
<1>3. QED
  BY <1>1, <1>2, PTL DEF Spec

\* The row, the marks of the channels, what the engine keeps and the ghosts have
\* their shapes, and what a body ends with is set exactly when its run is over.
THEOREM SpecTypeOK == Spec => []TypeOK
<1>1. Standing => TypeOK
  <2> SUFFICES ASSUME Standing PROVE TypeOK
    OBVIOUS
  <2>1. EngineTypes /\ row \in RowRec /\ request \in [Submissions -> RequestRec]
    BY Typed
  <2>2. \A s \in Submissions : (mem[s].pc \in InRun) = (mem[s].held = "none")
    BY DEF Standing, BodyAt
  <2>3. QED
    BY <2>1, <2>2, Constants DEF TypeOK, EngineTypes, RowRec, ClaimRec, RequestRec, Tags
<1>2. QED
  BY <1>1, SpecStanding, PTL

\* The terminal event of a submission is in the log only when its claim is over,
\* by its projection or by a reconciliation.
THEOREM SpecTerminalAfterProjection == Spec => []TerminalAfterProjection
<1>1. Standing => TerminalAfterProjection
  BY DEF Standing, ClaimAt, Past, TerminalAfterProjection
<1>2. QED
  BY <1>1, SpecStanding, PTL

\* An answer that was acknowledged is in the store or with the run that waits.
THEOREM SpecAnswersSurvive == Spec => []AnswersSurvive
<1>1. Standing => AnswersSurvive
  BY DEF Standing, KeptAt, AnswersSurvive
<1>2. QED
  BY <1>1, SpecStanding, PTL

-----------------------------------------------------------------------------
(* Replays *)

\* Where a body is, as far as its own replay can tell: the projection and what
\* follows it are one place, and a batch taken but not journalled is not there.
Over == Ending \ {"releasing"}
PlaceOf(m) == [pc |-> IF m.pc \in Over THEN "over" ELSE m.pc, runs |-> m.runs, drains |-> m.drains,
               pending |-> m.pending, applied |-> m.applied, held |-> m.held]
PlaceRec == [pc : InRun \union {"releasing", "over"}, runs : Nat \ {0}, drains : Nat,
             pending : Seq(Nat), applied : Seq(Nat), held : {"none", "failed", "completed"}]
Start == PlaceOf(Fresh)

On(a, pc, held) == [pc |-> pc, runs |-> a.runs, drains |-> a.drains,
                    pending |-> a.pending, applied |-> a.applied, held |-> held]
After(a) == IF a.pending = <<>> THEN "draining" ELSE "reopening"
Drains(a, pc, pending, held) == [pc |-> pc, runs |-> a.runs, drains |-> a.drains + 1,
                                 pending |-> pending, applied |-> a.applied, held |-> held]
Again(a) == [pc |-> "calling", runs |-> a.runs + 1, drains |-> a.drains, pending |-> Tail(a.pending),
             applied |-> Append(a.applied, Head(a.pending)), held |-> a.held]

\* The next place of a body nobody interrupts is decided by the place it is in
\* and by journal j.
LeadsByModel(a, b, j) ==
    /\ a.pc = "calling" /\ a.runs <= Len(j.models)
    /\ \/ j.models[a.runs] = "text" /\ b = On(a, After(a), a.held)
       \/ j.models[a.runs] = "asks" /\ b = On(a, "registering", a.held)
       \/ j.models[a.runs] = "fails" /\ b = On(a, "releasing", "failed")

LeadsByAnswer(a, b, j) ==
    \/ a.pc = "registering" /\ b = On(a, "asking", a.held)
    \/ a.pc = "asking" /\ j.answer # NoPrompt /\ b = On(a, "resumed", a.held)
    \/ a.pc = "resumed" /\ b = On(a, "removing", a.held)
    \/ a.pc = "removing" /\ b = On(a, After(a), a.held)

LeadsByDrain(a, b, j) ==
    /\ a.drains < Len(j.drains)
    /\ \/ a.pc = "releasing" /\ b = Drains(a, "over", <<>>, a.held)
       \/ /\ a.pc \in {"draining", "closed"} /\ j.drains[a.drains + 1] # <<>>
          /\ b = Drains(a, "reopening", j.drains[a.drains + 1], a.held)
       \/ /\ a.pc = "draining" /\ j.drains[a.drains + 1] = <<>>
          /\ b = Drains(a, "closing", <<>>, a.held)
       \/ /\ a.pc = "closed" /\ j.drains[a.drains + 1] = <<>>
          /\ b = Drains(a, "releasing", <<>>, "completed")

Leads(a, b, j) ==
    \/ LeadsByModel(a, b, j) \/ LeadsByAnswer(a, b, j) \/ LeadsByDrain(a, b, j)
    \/ a.pc = "closing" /\ b = On(a, "closed", a.held)
    \/ a.pc = "reopening" /\ b = Again(a)

\* A course is a sequence of places from the start, each the next of the one
\* before; the body is somewhere on it, and what has been projected, recorded or
\* ended of the submission is what the last place of it says.
CourseOf(s, q) ==
    /\ Len(q) >= 1 /\ q[1] = Start
    /\ \A i \in 1 .. Len(q) - 1 : Leads(q[i], q[i + 1], journal[s])
    /\ \E i \in 1 .. Len(q) : PlaceOf(mem[s]) = q[i]
    /\ log[s] # {} => q[Len(q)].pc = "over" /\ log[s] = {q[Len(q)].held}
    /\ stored[s] # NoOutcome =>
            /\ q[Len(q)].pc = "over"
            /\ stored[s] = [tag |-> q[Len(q)].held, applied |-> q[Len(q)].applied,
                            answer |-> journal[s].answer]
    /\ exec[s] \in {"running", "parked"} /\ row.claim.sub # s /\ s \notin freed =>
            q[Len(q)].pc = "over"

Replayed(s) == s \notin asked => \E q \in Seq(PlaceRec) : CourseOf(s, q)

LEMMA OneWay ==
  ASSUME NEW a, NEW b, NEW c, NEW j, Leads(a, b, j), Leads(a, c, j)
  PROVE  b = c
<1>1. CASE a.pc = "calling"
  BY <1>1 DEF Leads, LeadsByModel, LeadsByAnswer, LeadsByDrain
<1>2. CASE a.pc \in {"registering", "asking", "resumed", "removing", "closing", "reopening"}
  BY <1>2 DEF Leads, LeadsByModel, LeadsByAnswer, LeadsByDrain
<1>3. CASE a.pc \in {"draining", "closed", "releasing"}
  BY <1>3 DEF Leads, LeadsByModel, LeadsByAnswer, LeadsByDrain
<1>4. QED
  BY <1>1, <1>2, <1>3 DEF Leads, LeadsByModel, LeadsByAnswer, LeadsByDrain

LEMMA NothingAfterOver ==
  ASSUME NEW a, NEW b, NEW j, Leads(a, b, j)
  PROVE  a.pc # "over" /\ (a.pc = "calling" => a.runs <= Len(j.models))
         /\ (a.pc \in Draining => a.drains < Len(j.drains))
         /\ (a.pc = "asking" => j.answer # NoPrompt)
BY DEF Leads, LeadsByModel, LeadsByAnswer, LeadsByDrain, Draining

LEMMA LeadsHeld ==
  ASSUME NEW a, NEW b, NEW j, Leads(a, b, j)
  PROVE  b.held \in {a.held, "failed", "completed"}
<1>1. CASE LeadsByModel(a, b, j)
  BY <1>1 DEF LeadsByModel, On
<1>2. CASE LeadsByAnswer(a, b, j)
  BY <1>2 DEF LeadsByAnswer, On
<1>3. CASE LeadsByDrain(a, b, j)
  BY <1>3 DEF LeadsByDrain, Drains
<1>4. QED
  BY <1>1, <1>2, <1>3 DEF Leads, On, Again

\* A journal only grows.
Extends(j, k) ==
    /\ Len(j.models) <= Len(k.models) /\ \A i \in 1 .. Len(j.models) : k.models[i] = j.models[i]
    /\ Len(j.drains) <= Len(k.drains) /\ \A i \in 1 .. Len(j.drains) : k.drains[i] = j.drains[i]
    /\ j.answer # NoPrompt => k.answer = j.answer

LEMMA StillLeads ==
  ASSUME NEW j \in JournalRec, NEW k \in JournalRec, Extends(j, k), NEW a \in PlaceRec, NEW b,
         Leads(a, b, j)
  PROVE  Leads(a, b, k)
<1>1. /\ Len(j.models) \in Nat /\ Len(k.models) \in Nat /\ Len(j.drains) \in Nat /\ Len(k.drains) \in Nat
      /\ a.runs \in Nat /\ a.runs >= 1 /\ a.drains \in Nat
  BY DEF JournalRec, PlaceRec
<1>2. a.runs <= Len(j.models) => a.runs <= Len(k.models) /\ k.models[a.runs] = j.models[a.runs]
  BY <1>1 DEF Extends
<1>3. a.drains < Len(j.drains) =>
        a.drains < Len(k.drains) /\ k.drains[a.drains + 1] = j.drains[a.drains + 1]
  <2>1. /\ Len(j.drains) <= Len(k.drains)
        /\ \A i \in 1 .. Len(j.drains) : k.drains[i] = j.drains[i]
    BY DEF Extends
  <2>2. a.drains < Len(j.drains) => a.drains + 1 \in 1 .. Len(j.drains)
    BY <1>1
  <2>3. QED
    BY <1>1, <2>1, <2>2
<1>4. j.answer # NoPrompt => k.answer # NoPrompt
  BY DEF Extends
<1>5. CASE LeadsByModel(a, b, j)
  BY <1>2, <1>5 DEF LeadsByModel, Leads
<1>6. CASE LeadsByAnswer(a, b, j)
  BY <1>4, <1>6 DEF LeadsByAnswer, Leads
<1>7. CASE LeadsByDrain(a, b, j)
  BY <1>3, <1>7 DEF LeadsByDrain, Leads
<1>8. QED
  BY <1>5, <1>6, <1>7 DEF Leads

LEMMA Growing ==
  ASSUME NEW j \in JournalRec
  PROVE  Extends(j, j)
BY DEF Extends, JournalRec

LEMMA StartPlace ==
  /\ Start \in PlaceRec /\ Start.pc = "calling" /\ PlaceOf(Fresh) = Start
<1>1. "calling" \in InRun /\ "calling" \notin Over
  BY DEF InRun, Over, Ending
<1>2. QED
  BY <1>1, FreshBody DEF Start, PlaceOf, PlaceRec, MemRec

LEMMA PlaceFields ==
  ASSUME NEW m
  PROVE  /\ PlaceOf(m).pc = (IF m.pc \in Over THEN "over" ELSE m.pc) /\ PlaceOf(m).runs = m.runs
         /\ PlaceOf(m).drains = m.drains /\ PlaceOf(m).pending = m.pending
         /\ PlaceOf(m).applied = m.applied /\ PlaceOf(m).held = m.held
BY DEF PlaceOf

LEMMA PlaceTyped ==
  ASSUME NEW m \in MemRec, m.held \in {"none", "failed", "completed"}
  PROVE  PlaceOf(m) \in PlaceRec
<1>1. /\ m.pc \in InRun \union Ending /\ m.runs \in Nat \ {0} /\ m.drains \in Nat
      /\ m.pending \in Seq(Nat) /\ m.applied \in Seq(Nat)
  BY DEF MemRec
<1>2. (IF m.pc \in Over THEN "over" ELSE m.pc) \in InRun \union {"releasing", "over"}
  BY <1>1 DEF Over
<1>3. QED
  BY <1>1, <1>2 DEF PlaceOf, PlaceRec

\* What leaves the body where it is leaves its course as it was.
LEMMA Stays ==
  ASSUME NEW s \in Submissions, Replayed(s), asked \subseteq asked',
         journal[s] \in JournalRec, journal'[s] \in JournalRec,
         PlaceOf(mem'[s]) = PlaceOf(mem[s]), Extends(journal[s], journal'[s]),
         journal'[s].answer = journal[s].answer, log'[s] = log[s], stored'[s] = stored[s],
         exec'[s] \in {"running", "parked"} /\ row'.claim.sub # s /\ s \notin freed' =>
            exec[s] \in {"running", "parked"} /\ row.claim.sub # s /\ s \notin freed
  PROVE  Replayed(s)'
<1> SUFFICES ASSUME s \notin asked' PROVE \E q \in Seq(PlaceRec) : CourseOf(s, q)'
  BY DEF Replayed
<1>1. PICK q \in Seq(PlaceRec) : CourseOf(s, q)
  BY DEF Replayed
<1>2. \A i \in 1 .. Len(q) - 1 : Leads(q[i], q[i + 1], journal'[s])
  <2>1. ASSUME NEW i \in 1 .. Len(q) - 1 PROVE Leads(q[i], q[i + 1], journal'[s])
    <3>1. q[i] \in PlaceRec /\ Leads(q[i], q[i + 1], journal[s])
      BY <1>1 DEF CourseOf
    <3>2. QED
      BY <3>1, StillLeads
  <2>2. QED
    BY <2>1
<1>3. CourseOf(s, q)'
  BY <1>1, <1>2 DEF CourseOf
<1>4. QED
  BY <1>3

\* A body that goes on either follows its course or prolongs it: where it has
\* been before there is one way to go.
LEMMA GoesOn ==
  ASSUME NEW s \in Submissions, Replayed(s), asked \subseteq asked',
         journal[s] \in JournalRec, journal'[s] \in JournalRec, mem'[s] \in MemRec,
         Extends(journal[s], journal'[s]), log'[s] = log[s], stored'[s] = stored[s],
         journal'[s].answer = journal[s].answer \/ (mem[s].pc = "asking" /\ journal[s].answer = NoPrompt),
         s \notin asked' => Leads(PlaceOf(mem[s]), PlaceOf(mem'[s]), journal'[s]),
         exec'[s] \in {"running", "parked"} /\ row'.claim.sub # s /\ s \notin freed' =>
            exec[s] \in {"running", "parked"} /\ row.claim.sub # s /\ s \notin freed
  PROVE  Replayed(s)'
<1> SUFFICES ASSUME s \notin asked' PROVE \E q \in Seq(PlaceRec) : CourseOf(s, q)'
  BY DEF Replayed
<1>1. PICK q \in Seq(PlaceRec) : CourseOf(s, q)
  BY DEF Replayed
<1>0. PICK a, b : a = PlaceOf(mem[s]) /\ b = PlaceOf(mem'[s])
  OBVIOUS
<1> DEFINE n == Len(q)
<1>2. n \in Nat /\ n >= 1 /\ \A i \in 1 .. n : q[i] \in PlaceRec
  BY <1>1 DEF CourseOf
<1>3. PICK i \in 1 .. n : a = q[i]
  BY <1>0, <1>1 DEF CourseOf
<1>4. Leads(a, b, journal'[s])
  BY <1>0
<1>5. \A k \in 1 .. n - 1 : Leads(q[k], q[k + 1], journal'[s])
  <2>1. ASSUME NEW k \in 1 .. n - 1 PROVE Leads(q[k], q[k + 1], journal'[s])
    <3>1. q[k] \in PlaceRec /\ Leads(q[k], q[k + 1], journal[s])
      BY <1>1, <1>2 DEF CourseOf
    <3>2. QED
      BY <3>1, StillLeads
  <2>2. QED
    BY <2>1
<1>6. a.pc # "over" /\ a.pc = (IF mem[s].pc \in Over THEN "over" ELSE mem[s].pc)
  BY <1>0, <1>4, NothingAfterOver, PlaceFields
<1>7. CASE i < n
  <2>1. i \in 1 .. n - 1 /\ i + 1 \in 1 .. n
    BY <1>2, <1>3, <1>7
  <2>2. Leads(a, q[i + 1], journal[s]) /\ Leads(a, q[i + 1], journal'[s])
    BY <1>1, <1>3, <1>5, <2>1 DEF CourseOf
  <2>3. b = q[i + 1]
    BY <1>4, <2>2, OneWay
  <2>4. journal'[s].answer = journal[s].answer
    <3>1. mem[s].pc = "asking" => a.pc = "asking"
      BY <1>6
    <3>2. QED
      BY <2>2, <3>1, NothingAfterOver
  <2>5. \E k \in 1 .. n : PlaceOf(mem'[s]) = q[k]
    BY <1>0, <2>1, <2>3
  <2>6. CourseOf(s, q)'
    BY <1>1, <1>5, <2>4, <2>5 DEF CourseOf
  <2>7. QED
    BY <2>6
<1>8. CASE i = n
  <2>1. /\ log[s] = {} /\ stored[s] = NoOutcome
        /\ ~(exec[s] \in {"running", "parked"} /\ row.claim.sub # s /\ s \notin freed)
    BY <1>1, <1>3, <1>6, <1>8 DEF CourseOf
  <2>2. b \in PlaceRec
    <3>1. a \in PlaceRec
      BY <1>2, <1>3
    <3>2. b.held \in {"none", "failed", "completed"}
      <4>1. a.held \in {"none", "failed", "completed"}
        BY <3>1 DEF PlaceRec
      <4>2. b.held \in {a.held, "failed", "completed"}
        BY <1>4, LeadsHeld
      <4>3. QED
        BY <4>1, <4>2
    <3>3. mem'[s].held \in {"none", "failed", "completed"}
      BY <1>0, <3>2, PlaceFields
    <3>4. QED
      BY <1>0, <3>3, PlaceTyped
  <2> DEFINE r == Append(q, b)
  <2>3. /\ r \in Seq(PlaceRec) /\ Len(r) = n + 1 /\ r[n + 1] = b
        /\ \A k \in 1 .. n : r[k] = q[k]
    BY <2>2
  <2> HIDE DEF r
  <2>4. r[1] = Start /\ Len(r) >= 1
    BY <1>1, <1>2, <2>3 DEF CourseOf
  <2>5. \A k \in 1 .. Len(r) - 1 : Leads(r[k], r[k + 1], journal'[s])
    <3>1. ASSUME NEW k \in 1 .. Len(r) - 1 PROVE Leads(r[k], r[k + 1], journal'[s])
      <4>1. CASE k = n
        BY <1>2, <1>3, <1>4, <1>8, <2>3, <4>1
      <4>2. CASE k # n
        <5>1. k \in 1 .. n - 1 /\ k \in 1 .. n /\ k + 1 \in 1 .. n
          BY <1>2, <2>3, <4>2
        <5>2. QED
          BY <1>5, <2>3, <5>1
      <4>3. QED
        BY <4>1, <4>2
    <3>2. QED
      BY <3>1
  <2>6. n + 1 \in 1 .. Len(r) /\ PlaceOf(mem'[s]) = r[n + 1]
    BY <1>0, <1>2, <2>3
  <2>7. CourseOf(s, r)'
    <3>1. log'[s] = {} /\ stored'[s] = NoOutcome
      BY <2>1
    <3>2. ~(exec'[s] \in {"running", "parked"} /\ row'.claim.sub # s /\ s \notin freed')
      BY <2>1
    <3>3. \E k \in 1 .. Len(r) : PlaceOf(mem'[s]) = r[k]
      BY <2>6
    <3>4. QED
      BY <2>4, <2>5, <3>1, <3>2, <3>3 DEF CourseOf
  <2>8. QED
    BY <2>3, <2>7
<1>9. QED
  BY <1>2, <1>3, <1>7, <1>8

\* A body that is gone begins its course again.
LEMMA GoesBack ==
  ASSUME NEW s \in Submissions, Replayed(s), asked \subseteq asked', mem'[s] = Fresh,
         journal'[s] = journal[s], log'[s] = log[s], stored'[s] = stored[s],
         exec'[s] \in {"running", "parked"} /\ row'.claim.sub # s /\ s \notin freed' =>
            exec[s] \in {"running", "parked"} /\ row.claim.sub # s /\ s \notin freed
  PROVE  Replayed(s)'
<1> SUFFICES ASSUME s \notin asked' PROVE \E q \in Seq(PlaceRec) : CourseOf(s, q)'
  BY DEF Replayed
<1>1. PICK q \in Seq(PlaceRec) : CourseOf(s, q)
  BY DEF Replayed
<1>2. 1 \in 1 .. Len(q) /\ PlaceOf(mem'[s]) = q[1]
  BY <1>1, StartPlace DEF CourseOf
<1>3. CourseOf(s, q)'
  BY <1>1, <1>2 DEF CourseOf
<1>4. QED
  BY <1>3

\* An execution of which nothing is kept has the course of a beginning.
LEMMA Begins ==
  ASSUME NEW s \in Submissions, NEW body, body = Fresh
  PROVE  \E q \in Seq(PlaceRec) :
            /\ Len(q) >= 1 /\ q[1] = Start /\ q[Len(q)] = Start
            /\ \A j : \A i \in 1 .. Len(q) - 1 : Leads(q[i], q[i + 1], j)
            /\ \E i \in 1 .. Len(q) : PlaceOf(body) = q[i]
<1> DEFINE q == <<Start>>
<1>1. q \in Seq(PlaceRec) /\ Len(q) = 1 /\ q[1] = Start
  BY StartPlace
<1> HIDE DEF q
<1>2. \A j : \A i \in 1 .. Len(q) - 1 : Leads(q[i], q[i + 1], j)
  BY <1>1
<1>3. 1 \in 1 .. Len(q) /\ PlaceOf(body) = q[1]
  BY <1>1, StartPlace
<1>4. Len(q) >= 1 /\ q[Len(q)] = Start
  BY <1>1
<1>5. QED
  BY <1>1, <1>2, <1>3, <1>4, Zenon

\* A body is never ahead of its journal but for the answer it waits for.
CountsAt(s) ==
    /\ mem[s].drains <= Len(journal[s].drains)
    /\ mem[s].runs <= Len(journal[s].models) + 1
    /\ mem[s].pc \in InRun \ {"calling"} => mem[s].runs <= Len(journal[s].models)

LEMMA SameCounts ==
  ASSUME NEW s \in Submissions, CountsAt(s), mem'[s] = mem[s], journal'[s] = journal[s]
  PROVE  CountsAt(s)'
BY DEF CountsAt

LEMMA WentPlace ==
  ASSUME NEW s, NEW pc, Went(s, pc), pc \notin Over, mem[s].pc \notin Over
  PROVE  /\ PlaceOf(mem'[s]) = On(PlaceOf(mem[s]), pc, mem'[s].held) /\ PlaceOf(mem[s]).pc = mem[s].pc
         /\ PlaceOf(mem[s]).held = mem[s].held /\ PlaceOf(mem[s]).runs = mem[s].runs
         /\ After(PlaceOf(mem[s])) = (IF mem[s].pending = <<>> THEN "draining" ELSE "reopening")
BY DEF Went, PlaceOf, On, After

LEMMA WentOver ==
  ASSUME NEW s, NEW pc \in Over, Went(s, pc), mem[s].pc \in Over, mem'[s].held = mem[s].held
  PROVE  PlaceOf(mem'[s]) = PlaceOf(mem[s])
BY DEF Went, PlaceOf

LEMMA Within ==
  /\ InRun \cap Over = {} /\ "releasing" \notin Over /\ "over" \notin Over /\ Draining \cap Over = {}
  /\ {"clearing", "clearingIntent", "finishing", "recording", "flushing", "ending"} = Over
  /\ Over \cap InRun = {} /\ "releasing" \notin InRun
BY DEF InRun, Over, Ending, Draining

\* What a body step that keeps the journal, and the records of the end, must show.
Keeps(s) ==
    /\ asked' = asked /\ log'[s] = log[s] /\ stored'[s] = stored[s]
    /\ exec' = exec /\ row' = row /\ freed' = freed

LEMMA Led ==
  ASSUME Standing, Standing', NEW s \in Submissions, CountsAt(s), Replayed(s), Keeps(s),
         journal'[s] = journal[s], NEW pc, Went(s, pc), mem[s].pc \in InRun \ {"calling"}, pc # "calling",
         s \notin asked => Leads(PlaceOf(mem[s]), PlaceOf(mem'[s]), journal[s])
  PROVE  CountsAt(s)' /\ Replayed(s)'
<1>1. journal[s] \in JournalRec /\ mem'[s] \in MemRec
  BY BodyOf DEF Went
<1>2. CountsAt(s)'
  BY DEF CountsAt, Went
<1>3. Replayed(s)'
  BY <1>1, Growing, GoesOn DEF Keeps
<1>4. QED
  BY <1>2, <1>3

LEMMA RegisterReplays ==
  ASSUME Standing, Standing', NEW s \in Submissions, CountsAt(s), Replayed(s), Register(s)
  PROVE  CountsAt(s)' /\ Replayed(s)'
<1>1. EngineTypes /\ mem[s].pc = "registering" /\ "asking" \in InRun /\ "registering" \in InRun
  BY BodyOf DEF Register, At, InRun
<1>2. Went(s, "asking") /\ mem'[s].held = mem[s].held
  BY <1>1, GotoWent DEF Register
<1>3. Leads(PlaceOf(mem[s]), PlaceOf(mem'[s]), journal[s])
  BY <1>1, <1>2, WentPlace, Within DEF Leads, LeadsByAnswer
<1>4. Keeps(s) /\ journal' = journal
  BY DEF Keeps, Register, durableVars, ghosts, addPendingRequest, storeVars
<1>5. QED
  BY <1>1, <1>2, <1>3, <1>4, Led

LEMMA CheckInterruptReplays ==
  ASSUME Standing, Standing', NEW s \in Submissions, CountsAt(s), Replayed(s), CheckInterrupt(s)
  PROVE  CountsAt(s)' /\ Replayed(s)'
<1>1. /\ EngineTypes /\ mem[s].pc = "resumed" /\ "resumed" \in InRun /\ "removing" \in InRun
      /\ "interrupted" \in Tags /\ intents \subseteq asked
  BY BodyOf DEF CheckInterrupt, At, InRun, Tags, EngineTypes
<1>2. Keeps(s) /\ journal' = journal
  BY DEF Keeps, CheckInterrupt, durableVars, ghosts, storeVars
<1>3. CASE s \in intents
  <2>1. Went(s, "releasing") /\ s \in asked
    BY <1>1, <1>3, EndsWent DEF CheckInterrupt
  <2>2. QED
    BY <1>1, <1>2, <2>1, Led
<1>4. CASE s \notin intents
  <2>1. Went(s, "removing") /\ mem'[s].held = mem[s].held
    BY <1>1, <1>4, GotoWent DEF CheckInterrupt
  <2>2. Leads(PlaceOf(mem[s]), PlaceOf(mem'[s]), journal[s])
    BY <1>1, <2>1, WentPlace, Within DEF Leads, LeadsByAnswer
  <2>3. QED
    BY <1>1, <1>2, <2>1, <2>2, Led
<1>5. QED
  BY <1>3, <1>4

LEMMA ConsumeReplays ==
  ASSUME Standing, Standing', NEW s \in Submissions, CountsAt(s), Replayed(s), Consume(s)
  PROVE  CountsAt(s)' /\ Replayed(s)'
<1>1. EngineTypes /\ mem[s].pc = "removing" /\ "removing" \in InRun
  BY BodyOf DEF Consume, At, InRun
<1> DEFINE pc == IF mem[s].pending = <<>> THEN "draining" ELSE "reopening"
<1>2. Goto(s, pc) /\ pc \in InRun /\ pc # "calling"
  BY DEF Consume, AfterRun, InRun
<1> HIDE DEF pc
<1>3. Went(s, pc) /\ mem'[s].held = mem[s].held
  BY <1>1, <1>2, GotoWent
<1>4. Leads(PlaceOf(mem[s]), PlaceOf(mem'[s]), journal[s])
  BY <1>1, <1>2, <1>3, WentPlace, Within DEF Leads, LeadsByAnswer, pc
<1>5. Keeps(s) /\ journal' = journal
  BY DEF Keeps, Consume, durableVars, ghosts, removeRequest, storeVars
<1>6. QED
  BY <1>1, <1>2, <1>3, <1>4, <1>5, Led

LEMMA PublishCloseReplays ==
  ASSUME Standing, Standing', NEW s \in Submissions, CountsAt(s), Replayed(s), PublishClose(s)
  PROVE  CountsAt(s)' /\ Replayed(s)'
<1>1. EngineTypes /\ mem[s].pc = "closing" /\ "closing" \in InRun /\ "closed" \in InRun
  BY BodyOf DEF PublishClose, At, InRun
<1>2. Went(s, "closed") /\ mem'[s].held = mem[s].held
  BY <1>1, GotoWent DEF PublishClose
<1>3. Leads(PlaceOf(mem[s]), PlaceOf(mem'[s]), journal[s])
  BY <1>1, <1>2, WentPlace, Within DEF Leads
<1>4. Keeps(s) /\ journal' = journal
  BY DEF Keeps, PublishClose, ghosts, storeVars
<1>5. QED
  BY <1>1, <1>2, <1>3, <1>4, Led

LEMMA InterruptedReplays ==
  ASSUME Standing, Standing', NEW s \in Submissions, CountsAt(s), Replayed(s), Interrupted(s)
  PROVE  CountsAt(s)' /\ Replayed(s)'
<1>1. EngineTypes /\ s \in asked /\ asked' = asked /\ "interrupted" \in Tags
  BY BodyOf DEF Interrupted, EngineTypes, Tags, ghosts
<1>2. Went(s, "releasing") /\ journal' = journal
  BY <1>1, EndsWent DEF Interrupted, durableVars
<1>3. CountsAt(s)'
  BY <1>2, Within DEF CountsAt, Went
<1>4. QED
  BY <1>1, <1>3 DEF Replayed

\* What follows the answer of a model, in the journal or told just now.
LEMMA ModelLeads ==
  ASSUME EngineTypes, NEW s \in Submissions, mem[s].pc = "calling", mem[s].held = "none",
         NEW j, mem[s].runs <= Len(j.models), j.models[mem[s].runs] \in {"text", "asks", "fails"},
         AfterModel(s, j.models[mem[s].runs])
  PROVE  /\ Leads(PlaceOf(mem[s]), PlaceOf(mem'[s]), j)
         /\ mem'[s] \in MemRec /\ mem'[s].runs = mem[s].runs /\ mem'[s].drains = mem[s].drains
<1> DEFINE result == j.models[mem[s].runs]
           a == PlaceOf(mem[s])
<1>1. /\ a.pc = "calling" /\ a.runs = mem[s].runs /\ a.held = "none" /\ mem[s].pc \notin Over
      /\ {"draining", "reopening", "registering", "releasing"} \cap Over = {}
  BY PlaceFields, Within DEF InRun
<1>2. result \in {"text", "asks", "fails"} /\ AfterModel(s, result)
  OBVIOUS
<1>3. j.models[a.runs] = result /\ a.runs <= Len(j.models)
  BY <1>1
<1> HIDE DEF result
<1>4. \/ /\ result = "text" /\ mem'[s].held = mem[s].held
         /\ Went(s, IF mem[s].pending = <<>> THEN "draining" ELSE "reopening")
      \/ result = "asks" /\ Went(s, "registering") /\ mem'[s].held = mem[s].held
      \/ result = "fails" /\ Went(s, "releasing") /\ mem'[s].held = "failed"
  BY <1>2, ModelWent
<1>5. CASE result = "text"
  <2> DEFINE pc == IF mem[s].pending = <<>> THEN "draining" ELSE "reopening"
  <2>1. Went(s, pc) /\ mem'[s].held = mem[s].held /\ pc \notin Over
    BY <1>1, <1>4, <1>5
  <2>2. PlaceOf(mem'[s]) = On(a, pc, mem'[s].held) /\ After(a) = pc
    BY <1>1, <2>1, WentPlace
  <2>3. PlaceOf(mem'[s]) = On(a, After(a), a.held)
    BY <1>1, <2>1, <2>2
  <2> HIDE DEF a, pc
  <2>4. Leads(a, PlaceOf(mem'[s]), j)
    BY <1>1, <1>3, <1>5, <2>3 DEF Leads, LeadsByModel
  <2>5. QED
    BY <2>1, <2>4 DEF Went, a
<1>6. CASE result = "asks"
  <2>1. Went(s, "registering") /\ mem'[s].held = mem[s].held
    BY <1>4, <1>6
  <2>2. PlaceOf(mem'[s]) = On(a, "registering", a.held)
    BY <1>1, <2>1, WentPlace
  <2> HIDE DEF a
  <2>3. Leads(a, PlaceOf(mem'[s]), j)
    BY <1>1, <1>3, <1>6, <2>2 DEF Leads, LeadsByModel
  <2>4. QED
    BY <2>1, <2>3 DEF Went, a
<1>7. CASE result = "fails"
  <2>1. Went(s, "releasing") /\ mem'[s].held = "failed"
    BY <1>4, <1>7
  <2>2. PlaceOf(mem'[s]) = On(a, "releasing", "failed")
    BY <1>1, <2>1, WentPlace
  <2> HIDE DEF a
  <2>3. Leads(a, PlaceOf(mem'[s]), j)
    BY <1>1, <1>3, <1>7, <2>2 DEF Leads, LeadsByModel
  <2>4. QED
    BY <2>1, <2>3 DEF Went, a
<1>8. QED
  BY <1>2, <1>5, <1>6, <1>7

LEMMA ReplayModelReplays ==
  ASSUME Standing, Standing', NEW s \in Submissions, CountsAt(s), Replayed(s), ReplayModel(s)
  PROVE  CountsAt(s)' /\ Replayed(s)'
<1>1. /\ EngineTypes /\ mem[s] \in MemRec /\ journal[s] \in JournalRec /\ mem[s].pc = "calling"
      /\ mem[s].runs <= Len(journal[s].models) /\ "calling" \in InRun
  BY BodyOf DEF ReplayModel, At, Replays, InRun
<1>2. mem[s].held = "none" /\ mem[s].pc # "asking"
  BY <1>1, BodyOf
<1>3. journal[s].models[mem[s].runs] \in {"text", "asks", "fails"}
  BY <1>1 DEF MemRec, JournalRec
<1>4. /\ Leads(PlaceOf(mem[s]), PlaceOf(mem'[s]), journal[s])
      /\ mem'[s] \in MemRec /\ mem'[s].runs = mem[s].runs /\ mem'[s].drains = mem[s].drains
  BY <1>1, <1>2, <1>3, ModelLeads DEF ReplayModel
<1>5. Keeps(s) /\ journal' = journal
  BY DEF Keeps, ReplayModel, durableVars, ghosts, storeVars
<1>6. CountsAt(s)'
  BY <1>1, <1>4, <1>5 DEF CountsAt
<1>7. Replayed(s)'
  BY <1>1, <1>4, <1>5, Growing, GoesOn DEF Keeps
<1>8. QED
  BY <1>6, <1>7

LEMMA CallModelReplays ==
  ASSUME Standing, Standing', NEW s \in Submissions, CountsAt(s), Replayed(s), CallModel(s)
  PROVE  CountsAt(s)' /\ Replayed(s)'
<1>1. /\ EngineTypes /\ mem[s] \in MemRec /\ journal[s] \in JournalRec /\ mem[s].pc = "calling"
      /\ ~(mem[s].runs <= Len(journal[s].models)) /\ "calling" \in InRun
      /\ journal \in [Submissions -> JournalRec] /\ journal'[s] \in JournalRec
  BY BodyOf DEF CallModel, At, Replays, InRun, EngineTypes, Standing
<1>2. mem[s].held = "none" /\ mem[s].pc # "asking"
  BY <1>1, BodyOf
<1>3. PICK result \in {"text", "asks", "fails"} :
        /\ journal' = [journal EXCEPT ![s].models = Append(@, result)]
        /\ AfterModel(s, result)
  BY DEF CallModel, Results
<1> DEFINE n == Len(journal[s].models)
<1>4. /\ n \in Nat /\ mem[s].runs \in Nat /\ mem[s].runs = n + 1
      /\ journal[s].models \in Seq({"text", "asks", "fails"}) /\ Len(journal[s].drains) \in Nat
      /\ mem[s].drains \in Nat
  <2>1. /\ n \in Nat /\ mem[s].runs \in Nat /\ journal[s].models \in Seq({"text", "asks", "fails"})
        /\ Len(journal[s].drains) \in Nat /\ mem[s].drains \in Nat
    BY <1>1 DEF MemRec, JournalRec
  <2>2. mem[s].runs <= n + 1
    BY DEF CountsAt
  <2>3. QED
    BY <1>1, <2>1, <2>2
<1> DEFINE to == [journal[s] EXCEPT !.models = Append(@, result)]
<1>5. journal'[s] = to
  BY <1>1, <1>3
<1>6. /\ to.models = Append(journal[s].models, result) /\ to.drains = journal[s].drains
      /\ to.answer = journal[s].answer
  BY <1>1 DEF JournalRec
<1> HIDE DEF to
<1>7. /\ Len(journal'[s].models) = n + 1 /\ journal'[s].models[n + 1] = result
      /\ \A i \in 1 .. n : journal'[s].models[i] = journal[s].models[i]
  BY <1>4, <1>5, <1>6
<1>8. journal'[s].answer = journal[s].answer /\ journal'[s].drains = journal[s].drains
  BY <1>5, <1>6
<1>9. Extends(journal[s], journal'[s])
  BY <1>4, <1>7, <1>8 DEF Extends
<1>10. PICK k : k = journal'[s]
  OBVIOUS
<1>11. /\ mem[s].runs <= Len(k.models) /\ k.models[mem[s].runs] \in {"text", "asks", "fails"}
       /\ AfterModel(s, k.models[mem[s].runs])
  BY <1>3, <1>4, <1>7, <1>10
<1>12. /\ Leads(PlaceOf(mem[s]), PlaceOf(mem'[s]), k)
       /\ mem'[s] \in MemRec /\ mem'[s].runs = mem[s].runs /\ mem'[s].drains = mem[s].drains
  BY <1>1, <1>2, <1>11, ModelLeads
<1>13. CountsAt(s)'
  BY <1>4, <1>7, <1>8, <1>12 DEF CountsAt
<1>14. Keeps(s)
  BY DEF Keeps, CallModel, ghosts, storeVars
<1>15. Replayed(s)'
  BY <1>1, <1>8, <1>9, <1>10, <1>12, <1>14, GoesOn DEF Keeps
<1>16. QED
  BY <1>13, <1>15

LEMMA ObserveReplays ==
  ASSUME Standing, Standing', NEW s \in Submissions, CountsAt(s), Replayed(s), Observe(s)
  PROVE  CountsAt(s)' /\ Replayed(s)'
<1>1. /\ EngineTypes /\ mem[s].pc = "asking" /\ "asking" \in InRun /\ "resumed" \in InRun
      /\ deferred[s] # NoPrompt /\ journal[s] \in JournalRec
      /\ journal \in [Submissions -> JournalRec] /\ journal'[s] \in JournalRec
  BY BodyOf DEF Observe, At, InRun, EngineTypes, Standing
<1>2. Went(s, "resumed") /\ mem'[s].held = mem[s].held
  BY <1>1, GotoWent DEF Observe
<1> DEFINE answer == IF journal[s].answer = NoPrompt THEN deferred[s] ELSE journal[s].answer
           to == [journal[s] EXCEPT !.answer = answer]
<1>3. journal'[s] = to
  BY <1>1 DEF Observe
<1>4. answer # NoPrompt /\ (journal[s].answer # NoPrompt => answer = journal[s].answer)
  BY <1>1
<1> HIDE DEF answer
<1>5. to.models = journal[s].models /\ to.drains = journal[s].drains /\ to.answer = answer
  BY <1>1 DEF JournalRec
<1> HIDE DEF to
<1>6. Extends(journal[s], journal'[s])
  BY <1>1, <1>3, <1>4, <1>5 DEF Extends, JournalRec
<1>7. journal'[s].answer # NoPrompt
  BY <1>3, <1>4, <1>5
<1>8. Leads(PlaceOf(mem[s]), PlaceOf(mem'[s]), journal'[s])
  BY <1>1, <1>2, <1>7, WentPlace, Within DEF Leads, LeadsByAnswer
<1>9. CountsAt(s)'
  BY <1>1, <1>2, <1>3, <1>5 DEF CountsAt, Went
<1>10. journal'[s].answer = journal[s].answer \/ journal[s].answer = NoPrompt
  BY <1>3, <1>4, <1>5
<1>11. Keeps(s)
  BY DEF Keeps, Observe, ghosts, storeVars
<1>12. Replayed(s)'
  BY <1>1, <1>2, <1>6, <1>8, <1>10, <1>11, GoesOn DEF Keeps, Went
<1>13. QED
  BY <1>9, <1>12

LEMMA NextRunReplays ==
  ASSUME Standing, Standing', NEW s \in Submissions, CountsAt(s), Replayed(s), NextRun(s)
  PROVE  CountsAt(s)' /\ Replayed(s)'
<1>1. /\ EngineTypes /\ mem[s] \in MemRec /\ journal[s] \in JournalRec /\ mem[s].pc = "reopening"
      /\ mem[s].pending # <<>> /\ "reopening" \in InRun /\ "reopening" \notin Over /\ "calling" \notin Over
  BY BodyOf, Within DEF NextRun, At, BodyAt, InRun
<1>2. mem'[s] \in MemRec
  BY BodyOf DEF Standing, EngineTypes
<1>4. /\ mem'[s].pc = "calling" /\ mem'[s].runs = mem[s].runs + 1
      /\ mem'[s].applied = Append(mem[s].applied, Head(mem[s].pending))
      /\ mem'[s].pending = Tail(mem[s].pending) /\ mem'[s].drains = mem[s].drains
      /\ mem'[s].held = mem[s].held
  BY <1>1, NextRunWent
<1>5. PlaceOf(mem'[s]) = Again(PlaceOf(mem[s])) /\ PlaceOf(mem[s]).pc = "reopening"
  BY <1>1, <1>4 DEF PlaceOf, Again
<1>6. Leads(PlaceOf(mem[s]), PlaceOf(mem'[s]), journal[s])
  BY <1>5 DEF Leads
<1>7. Keeps(s) /\ journal' = journal
  BY DEF Keeps, NextRun, storeVars
<1>8. mem[s].runs \in Nat /\ Len(journal[s].models) \in Nat
  BY <1>1 DEF MemRec, JournalRec
<1>9. CountsAt(s)'
  BY <1>1, <1>4, <1>7, <1>8 DEF CountsAt
<1>10. Replayed(s)'
  BY <1>1, <1>2, <1>6, <1>7, Growing, GoesOn DEF Keeps
<1>11. QED
  BY <1>9, <1>10

\* A drain that ends, over a journal that holds its batch.
LEMMA DrainLeads ==
  ASSUME EngineTypes, NEW s \in Submissions, mem[s].pc \in Draining,
         NEW j, mem[s].drains < Len(j.drains), j.drains[mem[s].drains + 1] \in Seq(Nat),
         AfterDrain(s, j.drains[mem[s].drains + 1])
  PROVE  /\ Leads(PlaceOf(mem[s]), PlaceOf(mem'[s]), j)
         /\ mem'[s] \in MemRec /\ mem'[s].runs = mem[s].runs /\ mem'[s].drains = mem[s].drains + 1
         /\ mem'[s].pc \in InRun => mem[s].pc \in InRun
         /\ mem'[s].pc # "calling"
<1>1. PICK a, b, batch : /\ a = PlaceOf(mem[s]) /\ b = PlaceOf(mem'[s])
                         /\ batch = j.drains[mem[s].drains + 1]
  OBVIOUS
<1>2. batch \in Seq(Nat) /\ AfterDrain(s, batch)
  BY <1>1
<1>3. /\ a.pc = mem[s].pc /\ a.runs = mem[s].runs /\ a.drains = mem[s].drains /\ a.held = mem[s].held
      /\ a.applied = mem[s].applied
  BY <1>1, PlaceFields, Within
<1>4. /\ mem' \in [Submissions -> MemRec]
      /\ mem'[s].drains = mem[s].drains + 1
      /\ mem'[s].runs = mem[s].runs /\ mem'[s].applied = mem[s].applied
      /\ \/ /\ mem[s].pc = "releasing" /\ mem'[s].pc = "clearing"
            /\ mem'[s].pending = <<>> /\ mem'[s].held = mem[s].held
         \/ /\ mem[s].pc # "releasing" /\ batch # <<>> /\ mem'[s].pc = "reopening"
            /\ mem'[s].pending = batch /\ mem'[s].held = mem[s].held
         \/ /\ mem[s].pc = "draining" /\ batch = <<>> /\ mem'[s].pc = "closing"
            /\ mem'[s].pending = <<>> /\ mem'[s].held = mem[s].held
         \/ /\ mem[s].pc = "closed" /\ batch = <<>> /\ mem'[s].pc = "releasing"
            /\ mem'[s].pending = <<>> /\ mem'[s].held = "completed"
  BY <1>2, DrainWent
<1>5. /\ "clearing" \in Over /\ {"reopening", "closing", "releasing"} \cap Over = {}
      /\ "clearing" \notin InRun /\ {"draining", "closed"} \subseteq InRun /\ "releasing" \notin InRun
  BY Within DEF InRun
<1>6. a.drains < Len(j.drains) /\ j.drains[a.drains + 1] = batch
  BY <1>1, <1>3
<1>7. mem'[s] \in MemRec
  BY <1>4
<1>8. CASE mem[s].pc = "releasing" /\ mem'[s].pc = "clearing"
           /\ mem'[s].pending = <<>> /\ mem'[s].held = mem[s].held
  <2>1. b = Drains(a, "over", <<>>, a.held)
    BY <1>1, <1>3, <1>4, <1>5, <1>8 DEF PlaceOf, Drains
  <2>2. Leads(a, b, j)
    BY <1>3, <1>6, <1>8, <2>1 DEF Leads, LeadsByDrain
  <2>3. QED
    BY <1>1, <1>4, <1>5, <1>7, <1>8, <2>2
<1>9. CASE mem[s].pc # "releasing" /\ batch # <<>> /\ mem'[s].pc = "reopening"
           /\ mem'[s].pending = batch /\ mem'[s].held = mem[s].held
  <2>1. b = Drains(a, "reopening", batch, a.held)
    BY <1>1, <1>3, <1>4, <1>5, <1>9 DEF PlaceOf, Drains
  <2>1a. mem[s].pc \in {"draining", "closed"}
    BY <1>9 DEF Draining
  <2>2. Leads(a, b, j)
    BY <1>3, <1>6, <1>9, <2>1, <2>1a DEF Leads, LeadsByDrain
  <2>3. QED
    BY <1>1, <1>4, <1>5, <1>7, <1>9, <2>1a, <2>2
<1>10. CASE mem[s].pc = "draining" /\ batch = <<>> /\ mem'[s].pc = "closing"
            /\ mem'[s].pending = <<>> /\ mem'[s].held = mem[s].held
  <2>1. b = Drains(a, "closing", <<>>, a.held)
    BY <1>1, <1>3, <1>4, <1>5, <1>10 DEF PlaceOf, Drains
  <2>2. Leads(a, b, j)
    BY <1>3, <1>6, <1>10, <2>1 DEF Leads, LeadsByDrain
  <2>3. QED
    BY <1>1, <1>4, <1>5, <1>7, <1>10, <2>2
<1>11. CASE mem[s].pc = "closed" /\ batch = <<>> /\ mem'[s].pc = "releasing"
            /\ mem'[s].pending = <<>> /\ mem'[s].held = "completed"
  <2>1. b = Drains(a, "releasing", <<>>, "completed")
    BY <1>1, <1>3, <1>4, <1>5, <1>11 DEF PlaceOf, Drains
  <2>2. Leads(a, b, j)
    BY <1>3, <1>6, <1>11, <2>1 DEF Leads, LeadsByDrain
  <2>3. QED
    BY <1>1, <1>4, <1>5, <1>7, <1>11, <2>2
<1>12. QED
  BY <1>4, <1>8, <1>9, <1>10, <1>11

LEMMA ReplayDrainReplays ==
  ASSUME Standing, Standing', NEW s \in Submissions, CountsAt(s), Replayed(s), ReplayDrain(s)
  PROVE  CountsAt(s)' /\ Replayed(s)'
<1>1. /\ EngineTypes /\ mem[s] \in MemRec /\ journal[s] \in JournalRec /\ mem[s].pc \in Draining
      /\ mem[s].drains < Len(journal[s].drains)
      /\ AfterDrain(s, journal[s].drains[mem[s].drains + 1])
  BY BodyOf DEF ReplayDrain, Journalled
<1>2. /\ journal[s].drains[mem[s].drains + 1] \in Seq(Nat) /\ mem[s].drains \in Nat
      /\ Len(journal[s].drains) \in Nat /\ Len(journal[s].models) \in Nat /\ mem[s].runs \in Nat
  <2>1. /\ journal[s].drains \in Seq(Seq(Nat)) /\ journal[s].models \in Seq({"text", "asks", "fails"})
        /\ mem[s].drains \in Nat /\ mem[s].runs \in Nat
    BY <1>1 DEF MemRec, JournalRec
  <2>2. mem[s].drains + 1 \in 1 .. Len(journal[s].drains)
    BY <1>1, <2>1
  <2>3. journal[s].drains[mem[s].drains + 1] \in Seq(Nat)
    BY <2>1, <2>2
  <2>4. Len(journal[s].drains) \in Nat /\ Len(journal[s].models) \in Nat
    BY <2>1
  <2>5. QED
    BY <2>1, <2>3, <2>4
<1>3. /\ Leads(PlaceOf(mem[s]), PlaceOf(mem'[s]), journal[s])
      /\ mem'[s] \in MemRec /\ mem'[s].runs = mem[s].runs /\ mem'[s].drains = mem[s].drains + 1
      /\ mem'[s].pc \in InRun => mem[s].pc \in InRun
  BY <1>1, <1>2, DrainLeads
<1>4. Keeps(s) /\ journal' = journal
  BY DEF Keeps, ReplayDrain, durableVars, ghosts, storeVars
<1>5. mem[s].pc # "calling"
  BY <1>1 DEF Draining
<1>6. CountsAt(s)'
  BY <1>1, <1>2, <1>3, <1>4, <1>5 DEF CountsAt
<1>7. Replayed(s)'
  BY <1>1, <1>3, <1>4, Growing, GoesOn DEF Keeps
<1>8. QED
  BY <1>6, <1>7

LEMMA JournalDrainReplays ==
  ASSUME Standing, Standing', NEW s \in Submissions, CountsAt(s), Replayed(s), JournalDrain(s)
  PROVE  CountsAt(s)' /\ Replayed(s)'
<1>1. /\ EngineTypes /\ BodyAt(s) /\ mem[s] \in MemRec /\ journal[s] \in JournalRec /\ mem[s].took
      /\ journal \in [Submissions -> JournalRec] /\ journal'[s] \in JournalRec
      /\ AfterDrain(s, mem[s].batch)
  BY BodyOf DEF JournalDrain, EngineTypes, Standing
<1> DEFINE n == Len(journal[s].drains)
<1>2. /\ n \in Nat /\ mem[s].drains \in Nat /\ Len(journal[s].models) \in Nat /\ mem[s].runs \in Nat
      /\ journal[s].drains \in Seq(Seq(Nat)) /\ mem[s].batch \in Seq(Nat)
  BY <1>1 DEF MemRec, JournalRec
<1>3. mem[s].pc \in Draining /\ mem[s].drains = n
  <2>1. mem[s].pc \in Draining /\ mem[s].drains >= n
    BY <1>1 DEF BodyAt
  <2>2. mem[s].drains <= n
    BY DEF CountsAt
  <2>3. QED
    BY <1>2, <2>1, <2>2
<1> DEFINE to == [journal[s] EXCEPT !.drains = Append(@, mem[s].batch)]
<1>4. journal'[s] = to
  BY <1>1 DEF JournalDrain
<1>5. /\ to.drains = Append(journal[s].drains, mem[s].batch) /\ to.models = journal[s].models
      /\ to.answer = journal[s].answer
  BY <1>1 DEF JournalRec
<1> HIDE DEF to
<1>6. /\ Len(journal'[s].drains) = n + 1 /\ journal'[s].drains[n + 1] = mem[s].batch
      /\ \A i \in 1 .. n : journal'[s].drains[i] = journal[s].drains[i]
  BY <1>2, <1>4, <1>5
<1>7. journal'[s].answer = journal[s].answer /\ journal'[s].models = journal[s].models
  BY <1>4, <1>5
<1>8. Extends(journal[s], journal'[s])
  BY <1>2, <1>6, <1>7 DEF Extends
<1>9. PICK k : k = journal'[s]
  OBVIOUS
<1>10. /\ mem[s].drains < Len(k.drains) /\ k.drains[mem[s].drains + 1] = mem[s].batch
  BY <1>2, <1>3, <1>6, <1>9
<1>11. /\ Leads(PlaceOf(mem[s]), PlaceOf(mem'[s]), k)
       /\ mem'[s] \in MemRec /\ mem'[s].runs = mem[s].runs /\ mem'[s].drains = mem[s].drains + 1
       /\ mem'[s].pc \in InRun => mem[s].pc \in InRun
  BY <1>1, <1>2, <1>3, <1>10, DrainLeads
<1>12. mem[s].pc # "calling"
  BY <1>3 DEF Draining
<1>13. CountsAt(s)'
  BY <1>2, <1>3, <1>6, <1>7, <1>11, <1>12 DEF CountsAt
<1>14. Keeps(s)
  BY DEF Keeps, JournalDrain, ghosts, storeVars
<1>15. Replayed(s)'
  BY <1>1, <1>7, <1>8, <1>9, <1>11, <1>14, GoesOn DEF Keeps
<1>16. QED
  BY <1>13, <1>15

\* A body that moves within the place it is in.
LEMMA RestsThere ==
  ASSUME Standing, Standing', NEW s \in Submissions, CountsAt(s), Replayed(s), Keeps(s),
         PlaceOf(mem'[s]) = PlaceOf(mem[s]), mem'[s].pc = mem[s].pc \/ mem'[s].pc \in Over,
         Extends(journal[s], journal'[s]), journal'[s].answer = journal[s].answer
  PROVE  CountsAt(s)' /\ Replayed(s)'
<1>1. /\ journal[s] \in JournalRec /\ mem[s] \in MemRec
      /\ journal'[s] \in JournalRec /\ mem'[s] \in MemRec
  BY BodyOf DEF Standing, EngineTypes
<1>2. mem'[s].drains = mem[s].drains /\ mem'[s].runs = mem[s].runs
  BY PlaceFields
<1>3. /\ Len(journal[s].models) \in Nat /\ Len(journal'[s].models) \in Nat
      /\ Len(journal[s].drains) \in Nat /\ Len(journal'[s].drains) \in Nat
      /\ mem[s].drains \in Nat /\ mem[s].runs \in Nat
  <2>1. mem[s].drains \in Nat /\ mem[s].runs \in Nat
    BY <1>1 DEF MemRec
  <2>2. Len(journal[s].models) \in Nat /\ Len(journal[s].drains) \in Nat
    BY <1>1 DEF JournalRec
  <2>3. Len(journal'[s].models) \in Nat /\ Len(journal'[s].drains) \in Nat
    BY <1>1 DEF JournalRec
  <2>4. QED
    BY <2>1, <2>2, <2>3
<1>4. Len(journal[s].models) <= Len(journal'[s].models) /\ Len(journal[s].drains) <= Len(journal'[s].drains)
  BY DEF Extends
<1>5. mem'[s].pc \in InRun \ {"calling"} => mem[s].pc = mem'[s].pc
  BY Within
<1>6. CountsAt(s)'
  <2>0. mem[s].drains <= Len(journal[s].drains) /\ mem[s].runs <= Len(journal[s].models) + 1
    BY DEF CountsAt
  <2>1. mem'[s].drains <= Len(journal'[s].drains) /\ mem'[s].runs <= Len(journal'[s].models) + 1
    <3>1. \A i, m, n \in Nat : i <= m /\ m <= n => i <= n
      OBVIOUS
    <3>2. \A i, m, n \in Nat : i <= m + 1 /\ m <= n => i <= n + 1
      OBVIOUS
    <3>3. mem[s].drains <= Len(journal'[s].drains)
      BY <1>3, <1>4, <2>0, <3>1
    <3>4. mem[s].runs <= Len(journal'[s].models) + 1
      BY <1>3, <1>4, <2>0, <3>2
    <3>5. QED
      BY <1>2, <3>3, <3>4
  <2>2. mem'[s].pc \in InRun \ {"calling"} => mem'[s].runs <= Len(journal'[s].models)
    BY <1>2, <1>3, <1>4, <1>5 DEF CountsAt
  <2>3. QED
    BY <2>1, <2>2 DEF CountsAt
<1>7. Replayed(s)'
  BY <1>1, Stays DEF Keeps
<1>8. QED
  BY <1>6, <1>7

LEMMA TakeReplays ==
  ASSUME Standing, Standing', NEW s \in Submissions, CountsAt(s), Replayed(s), Take(s)
  PROVE  CountsAt(s)' /\ Replayed(s)'
<1>1. EngineTypes /\ journal[s] \in JournalRec
  BY BodyOf
<1>2. /\ mem'[s].pc = mem[s].pc /\ mem'[s].runs = mem[s].runs /\ mem'[s].drains = mem[s].drains
      /\ mem'[s].pending = mem[s].pending
      /\ mem'[s].applied = mem[s].applied /\ mem'[s].held = mem[s].held
  BY <1>1, TakeWent
<1>3. PlaceOf(mem'[s]) = PlaceOf(mem[s])
  BY <1>2 DEF PlaceOf
<1>4. Keeps(s) /\ journal' = journal
  BY DEF Keeps, Take, ghosts, storeVars
<1>5. QED
  BY <1>1, <1>2, <1>3, <1>4, Growing, RestsThere

LEMMA ClearOpenReplays ==
  ASSUME Standing, Standing', NEW s \in Submissions, CountsAt(s), Replayed(s), ClearOpen(s)
  PROVE  CountsAt(s)' /\ Replayed(s)'
<1>1. EngineTypes /\ journal[s] \in JournalRec /\ mem[s].pc \in Over /\ "clearingIntent" \in Over
  BY BodyOf, Within DEF ClearOpen, At
<1>2. Went(s, "clearingIntent") /\ mem'[s].held = mem[s].held
  BY <1>1, GotoWent DEF ClearOpen, Over
<1>3. PlaceOf(mem'[s]) = PlaceOf(mem[s])
  BY <1>1, <1>2, WentOver
<1>4. Keeps(s) /\ journal' = journal
  BY DEF Keeps, ClearOpen, ghosts, storeVars
<1>5. mem'[s].pc \in Over
  BY <1>1, <1>2 DEF Went
<1>6. QED
  BY <1>1, <1>3, <1>4, <1>5, Growing, RestsThere

LEMMA ClearIntentReplays ==
  ASSUME Standing, Standing', NEW s \in Submissions, CountsAt(s), Replayed(s), ClearIntent(s)
  PROVE  CountsAt(s)' /\ Replayed(s)'
<1>1. EngineTypes /\ journal[s] \in JournalRec /\ mem[s].pc \in Over /\ "finishing" \in Over
  BY BodyOf, Within DEF ClearIntent, At
<1>2. Went(s, "finishing") /\ mem'[s].held = mem[s].held
  BY <1>1, GotoWent DEF ClearIntent, Over
<1>3. PlaceOf(mem'[s]) = PlaceOf(mem[s])
  BY <1>1, <1>2, WentOver
<1>4. Keeps(s) /\ journal' = journal
  BY DEF Keeps, ClearIntent, ghosts, storeVars
<1>5. mem'[s].pc \in Over
  BY <1>1, <1>2 DEF Went
<1>6. QED
  BY <1>1, <1>3, <1>4, <1>5, Growing, RestsThere

LEMMA ReplayFinishReplays ==
  ASSUME Standing, Standing', NEW s \in Submissions, CountsAt(s), Replayed(s), ReplayFinish(s)
  PROVE  CountsAt(s)' /\ Replayed(s)'
<1>1. EngineTypes /\ journal[s] \in JournalRec /\ mem[s].pc \in Over /\ "flushing" \in Over
  BY BodyOf, Within DEF ReplayFinish, At
<1>2. Went(s, "flushing") /\ mem'[s].held = mem[s].held
  BY <1>1, GotoWent DEF ReplayFinish, Over
<1>3. PlaceOf(mem'[s]) = PlaceOf(mem[s])
  BY <1>1, <1>2, WentOver
<1>4. Keeps(s) /\ journal' = journal
  BY DEF Keeps, ReplayFinish, durableVars, ghosts, storeVars
<1>5. mem'[s].pc \in Over
  BY <1>1, <1>2 DEF Went
<1>6. QED
  BY <1>1, <1>3, <1>4, <1>5, Growing, RestsThere

LEMMA JournalFinishReplays ==
  ASSUME Standing, Standing', NEW s \in Submissions, CountsAt(s), Replayed(s), JournalFinish(s)
  PROVE  CountsAt(s)' /\ Replayed(s)'
<1>1. /\ EngineTypes /\ journal[s] \in JournalRec /\ mem[s].pc \in Over /\ "flushing" \in Over
      /\ journal \in [Submissions -> JournalRec]
  BY BodyOf, Within DEF JournalFinish, At, EngineTypes
<1>2. Went(s, "flushing") /\ mem'[s].held = mem[s].held
  BY <1>1, GotoWent DEF JournalFinish, Over
<1>3. PlaceOf(mem'[s]) = PlaceOf(mem[s])
  BY <1>1, <1>2, WentOver
<1> DEFINE to == [journal[s] EXCEPT !.finished = "ok"]
<1>4. journal'[s] = to
  BY <1>1 DEF JournalFinish
<1>5. to.drains = journal[s].drains /\ to.models = journal[s].models /\ to.answer = journal[s].answer
  BY <1>1 DEF JournalRec
<1> HIDE DEF to
<1>6. Extends(journal[s], journal'[s]) /\ journal'[s].answer = journal[s].answer
  BY <1>1, <1>4, <1>5 DEF Extends, JournalRec
<1>7. Keeps(s)
  BY DEF Keeps, JournalFinish, ghosts, storeVars
<1>8. mem'[s].pc \in Over
  BY <1>1, <1>2 DEF Went
<1>9. QED
  BY <1>3, <1>6, <1>7, <1>8, RestsThere

LEMMA ResumeReplays ==
  ASSUME Standing, Standing', NEW s \in Submissions, CountsAt(s), Replayed(s), Resume(s)
  PROVE  CountsAt(s)' /\ Replayed(s)'
<1>1. journal[s] \in JournalRec /\ exec[s] = "parked"
  BY BodyOf DEF Resume
<1>2. /\ mem' = mem /\ journal' = journal /\ log' = log /\ stored' = stored /\ asked' = asked
      /\ row' = row /\ freed' = freed
  BY DEF Resume, ghosts, storeVars
<1>3. CountsAt(s)'
  BY <1>2, SameCounts
<1>4. Replayed(s)'
  BY <1>1, <1>2, Growing, Stays
<1>5. QED
  BY <1>3, <1>4

\* A body that is gone.
LEMMA FreshCounts ==
  ASSUME NEW s \in Submissions, Standing', mem'[s] = Fresh
  PROVE  CountsAt(s)'
<1>1. journal'[s] \in JournalRec
  BY DEF Standing, EngineTypes
<1>2. Len(journal'[s].models) \in Nat /\ Len(journal'[s].drains) \in Nat
  BY <1>1 DEF JournalRec
<1>3. QED
  BY <1>2, FreshBody DEF CountsAt

LEMMA ParkReplays ==
  ASSUME Standing, Standing', NEW s \in Submissions, CountsAt(s), Replayed(s), Park(s)
  PROVE  CountsAt(s)' /\ Replayed(s)'
<1>1. mem'[s] = Fresh /\ exec[s] = "running"
  BY BodyOf, BodyGone DEF Park, At
<1>2. /\ journal' = journal /\ log' = log /\ stored' = stored /\ asked' = asked
      /\ row' = row /\ freed' = freed
  BY DEF Park, ghosts, storeVars
<1>3. QED
  BY <1>1, <1>2, FreshCounts, GoesBack

LEMMA CrashReplays ==
  ASSUME Standing, Standing', NEW s \in Submissions, CountsAt(s), Replayed(s), Crash(s)
  PROVE  CountsAt(s)' /\ Replayed(s)'
<1>1. mem'[s] = Fresh
  BY BodyOf, BodyGone DEF Crash
<1>2. /\ journal' = journal /\ log' = log /\ stored' = stored /\ asked' = asked
      /\ row' = row /\ freed' = freed /\ exec' = exec
  BY DEF Crash, durableVars, ghosts, storeVars
<1>3. QED
  BY <1>1, <1>2, FreshCounts, GoesBack

LEMMA EndedReplays ==
  ASSUME Standing, Standing', NEW s \in Submissions, Ended(s)
  PROVE  CountsAt(s)' /\ Replayed(s)'
<1>1. EngineTypes
  BY BodyOf
<1>2. mem'[s] = Fresh /\ log'[s] = {} /\ stored'[s] = NoOutcome /\ exec'[s] = "ended"
  BY <1>1, BodyGone DEF Ended, EngineTypes
<1>3. PICK q \in Seq(PlaceRec) :
         /\ Len(q) >= 1 /\ q[1] = Start
         /\ \A j : \A i \in 1 .. Len(q) - 1 : Leads(q[i], q[i + 1], j)
         /\ \E i \in 1 .. Len(q) : PlaceOf(mem'[s]) = q[i]
  BY <1>2, Begins
<1>3a. CourseOf(s, q)'
  BY <1>2, <1>3 DEF CourseOf
<1>3b. Replayed(s)'
  BY <1>3a DEF Replayed
<1>4. QED
  BY <1>2, <1>3b, FreshCounts

\* A body whose run is over is at the end of its course.
LEMMA AtTheEnd ==
  ASSUME NEW s \in Submissions, NEW q \in Seq(PlaceRec), CourseOf(s, q), mem[s].pc \in Over
  PROVE  PlaceOf(mem[s]) = q[Len(q)] /\ q[Len(q)].pc = "over"
<1>1. PICK i \in 1 .. Len(q) : PlaceOf(mem[s]) = q[i]
  BY DEF CourseOf
<1>2. q[i].pc = "over" /\ Len(q) \in Nat
  BY <1>1, PlaceFields
<1>3. ASSUME i < Len(q) PROVE FALSE
  <2>1. i \in 1 .. Len(q) - 1
    BY <1>2, <1>3
  <2>2. Leads(q[i], q[i + 1], journal[s])
    BY <2>1 DEF CourseOf
  <2>3. QED
    BY <1>2, <2>2, NothingAfterOver
<1>4. i = Len(q)
  BY <1>2, <1>3
<1>5. QED
  BY <1>1, <1>2, <1>4

LEMMA FlushTerminalReplays ==
  ASSUME Standing, Standing', NEW s \in Submissions, CountsAt(s), Replayed(s), FlushTerminal(s)
  PROVE  CountsAt(s)' /\ Replayed(s)'
<1>1. /\ EngineTypes /\ mem[s].pc = "flushing" /\ mem[s].pc \in Over /\ "ending" \in Over
      /\ log \in [Submissions -> SUBSET Tags]
  BY BodyOf, Within DEF FlushTerminal, At, EngineTypes
<1>2. Went(s, "ending") /\ mem'[s].held = mem[s].held
  BY <1>1, GotoWent DEF FlushTerminal, Over
<1>3. PlaceOf(mem'[s]) = PlaceOf(mem[s])
  BY <1>1, <1>2, WentOver
<1>4. /\ journal' = journal /\ stored' = stored /\ asked' = asked /\ row' = row /\ exec' = exec
      /\ freed' = freed
  BY DEF FlushTerminal, durableVars, ghosts, storeVars
<1>5. log'[s] = log[s] \union {mem[s].held}
  BY <1>1 DEF FlushTerminal
<1>6. CountsAt(s)'
  BY <1>1, <1>2, <1>4, Within DEF CountsAt, Went
<1>7. Replayed(s)'
  <2> SUFFICES ASSUME s \notin asked PROVE \E q \in Seq(PlaceRec) : CourseOf(s, q)'
    BY <1>4 DEF Replayed
  <2>1. PICK q \in Seq(PlaceRec) : CourseOf(s, q)
    BY DEF Replayed
  <2>2. PlaceOf(mem[s]) = q[Len(q)] /\ q[Len(q)].pc = "over"
    BY <1>1, <2>1, AtTheEnd
  <2>3. mem[s].held = q[Len(q)].held
    BY <2>2, PlaceFields
  <2>4. log[s] = {} \/ log[s] = {q[Len(q)].held}
    BY <2>1 DEF CourseOf
  <2>5. log'[s] = {q[Len(q)].held}
    BY <1>5, <2>3, <2>4
  <2>6. \E i \in 1 .. Len(q) : PlaceOf(mem'[s]) = q[i]
    BY <1>3, <2>1 DEF CourseOf
  <2>7. CourseOf(s, q)'
    BY <1>4, <2>1, <2>2, <2>5, <2>6 DEF CourseOf
  <2>8. QED
    BY <2>7
<1>8. QED
  BY <1>6, <1>7

LEMMA FinishClaimReplays ==
  ASSUME Standing, Standing', NEW s \in Submissions, CountsAt(s), Replayed(s), FinishClaim(s)
  PROVE  CountsAt(s)' /\ Replayed(s)'
<1>1. /\ EngineTypes /\ mem[s].pc = "finishing" /\ mem[s].pc \in Over /\ "recording" \in Over
      /\ stored \in [Submissions -> OutcomeRec]
  BY BodyOf, Within DEF FinishClaim, At, EngineTypes
<1>2. Went(s, "recording") /\ mem'[s].held = mem[s].held
  BY <1>1, GotoWent DEF FinishClaim, Over
<1>3. PlaceOf(mem'[s]) = PlaceOf(mem[s])
  BY <1>1, <1>2, WentOver
<1>4. journal' = journal /\ log' = log /\ asked' = asked
  BY DEF FinishClaim, durableVars
<1>5. stored'[s] = stored[s] \/ stored'[s] = ReportOf(s)
  BY <1>1 DEF FinishClaim
<1>6. CountsAt(s)'
  BY <1>1, <1>2, <1>4, Within DEF CountsAt, Went
<1>7. Replayed(s)'
  <2> SUFFICES ASSUME s \notin asked PROVE \E q \in Seq(PlaceRec) : CourseOf(s, q)'
    BY <1>4 DEF Replayed
  <2>1. PICK q \in Seq(PlaceRec) : CourseOf(s, q)
    BY DEF Replayed
  <2>2. PlaceOf(mem[s]) = q[Len(q)] /\ q[Len(q)].pc = "over"
    BY <1>1, <2>1, AtTheEnd
  <2>3. mem[s].held = q[Len(q)].held /\ mem[s].applied = q[Len(q)].applied
    BY <2>2, PlaceFields
  <2>4. ReportOf(s) = [tag |-> q[Len(q)].held, applied |-> q[Len(q)].applied, answer |-> journal[s].answer]
    BY <2>3 DEF ReportOf
  <2>5. stored'[s] # NoOutcome =>
            stored'[s] = [tag |-> q[Len(q)].held, applied |-> q[Len(q)].applied,
                          answer |-> journal'[s].answer]
    BY <1>4, <1>5, <2>1, <2>4 DEF CourseOf
  <2>6. \E i \in 1 .. Len(q) : PlaceOf(mem'[s]) = q[i]
    BY <1>3, <2>1 DEF CourseOf
  <2>7. CourseOf(s, q)'
    BY <1>4, <2>1, <2>2, <2>5, <2>6 DEF CourseOf
  <2>8. QED
    BY <2>7
<1>8. QED
  BY <1>6, <1>7

\* Nothing happens to the other executions.
LEMMA OthersReplay ==
  ASSUME Standing, Standing', NEW t \in Submissions, CountsAt(t), Replayed(t), asked \subseteq asked',
         mem'[t] = mem[t], journal'[t] = journal[t], log'[t] = log[t], stored'[t] = stored[t],
         exec'[t] \in {"running", "parked"} /\ row'.claim.sub # t /\ t \notin freed' =>
            exec[t] \in {"running", "parked"} /\ row.claim.sub # t /\ t \notin freed
  PROVE  CountsAt(t)' /\ Replayed(t)'
<1>1. journal[t] \in JournalRec
  BY BodyOf
<1>2. CountsAt(t)'
  BY SameCounts
<1>3. Replayed(t)'
  BY <1>1, Growing, Stays
<1>4. QED
  BY <1>2, <1>3

\* A step of one execution is no step of another: it moves no claim but its own.
Elsewhere(s) ==
    /\ asked' = asked /\ (row' = row \/ row.claim.sub = s) /\ freed \ {s} \subseteq freed'
    /\ \A t \in Submissions \ {s} :
        /\ mem'[t] = mem[t] /\ journal'[t] = journal[t] /\ log'[t] = log[t] /\ stored'[t] = stored[t]
        /\ exec'[t] = exec[t]

LEMMA BodyElsewhere ==
  ASSUME Standing, NEW s \in Submissions, Body(s) \/ FinishFails(s) \/ Crash(s)
  PROVE  Elsewhere(s)
<1>1. /\ mem \in [Submissions -> MemRec] /\ journal \in [Submissions -> JournalRec]
      /\ log \in [Submissions -> SUBSET Tags] /\ stored \in [Submissions -> OutcomeRec]
      /\ exec \in [Submissions -> {"none", "running", "parked", "ended"}]
  BY DEF Standing, EngineTypes
<1>2. ASSUME NEW result, AfterModel(s, result), result \in {"text", "asks", "fails"}
      PROVE  \A t \in Submissions \ {s} : mem'[t] = mem[t]
  BY <1>1, <1>2, ModelWent DEF Standing, Went
<1>3. CASE ReplayModel(s)
  <2>1. journal[s].models[mem[s].runs] \in {"text", "asks", "fails"}
    <3>1. /\ journal[s].models \in Seq({"text", "asks", "fails"}) /\ mem[s].runs \in Nat \ {0}
      BY <1>1 DEF JournalRec, MemRec
    <3>2. mem[s].runs \in 1 .. Len(journal[s].models)
      BY <1>3, <3>1 DEF ReplayModel, Replays
    <3>3. QED
      BY <3>1, <3>2
  <2>2. \A t \in Submissions \ {s} : mem'[t] = mem[t]
    BY <1>2, <1>3, <2>1 DEF ReplayModel
  <2>3. QED
    BY <1>3, <2>2 DEF Elsewhere, ReplayModel, durableVars, storeVars, ghosts
<1>4. CASE CallModel(s)
  <2>1. PICK result \in {"text", "asks", "fails"} :
          /\ journal' = [journal EXCEPT ![s].models = Append(@, result)]
          /\ AfterModel(s, result)
    BY <1>4 DEF CallModel, Results
  <2>2. \A t \in Submissions \ {s} : mem'[t] = mem[t] /\ journal'[t] = journal[t]
    BY <1>1, <1>2, <2>1
  <2>3. QED
    BY <1>4, <2>2 DEF Elsewhere, CallModel, storeVars, ghosts
<1>5. CASE Register(s)
  BY <1>1, <1>5 DEF Elsewhere, Register, Goto, durableVars, addPendingRequest, storeVars, ghosts
<1>6. CASE Observe(s)
  BY <1>1, <1>6 DEF Elsewhere, Observe, Goto, storeVars, ghosts
<1>7. CASE Park(s)
  BY <1>1, <1>7 DEF Elsewhere, Park, storeVars, ghosts
<1>8. CASE Resume(s)
  BY <1>1, <1>8 DEF Elsewhere, Resume, storeVars, ghosts
<1>9. CASE CheckInterrupt(s)
  BY <1>1, <1>9 DEF Elsewhere, CheckInterrupt, Goto, Ends, durableVars, storeVars, ghosts
<1>10. CASE Consume(s)
  BY <1>1, <1>10 DEF Elsewhere, Consume, Goto, durableVars, removeRequest, storeVars, ghosts
<1>11. CASE Take(s)
  <2>1. \A t \in Submissions \ {s} : mem'[t] = mem[t]
    BY <1>11, TakeWent DEF Standing
  <2>2. QED
    BY <1>11, <2>1 DEF Elsewhere, Take, storeVars, ghosts
<1>12. CASE ReplayDrain(s)
  BY <1>1, <1>12 DEF Elsewhere, ReplayDrain, AfterDrain, durableVars, storeVars, ghosts
<1>13. CASE JournalDrain(s)
  BY <1>1, <1>13 DEF Elsewhere, JournalDrain, AfterDrain, storeVars, ghosts
<1>14. CASE PublishClose(s)
  BY <1>1, <1>14 DEF Elsewhere, PublishClose, Goto, storeVars, ghosts
<1>15. CASE NextRun(s)
  BY <1>1, <1>15 DEF Elsewhere, NextRun, storeVars, ghosts
<1>16. CASE Interrupted(s)
  BY <1>1, <1>16 DEF Elsewhere, Interrupted, Ends, durableVars, storeVars, ghosts
<1>17. CASE ClearOpen(s)
  BY <1>1, <1>17 DEF Elsewhere, ClearOpen, Goto, storeVars, ghosts
<1>18. CASE ClearIntent(s)
  BY <1>1, <1>18 DEF Elsewhere, ClearIntent, Goto, storeVars, ghosts
<1>19. CASE FinishClaim(s)
  BY <1>1, <1>19 DEF Elsewhere, FinishClaim, Goto, durableVars, finish, storeVars, ghosts
<1>20. CASE JournalFinish(s)
  BY <1>1, <1>20 DEF Elsewhere, JournalFinish, Goto, storeVars, ghosts
<1>21. CASE ReplayFinish(s)
  BY <1>1, <1>21 DEF Elsewhere, ReplayFinish, Goto, durableVars, storeVars, ghosts
<1>22. CASE FlushTerminal(s)
  BY <1>1, <1>22 DEF Elsewhere, FlushTerminal, Goto, durableVars, storeVars, ghosts
<1>23. CASE Complete(s)
  BY <1>1, <1>23 DEF Elsewhere, Complete, Ended, storeVars, ghosts
<1>24. CASE FinishFails(s)
  BY <1>1, <1>24 DEF Elsewhere, FinishFails, Ended, storeVars, ghosts
<1>25. CASE Crash(s)
  BY <1>1, <1>25 DEF Elsewhere, Crash, durableVars, storeVars, ghosts
<1>26. QED
  BY <1>3, <1>4, <1>5, <1>6, <1>7, <1>8, <1>9, <1>10, <1>11, <1>12, <1>13, <1>14,
     <1>15, <1>16, <1>17, <1>18, <1>19, <1>20, <1>21, <1>22, <1>23, <1>24, <1>25
  DEF Body

-----------------------------------------------------------------------------
(* Every execution has a course *)

Coursing == \A s \in Submissions : CountsAt(s) /\ Replayed(s)

LEMMA CoursingInit == Init => Coursing
<1> SUFFICES ASSUME Init, NEW s \in Submissions PROVE CountsAt(s) /\ Replayed(s)
  BY DEF Coursing
<1>1. mem[s] = Fresh /\ journal[s] = NoJournal /\ log[s] = {} /\ stored[s] = NoOutcome /\ exec[s] = "none"
  BY DEF Init
<1>2. CountsAt(s)
  BY <1>1, FreshBody, NothingKept DEF CountsAt
<1>3. PICK q \in Seq(PlaceRec) :
         /\ Len(q) >= 1 /\ q[1] = Start
         /\ \A j : \A i \in 1 .. Len(q) - 1 : Leads(q[i], q[i + 1], j)
         /\ \E i \in 1 .. Len(q) : PlaceOf(mem[s]) = q[i]
  BY <1>1, Begins
<1>4. CourseOf(s, q)
  BY <1>1, <1>3 DEF CourseOf
<1>5. QED
  BY <1>2, <1>4 DEF Replayed

LEMMA BodyReplays ==
  ASSUME Standing, Standing', Coursing, NEW s \in Submissions, Body(s) \/ FinishFails(s) \/ Crash(s)
  PROVE  Coursing'
<1>1. CountsAt(s) /\ Replayed(s)
  BY DEF Coursing
<1>2. CountsAt(s)' /\ Replayed(s)'
  <2>1. CASE Body(s)
    BY <1>1, <2>1, ReplayModelReplays, CallModelReplays, RegisterReplays, ObserveReplays,
       ParkReplays, ResumeReplays, CheckInterruptReplays, ConsumeReplays, TakeReplays,
       ReplayDrainReplays, JournalDrainReplays, PublishCloseReplays, NextRunReplays,
       InterruptedReplays, ClearOpenReplays, ClearIntentReplays, FinishClaimReplays,
       JournalFinishReplays, ReplayFinishReplays, FlushTerminalReplays, EndedReplays
    DEF Body, Complete
  <2>2. CASE FinishFails(s)
    BY <2>2, EndedReplays DEF FinishFails
  <2>3. CASE Crash(s)
    BY <1>1, <2>3, CrashReplays
  <2>4. QED
    BY <2>1, <2>2, <2>3
<1>3. ASSUME NEW t \in Submissions \ {s} PROVE CountsAt(t)' /\ Replayed(t)'
  <2>1. Elsewhere(s) /\ CountsAt(t) /\ Replayed(t)
    BY BodyElsewhere DEF Coursing
  <2>2. row'.claim.sub # t => row.claim.sub # t
    BY <2>1 DEF Elsewhere
  <2>3. QED
    BY <2>1, <2>2, OthersReplay DEF Elsewhere
<1>4. QED
  BY <1>2, <1>3 DEF Coursing

\* The clients move the claim, and start executions: neither takes the claim
\* from one that runs without saying so.
LEMMA CallsReplay ==
  ASSUME Standing, Standing', Coursing, asked \subseteq asked',
         UNCHANGED <<mem, journal, log, stored>>,
         \A t \in Submissions :
            exec'[t] \in {"running", "parked"} /\ row'.claim.sub # t /\ t \notin freed' =>
                exec[t] \in {"running", "parked"} /\ row.claim.sub # t /\ t \notin freed
  PROVE  Coursing'
BY OthersReplay DEF Coursing

LEMMA ClaimedReplays ==
  ASSUME Standing, Standing', Coursing, NEW c \in Clients, NEW p \in Prompts, Prompt(c, p)
  PROVE  Coursing'
<1>1. UNCHANGED <<mem, journal, log, stored, exec, freed, asked>>
  BY DEF Prompt, durableVars
<1>2. row' = row \/ row.claim.sub = 0
  <2>1. claim(p) => row.claim = NoClaim
    BY Decision DEF claim, Standing, StoreTypes
  <2>2. QED
    BY <2>1, Constants DEF Prompt, storeVars
<1>3. QED
  BY <1>1, <1>2, Constants, CallsReplay

LEMMA ExecuteReplays ==
  ASSUME Standing, Standing', Coursing, NEW c \in Clients, Execute(c)
  PROVE  Coursing'
<1> DEFINE s == client[c].sub
<1>1. /\ UNCHANGED <<mem, journal, log, stored, row, freed, asked>> /\ client[c].pc # "idle"
      /\ exec' = [exec EXCEPT ![s] = IF @ = "none" THEN "running" ELSE @]
  BY DEF Execute, In, ghosts, storeVars
<1>2. s \in Submissions /\ s <= row.count
  BY <1>1 DEF Standing, CallAt
<1>3. exec[s] = "none" => row.claim.sub = s
  BY <1>2 DEF Standing, ClaimAt
<1>4. exec \in [Submissions -> {"none", "running", "parked", "ended"}]
  BY DEF Standing, EngineTypes
<1>5. \A t \in Submissions : exec'[t] = exec[t] \/ row.claim.sub = t
  BY <1>1, <1>2, <1>3, <1>4
<1>6. QED
  BY <1>1, <1>5, CallsReplay

LEMMA ReleaseReplays ==
  ASSUME Standing, Standing', Coursing, NEW c \in Clients, Release(c)
  PROVE  Coursing'
<1> DEFINE s == client[c].sub
<1>1. UNCHANGED <<mem, journal, log, stored, exec, asked>>
  BY DEF Release, durableVars
<1>2. CASE finish(s, row.history)
  <2>1. row.claim.sub = s /\ freed' = freed \union ({s} \ { t \in Submissions : exec[t] = "ended" })
    BY <1>2, Typed, Constants DEF Release, finish
  <2>2. \A t \in Submissions : t \notin freed' /\ exec[t] # "ended" => row.claim.sub # t /\ t \notin freed
    BY <2>1
  <2>3. QED
    BY <1>1, <2>2, CallsReplay
<1>3. CASE row.claim.sub # s /\ UNCHANGED <<storeVars, freed>>
  BY <1>1, <1>3, CallsReplay DEF storeVars
<1>4. QED
  BY <1>2, <1>3 DEF Release

LEMMA AttachReplays ==
  ASSUME Standing, Standing', Coursing, NEW c \in Clients, Attach(c)
  PROVE  Coursing'
<1>1. UNCHANGED <<mem, journal, log, stored, exec, asked, freed>>
  BY DEF Attach, durableVars, ghosts
<1>2. row'.claim.sub = row.claim.sub
  <2>1. ASSUME row' = [row EXCEPT !.claim.exec = client[c].sub], row.claim \in ClaimRec
        PROVE  row'.claim.sub = row.claim.sub
    BY <2>1, Typed DEF ClaimRec, RowRec
  <2>2. QED
    BY <2>1, Typed DEF Attach, attachExecution, Held, storeVars
<1>3. QED
  BY <1>1, <1>2, CallsReplay

LEMMA QuietReplays ==
  ASSUME Standing, Standing', Coursing,
         UNCHANGED <<mem, journal, log, stored, exec, freed, row>>, asked \subseteq asked'
  PROVE  Coursing'
BY CallsReplay

LEMMA CoursingNext ==
  ASSUME Standing, Standing', Coursing, [Next]_vars
  PROVE  Coursing'
<1>1. CASE followUp
  BY <1>1, QuietReplays DEF followUp, storeVars
<1>2. ASSUME NEW s \in Submissions, Body(s) \/ FinishFails(s) \/ Crash(s) PROVE Coursing'
  BY <1>2, BodyReplays
<1>3. ASSUME NEW c \in Clients, UnderWay(c) PROVE Coursing'
  <2>1. CASE OpenAdmission(c)
    BY <2>1, QuietReplays DEF OpenAdmission, storeVars
  <2>2. CASE Classify(c)
    BY <2>2, QuietReplays DEF Classify, storeVars, durableVars, ghosts
  <2>3. CASE Deliver(c)
    BY <2>3, QuietReplays DEF Deliver, storeVars, ghosts
  <2>4. CASE TakeDelivered(c)
    BY <2>4, QuietReplays DEF TakeDelivered, takeAnswer, storeVars, durableVars, ghosts
  <2>5. CASE Signal(c)
    BY <2>5, QuietReplays DEF Signal, storeVars, ghosts
  <2>6. CASE Refuse(c)
    BY <2>6, QuietReplays DEF Refuse, answerRequest, storeVars, durableVars, ghosts
  <2>7. QED
    BY <1>3, <2>1, <2>2, <2>3, <2>4, <2>5, <2>6, ExecuteReplays, AttachReplays, ReleaseReplays
    DEF UnderWay
<1>4. ASSUME NEW c \in Clients,
             \/ \E p \in Prompts : Prompt(c, p)
             \/ Acquire(c) \/ Lost(c) \/ Interrupt(c)
             \/ \E s \in Submissions, a \in Answers : Respond(c, s, a)
      PROVE  Coursing'
  <2>1. CASE Acquire(c)
    BY <2>1, QuietReplays DEF Acquire, storeVars, durableVars, ghosts
  <2>2. CASE Lost(c)
    BY <2>2, QuietReplays DEF Lost, storeVars, durableVars, ghosts
  <2>3. CASE Interrupt(c)
    BY <2>3, QuietReplays DEF Interrupt, storeVars, durableVars
  <2>4. ASSUME NEW s \in Submissions, NEW a \in Answers, Respond(c, s, a) PROVE Coursing'
    BY <2>4, QuietReplays DEF Respond, answerRequest, storeVars, durableVars
  <2>5. QED
    BY <1>4, <2>1, <2>2, <2>3, <2>4, ClaimedReplays
<1>5. CASE UNCHANGED vars
  BY <1>5, QuietReplays DEF vars, storeVars, durableVars, ghosts
<1>6. QED
  BY <1>1, <1>2, <1>3, <1>4, <1>5 DEF Next

LEMMA SpecCoursing == Spec => [](Standing /\ Coursing)
<1>1. Init => Standing /\ Coursing
  BY StandingInit, CoursingInit
<1>2. Standing /\ Coursing /\ [Next]_vars => (Standing /\ Coursing)'
  BY StandingNext, CoursingNext
<1>3. QED
  BY <1>1, <1>2, PTL DEF Spec

\* Only the call of a model makes the journal of answers longer.
LEMMA OneCaller ==
  ASSUME Standing, Next, NEW s \in Submissions, Len(journal'[s].models) > Len(journal[s].models)
  PROVE  CallModel(s)
<1>1. journal \in [Submissions -> JournalRec] /\ journal[s] \in JournalRec
  BY DEF Standing, EngineTypes
<1>2. Len(journal[s].models) \in Nat
  BY <1>1 DEF JournalRec
<1>3. journal'[s].models # journal[s].models /\ journal' # journal
  BY <1>2
<1>4. ASSUME NEW t \in Submissions, Body(t) \/ FinishFails(t) \/ Crash(t) PROVE CallModel(s)
  <2>1. t = s
    BY <1>3, <1>4, BodyElsewhere DEF Elsewhere
  <2>2. CASE Observe(s)
    <3>1. journal'[s].models = journal[s].models
      BY <1>1, <2>2 DEF Observe, JournalRec
    <3>2. QED
      BY <1>3, <3>1
  <2>3. CASE JournalDrain(s)
    <3>1. journal'[s].models = journal[s].models
      BY <1>1, <2>3 DEF JournalDrain, JournalRec
    <3>2. QED
      BY <1>3, <3>1
  <2>4. CASE JournalFinish(s)
    <3>1. journal'[s].models = journal[s].models
      BY <1>1, <2>4 DEF JournalFinish, JournalRec
    <3>2. QED
      BY <1>3, <3>1
  <2>5. CASE Ended(s)
    <3>1. journal'[s].models = <<>>
      BY <1>1, <2>5, NothingKept DEF Ended
    <3>2. Len(journal'[s].models) = 0
      BY <3>1
    <3>3. QED
      BY <1>2, <3>2
  <2>6. CASE journal' = journal
    BY <1>3, <2>6
  <2>7. QED
    BY <1>4, <2>1, <2>2, <2>3, <2>4, <2>5, <2>6
    DEF Body, ReplayModel, Register, Park, Resume, CheckInterrupt, Consume, Take, ReplayDrain,
        PublishClose, NextRun, Interrupted, ClearOpen, ClearIntent, FinishClaim, ReplayFinish,
        FlushTerminal, Complete, FinishFails, Crash, durableVars
<1>5. CASE followUp
  BY <1>3, <1>5 DEF followUp
<1>6. ASSUME NEW c \in Clients,
             \/ \E p \in Prompts : Prompt(c, p)
             \/ Acquire(c) \/ UnderWay(c) \/ Lost(c) \/ Interrupt(c)
             \/ \E t \in Submissions, a \in Answers : Respond(c, t, a)
      PROVE  CallModel(s)
  <2>1. journal' = journal
    BY <1>6 DEF Prompt, Acquire, UnderWay, Lost, Interrupt, Respond, OpenAdmission, Execute, Attach,
                Classify, Release, Deliver, TakeDelivered, Signal, Refuse, durableVars
  <2>2. QED
    BY <1>3, <2>1
<1>7. QED
  BY <1>4, <1>5, <1>6 DEF Next

\* However often the journal of a submission nobody interrupted is executed, and
\* wherever an execution of it stopped, the log tells of one end.
THEOREM SpecOneEnding == Spec => []OneEnding
<1>1. Standing /\ Coursing => OneEnding
  <2> SUFFICES ASSUME Standing, Coursing, NEW s \in Submissions, s \notin asked
               PROVE  Cardinality(log[s]) <= 1 /\ "interrupted" \notin log[s]
    BY DEF OneEnding
  <2>1. PICK q \in Seq(PlaceRec) : CourseOf(s, q)
    BY DEF Coursing, Replayed
  <2>2. CASE log[s] = {}
    BY <2>2, FS_EmptySet
  <2>3. CASE log[s] # {}
    <3>1. log[s] = {q[Len(q)].held} /\ q[Len(q)] \in PlaceRec
      BY <2>1, <2>3 DEF CourseOf
    <3>2. q[Len(q)].held \in {"none", "failed", "completed"}
      BY <3>1 DEF PlaceRec
    <3>3. Cardinality(log[s]) = 1
      BY <3>1, FS_Singleton
    <3>4. QED
      BY <3>1, <3>2, <3>3
  <2>4. QED
    BY <2>2, <2>3
<1>2. QED
  BY <1>1, SpecCoursing, PTL

\* What a run that replayed its journal to the end reports is what the run that
\* wrote the history had committed.
THEOREM SpecReportIsCommitted == Spec => ReportIsCommitted
<1>1. Standing /\ Coursing /\ [Next]_vars =>
        [\A s \in Submissions \ asked :
            Completes(s) /\ stored[s] # NoOutcome => stored[s] = ReportOf(s)]_vars
  <2> SUFFICES ASSUME Standing, Coursing, NEW s \in Submissions \ asked, Completes(s), stored[s] # NoOutcome
               PROVE  stored[s] = ReportOf(s)
    OBVIOUS
  <2>1. PICK q \in Seq(PlaceRec) : CourseOf(s, q)
    BY DEF Coursing, Replayed
  <2>2. mem[s].pc \in Over
    BY Within DEF Completes
  <2>3. PlaceOf(mem[s]) = q[Len(q)]
    BY <2>1, <2>2, AtTheEnd
  <2>4. mem[s].held = q[Len(q)].held /\ mem[s].applied = q[Len(q)].applied
    BY <2>3, PlaceFields
  <2>5. stored[s] = [tag |-> q[Len(q)].held, applied |-> q[Len(q)].applied, answer |-> journal[s].answer]
    BY <2>1 DEF CourseOf
  <2>6. QED
    BY <2>4, <2>5 DEF ReportOf
<1>2. QED
  BY <1>1, SpecCoursing, PTL DEF Spec, ReportIsCommitted

\* A model is called beyond the journal only while the claim is held: the end of
\* a course whose claim is gone is an end, and a replay of it calls no model.
THEOREM SpecOnlyTheHolderCallsTheModel == Spec => OnlyTheHolderCallsTheModel
<1>1. Standing /\ Coursing /\ Standing' /\ [Next]_vars =>
        [\A s \in Submissions \ (asked \union freed) :
            Len(journal'[s].models) > Len(journal[s].models) => row.claim.sub = s]_vars
  <2> SUFFICES ASSUME Standing, Coursing, Standing', Next, NEW s \in Submissions \ (asked \union freed),
                      Len(journal'[s].models) > Len(journal[s].models)
               PROVE  row.claim.sub = s
    OBVIOUS
  <2>1. CallModel(s)
    BY OneCaller
  <2>2. PICK q \in Seq(PlaceRec) : CourseOf(s, q)
    BY DEF Coursing, Replayed
  <2>3. exec[s] = "running" /\ mem[s].pc = "calling" /\ ~(mem[s].runs <= Len(journal[s].models))
    BY <2>1 DEF CallModel, At, Replays
  <2>4. PICK i \in 1 .. Len(q) : PlaceOf(mem[s]) = q[i]
    BY <2>2 DEF CourseOf
  <2>5. q[i].pc = "calling" /\ q[i].runs = mem[s].runs /\ Len(q) \in Nat
    BY <2>3, <2>4, PlaceFields, Within DEF InRun
  <2>6. ASSUME i < Len(q) PROVE FALSE
    <3>1. i \in 1 .. Len(q) - 1
      BY <2>5, <2>6
    <3>2. Leads(q[i], q[i + 1], journal[s])
      BY <2>2, <3>1 DEF CourseOf
    <3>3. QED
      BY <2>3, <2>5, <3>2, NothingAfterOver
  <2>7. q[Len(q)].pc # "over"
    BY <2>5, <2>6
  <2>8. QED
    BY <2>2, <2>3, <2>7 DEF CourseOf
<1>2. QED
  BY <1>1, SpecCoursing, PTL DEF Spec, OnlyTheHolderCallsTheModel
=============================================================================
