------------------------ MODULE SqlSessionStore_proofs ------------------------
(***************************************************************************)
(* What holds of SqlSessionStore for every number of connections, prompts, *)
(* requests, answers and submissions, at either isolation level.           *)
(***************************************************************************)
EXTENDS SqlSessionStore, TLAPS

Claiming  == {"claimWrite", "claimReadBack", "claimSweep"}
Finishing == {"finishWrite", "finishReadBack", "finishSweep"}

\* What an open transaction remembers is what its read can have returned.
Fits(t) ==
    /\ t.step \in Claiming => t.seen.sub \in Submissions /\ t.seen.exec = 0
    /\ t.step = "attachWrite" => t.sub \in Submissions /\ t.seen.sub = t.sub
    /\ t.step = "finishWrite" => t.sub \in started \ running /\ t.seen.sub = t.sub
    /\ t.step \in {"answerWrite", "takeDelete"} => t.req \in Requests /\ t.id \in 1 .. asked
    /\ t.step = "answerWrite" => t.answer \in Answers

OpenTxns == \A c \in Clients : Fits(txn[c])

\* A held claim is a submission's, the last one numbered; what runs, runs for it.
HeldClaim ==
    /\ row.claim # NoClaim => row.claim.sub \in Submissions /\ row.claim.sub = row.count
    /\ \A s \in running : row.claim.sub = s

\* A row of the elicitation table says one thing, under an id of its own.
Questions ==
    /\ \A r \in Requests :
          /\ request[r].state = "absent" => request[r] = NoAsk
          /\ request[r].state # "absent" => request[r].id \in 1 .. asked
          /\ request[r].state = "pending" => request[r].answer = NoPrompt
          /\ request[r].state = "answered" => request[r].answer \in Answers
    /\ \A q, r \in Requests :
          request[q].state # "absent" /\ request[q].id = request[r].id => q = r
    /\ \A x \in acked : x.id <= asked

-----------------------------------------------------------------------------
LEMMA StoreConstants ==
    /\ Submissions = 1 .. MaxSubmissions /\ MaxSubmissions \in Nat /\ MaxAsks \in Nat
    /\ NoClaim = [sub |-> 0, prompt |-> NoPrompt, key |-> NoPrompt, exec |-> 0]
    /\ NoClaim \in ClaimRecord /\ NoClaim.sub = 0 /\ NoClaim.exec = 0
    /\ NoTxn \in TxnRecord /\ NoAsk \in AskRecord /\ NoneAsked \in [Requests -> AskRecord]
    /\ NoTxn.step = "idle" /\ NoAsk.state = "absent" /\ NoAsk.id = 0
    /\ 0 \notin Submissions
BY StoreAssumption DEF Submissions, Store!Submissions, NoClaim, Store!NoClaim, ClaimRecord,
   NoTxn, TxnRecord, Steps, NoAsk, AskRecord, NoneAsked

\* The shared decision opens an idle slot only, and hands a held one's holder on.
LEMMA AdmitFacts ==
    ASSUME NEW slot, NEW key
    PROVE  /\ slot.tag \in {"Missing", "Closed"} => Store!Adm!admit(slot, key) = slot
           /\ slot.tag = "Held" => /\ Store!Adm!admit(slot, key).tag \in {"Rejoin", "Busy"}
                                   /\ Store!Adm!admit(slot, key).holder = slot.holder
           /\ slot.tag = "Idle" =>
                Store!Adm!admit(slot, key) = [tag |-> "Open", ordinal |-> slot.count + 1]
<1>1. CASE slot.tag \in {"Missing", "Closed"}
  BY <1>1 DEF Store!Adm!admit
<1>2. CASE slot.tag = "Held"
  BY <1>2 DEF Store!Adm!admit
<1>3. CASE slot.tag = "Idle"
  BY <1>3 DEF Store!Adm!admit
<1>4. QED
  BY <1>1, <1>2, <1>3

\* What the store reads is opened only when it exists and nobody holds it, and
\* then under the next number; a rejoin returns the claim that is held.
LEMMA DecisionFacts ==
    ASSUME NEW p
    PROVE  /\ Store!decide(row, p).tag = "Open" =>
                /\ row.exists /\ row.claim = NoClaim
                /\ Store!decide(row, p).ordinal = row.count + 1
           /\ Store!decide(row, p).tag = "Rejoin" => Store!decide(row, p).holder = row.claim
           /\ row.exists /\ row.claim = NoClaim =>
                Store!decide(row, p) = [tag |-> "Open", ordinal |-> row.count + 1]
<1> DEFINE slot == Store!slotOf(row)
<1>d. Store!decide(row, p) = Store!Adm!admit(slot, Store!KeyOf(p))
  BY DEF Store!decide
<1>1. CASE ~row.exists
  <2>1. slot.tag = "Missing"
    BY <1>1 DEF Store!slotOf, Store!Adm!MissingSlot
  <2>2. QED
    BY <1>1, <1>d, <2>1, AdmitFacts
<1>2. CASE row.exists /\ row.claim # NoClaim
  <2>1. slot.tag = "Held" /\ slot.holder = row.claim
    BY <1>2 DEF Store!slotOf, Store!Adm!HeldSlot, NoClaim
  <2>2. QED
    BY <1>2, <1>d, <2>1, AdmitFacts
<1>3. CASE row.exists /\ row.claim = NoClaim
  <2>1. slot.tag = "Idle" /\ slot.count = row.count
    BY <1>3 DEF Store!slotOf, Store!Adm!IdleSlot, NoClaim
  <2>2. QED
    BY <1>3, <1>d, <2>1, AdmitFacts
<1>4. QED
  BY <1>1, <1>2, <1>3

-----------------------------------------------------------------------------
(* The shape of the tables and of what the transactions remember *)

Shape == TypeOK /\ OpenTxns /\ HeldClaim /\ Questions

LEMMA ShapeInit == Init => Shape
<1> SUFFICES ASSUME Init PROVE Shape
  OBVIOUS
<1>1. TypeOK
  <2>1. row = [exists |-> FALSE, count |-> 0, claim |-> NoClaim, history |-> 0]
    BY DEF Init, Store!NoRow, NoClaim
  <2>2. row \in RowRecord
    <3>1. 0 \in 0 .. MaxSubmissions /\ NoClaim \in ClaimRecord
      BY StoreConstants
    <3>2. QED
      BY <2>1, <3>1 DEF RowRecord
  <2>3. txn \in [Clients -> TxnRecord] /\ asked \in 0 .. MaxAsks
    BY StoreConstants DEF Init
  <2>4. QED
    BY <2>2, <2>3, StoreConstants DEF TypeOK, Init
<1>2. OpenTxns
  BY StoreConstants DEF Init, OpenTxns, Fits, Claiming
<1>3. HeldClaim
  BY StoreConstants DEF Init, HeldClaim, Store!NoRow, NoClaim
<1>4. Questions
  BY StoreConstants DEF Init, Questions, NoneAsked
<1>5. QED
  BY <1>1, <1>2, <1>3, <1>4 DEF Shape

\* The open transaction of a client, and nobody else's, is what a step changes.
LEMMA OpenType ==
    ASSUME txn \in [Clients -> TxnRecord], NEW c \in Clients
    PROVE  /\ \A t \in TxnRecord : Open(c, t) => txn' \in [Clients -> TxnRecord]
           /\ \A step \in Steps : GoOn(c, step) => txn' \in [Clients -> TxnRecord]
           /\ Return(c) => txn' \in [Clients -> TxnRecord]
<1>1. \A t \in TxnRecord : Open(c, t) => txn' \in [Clients -> TxnRecord]
  BY DEF Open
<1>2. ASSUME NEW step \in Steps, GoOn(c, step) PROVE txn' \in [Clients -> TxnRecord]
  <2>1. [txn[c] EXCEPT !.step = step] \in TxnRecord
    BY DEF TxnRecord
  <2>2. txn' = [txn EXCEPT ![c] = [txn[c] EXCEPT !.step = step]]
    BY <1>2 DEF GoOn
  <2>3. QED
    BY <2>1, <2>2
<1>3. Return(c) => txn' \in [Clients -> TxnRecord]
  BY StoreConstants DEF Return
<1>4. QED
  BY <1>1, <1>2, <1>3

\* What the writes do to a row keeps it a row.
LEMMA RowType ==
    ASSUME NEW old \in RowRecord, NEW n \in 0 .. MaxSubmissions, NEW claim \in ClaimRecord
    PROVE  /\ [old EXCEPT !.count = n, !.claim = claim] \in RowRecord
           /\ [old EXCEPT !.claim = claim, !.history = n] \in RowRecord
           /\ [old EXCEPT !.claim = claim] \in RowRecord
           /\ \A s \in Submissions : [claim EXCEPT !.exec = s] \in ClaimRecord
<1>1. \A s \in Submissions : [claim EXCEPT !.exec = s] \in ClaimRecord
  BY DEF ClaimRecord
<1>2. QED
  BY <1>1 DEF RowRecord

LEMMA TypeSession ==
    ASSUME Shape, NEW c \in Clients, SessionStep(c)
    PROVE  TypeOK'
<1> USE StoreConstants DEF Shape, TypeOK
<1>t. /\ row \in RowRecord /\ txn \in [Clients -> TxnRecord] /\ txn[c] \in TxnRecord
  OBVIOUS
<1>1. CASE getOrCreate(c)
  BY <1>1 DEF getOrCreate, RowRecord, runVars
<1>2. ASSUME NEW p \in Prompts, claimRead(c, p) PROVE TypeOK'
  <2> DEFINE d == Store!decide(row, p)
  <2>1. CASE Open(c, [NoTxn EXCEPT !.step = "claimWrite", !.seen = Store!openClaim(d.ordinal, p)])
             /\ UNCHANGED granted /\ d.ordinal \in Submissions
    <3>1. Store!openClaim(d.ordinal, p) \in ClaimRecord
      BY <2>1, StoreAssumption DEF Store!openClaim, Store!KeyOf, ClaimRecord
    <3>2. [NoTxn EXCEPT !.step = "claimWrite", !.seen = Store!openClaim(d.ordinal, p)] \in TxnRecord
      BY <3>1 DEF TxnRecord, Steps
    <3>3. QED
      BY <1>2, <2>1, <3>2, OpenType DEF claimRead, tables, runVars
  <2>2. CASE d.tag = "Rejoin" /\ granted' = granted \cup {d.holder} /\ UNCHANGED txn
    BY <1>2, <1>t, <2>2, DecisionFacts DEF claimRead, tables, runVars, RowRecord
  <2>3. QED
    BY <1>2, <2>1, <2>2 DEF claimRead
<1>3. CASE claimWrite(c)
  <2>1. txn[c].seen \in ClaimRecord /\ txn[c].seen.sub \in Submissions
    BY <1>3, <1>t DEF claimWrite, At, OpenTxns, Fits, Claiming, TxnRecord
  <2>2. txn' \in [Clients -> TxnRecord]
    BY <1>3, OpenType DEF claimWrite, Steps
  <2>3. row' \in RowRecord /\ request' \in [Requests -> AskRecord] /\ granted' \subseteq ClaimRecord
    <3>1. txn[c].seen.sub \in 0 .. MaxSubmissions
      BY <2>1
    <3>2. row' \in RowRecord
      <4>1. [row EXCEPT !.count = txn[c].seen.sub, !.claim = txn[c].seen] \in RowRecord
        BY <1>t, <2>1, <3>1, RowType
      <4>2. row' \in {row, [row EXCEPT !.count = txn[c].seen.sub, !.claim = txn[c].seen]}
        BY <1>3 DEF claimWrite
      <4>3. QED
        BY <1>t, <4>1, <4>2
    <3>3. QED
      BY <1>3, <2>1, <3>2 DEF claimWrite
  <2>4. turnedBack' \in BOOLEAN
    BY <1>3 DEF claimWrite
  <2>5. QED
    BY <1>3, <2>2, <2>3, <2>4 DEF claimWrite, runVars
<1>4. CASE claimReadBack(c)
  BY <1>4, OpenType DEF claimReadBack, Steps, tables, runVars
<1>5. CASE claimSweep(c)
  BY <1>5, <1>t, OpenType DEF claimSweep, runVars, TxnRecord
<1>6. ASSUME NEW s \in Submissions, attachRead(c, s) PROVE TypeOK'
  <2>1. [NoTxn EXCEPT !.step = "attachWrite", !.sub = s, !.seen = row.claim] \in TxnRecord
    BY <1>t DEF TxnRecord, Steps, RowRecord
  <2>2. QED
    BY <1>6, <2>1, OpenType DEF attachRead, tables, runVars
<1>7. CASE attachWrite(c)
  <2>1. txn[c].seen \in ClaimRecord /\ txn[c].sub \in Submissions
    BY <1>7, <1>t DEF attachWrite, At, OpenTxns, Fits, TxnRecord
  <2>2. [txn[c].seen EXCEPT !.exec = txn[c].sub] \in ClaimRecord
    BY <2>1 DEF ClaimRecord
  <2>3. row' \in RowRecord
    BY <1>7, <1>t, <2>2 DEF attachWrite, RowRecord
  <2>4. QED
    BY <1>7, <2>3, OpenType DEF attachWrite, runVars
<1>8. ASSUME NEW s \in Submissions, NEW h \in 0 .. MaxSubmissions, finishRead(c, s, h)
      PROVE  TypeOK'
  <2>1. [NoTxn EXCEPT !.step = "finishWrite", !.sub = s, !.seen = row.claim, !.history = h]
           \in TxnRecord
    BY <1>t DEF TxnRecord, Steps, RowRecord
  <2>2. txn' \in [Clients -> TxnRecord]
    BY <1>8, <2>1, OpenType DEF finishRead
  <2>3. QED
    BY <1>8, <2>2 DEF finishRead, tables
<1>9. CASE finishWrite(c)
  <2>1. row' \in RowRecord /\ request' \in [Requests -> AskRecord]
    BY <1>9, <1>t DEF finishWrite, RowRecord, TxnRecord
  <2>2. QED
    BY <1>9, <2>1, OpenType DEF finishWrite, runVars, Steps
<1>10. CASE finishReadBack(c)
  BY <1>10, OpenType DEF finishReadBack, Steps, tables, runVars
<1>11. CASE finishSweep(c)
  BY <1>11, OpenType DEF finishSweep, runVars
<1>12. QED
  BY <1>1, <1>2, <1>3, <1>4, <1>5, <1>6, <1>7, <1>8, <1>9, <1>10, <1>11 DEF SessionStep

LEMMA TypeRequest ==
    ASSUME Shape, NEW c \in Clients, RequestStep(c)
    PROVE  TypeOK'
<1> USE StoreConstants DEF Shape, TypeOK
<1>t. /\ request \in [Requests -> AskRecord] /\ txn[c] \in TxnRecord
  OBVIOUS
<1>1. ASSUME NEW r \in Requests, NEW s \in Submissions, addPendingRequest(c, s, r) PROVE TypeOK'
  <2>1. asked + 1 \in 0 .. MaxAsks
    BY <1>1 DEF addPendingRequest
  <2>2. request' \in [Requests -> AskRecord]
    BY <1>1, <1>t, <2>1 DEF addPendingRequest, AskRecord
  <2>3. QED
    BY <1>1, <2>1, <2>2 DEF addPendingRequest, runVars
<1>2. ASSUME NEW r \in Requests, NEW a \in Answers, answerRead(c, r, a) PROVE TypeOK'
  <2>1. [NoTxn EXCEPT !.step = "answerWrite", !.req = r, !.id = request[r].id, !.answer = a]
           \in TxnRecord
    BY <1>t DEF TxnRecord, Steps, AskRecord
  <2>2. QED
    BY <1>2, <2>1, OpenType DEF answerRead, tables, runVars
<1>3. ASSUME NEW r \in Requests, takeRead(c, r) PROVE TypeOK'
  <2>1. [NoTxn EXCEPT !.step = "takeDelete", !.req = r, !.id = request[r].id] \in TxnRecord
    BY <1>t DEF TxnRecord, Steps, AskRecord
  <2>2. QED
    BY <1>3, <2>1, OpenType DEF takeRead, tables, runVars
<1>4. ASSUME NEW r \in Requests, removeRequest(c, r) PROVE TypeOK'
  BY <1>4, <1>t DEF removeRequest, runVars
<1>5. CASE answerWrite(c)
  <2> DEFINE t == txn[c]
             after == IF request[t.req].id = t.id /\ request[t.req].state = "pending"
                      THEN [request EXCEPT ![t.req].state = "answered", ![t.req].answer = t.answer]
                      ELSE request
  <2>1. t.req \in Requests /\ t.id \in 1 .. MaxAsks /\ t.answer \in Answers
    BY <1>5 DEF answerWrite, At, OpenTxns, Fits
  <2>2. after \in [Requests -> AskRecord]
    <3>1. [request[t.req] EXCEPT !.state = "answered", !.answer = t.answer] \in AskRecord
      BY <1>t, <2>1 DEF AskRecord
    <3>2. after \in {request, [request EXCEPT ![t.req] =
                        [request[t.req] EXCEPT !.state = "answered", !.answer = t.answer]]}
      BY <1>t, <2>1
    <3>3. QED
      BY <1>t, <2>1, <3>1, <3>2
  <2>3. request' = after /\ acked' \subseteq acked \cup {[id |-> t.id, answer |-> t.answer]}
    BY <1>5 DEF answerWrite
  <2>4. QED
    BY <1>5, <2>1, <2>2, <2>3, OpenType DEF answerWrite, runVars
<1>6. CASE takeDelete(c)
  <2>1. request' \in [Requests -> AskRecord]
    BY <1>6, <1>t DEF takeDelete
  <2>2. QED
    BY <1>6, <2>1, OpenType DEF takeDelete, runVars
<1>7. QED
  BY <1>1, <1>2, <1>3, <1>4, <1>5, <1>6 DEF RequestStep

LEMMA TypeRest ==
    ASSUME Shape, Dispatch \/ UNCHANGED vars \/ \E c \in Clients : Rollback(c)
    PROVE  TypeOK'
<1>1. CASE Dispatch
  BY <1>1 DEF Shape, TypeOK, HeldClaim, Dispatch, tables
<1>2. ASSUME NEW c \in Clients, Rollback(c) PROVE TypeOK'
  BY <1>2, OpenType DEF Shape, TypeOK, Rollback, tables, runVars
<1>3. CASE UNCHANGED vars
  BY <1>3 DEF Shape, TypeOK, vars, tables, runVars
<1>4. QED
  BY <1>1, <1>2, <1>3

\* Only its own transaction of a client changes, and its step fits what it read.
LEMMA Bystanders ==
    ASSUME Shape, NEW c \in Clients, \A d \in Clients : d # c => txn'[d] = txn[d],
           started \ running \subseteq started' \ running', asked' \in {asked, asked + 1},
           Fits(txn[c])' 
    PROVE  OpenTxns'
<1> SUFFICES ASSUME NEW d \in Clients, d # c PROVE Fits(txn[d])'
  BY DEF OpenTxns
<1>1. Fits(txn[d]) /\ txn'[d] = txn[d]
  BY DEF Shape, OpenTxns
<1>2. 1 .. asked \subseteq 1 .. asked'
  BY StoreConstants DEF Shape, TypeOK
<1>3. QED
  BY <1>1, <1>2 DEF Fits

\* The forms in which a step leaves its transaction.
LEMMA TxnForms ==
    ASSUME TypeOK, NEW c \in Clients
    PROVE  /\ \A t : Open(c, t) => txn'[c] = t /\ \A d \in Clients : d # c => txn'[d] = txn[d]
           /\ \A step : GoOn(c, step) => /\ txn'[c].step = step
                                         /\ txn'[c].seen = txn[c].seen
                                         /\ txn'[c].sub = txn[c].sub
                                         /\ txn'[c].history = txn[c].history
                                         /\ \A d \in Clients : d # c => txn'[d] = txn[d]
           /\ Return(c) => txn'[c] = NoTxn /\ \A d \in Clients : d # c => txn'[d] = txn[d]
           /\ txn[c] \in TxnRecord /\ row \in RowRecord
<1>1. txn \in [Clients -> TxnRecord] /\ txn[c] \in TxnRecord /\ row \in RowRecord
  BY DEF TypeOK
<1>2. ASSUME NEW step, GoOn(c, step)
      PROVE  /\ txn'[c].step = step /\ txn'[c].seen = txn[c].seen /\ txn'[c].sub = txn[c].sub
             /\ txn'[c].history = txn[c].history
             /\ \A d \in Clients : d # c => txn'[d] = txn[d]
  <2>1. txn'[c] = [txn[c] EXCEPT !.step = step] /\ \A d \in Clients : d # c => txn'[d] = txn[d]
    BY <1>1, <1>2 DEF GoOn
  <2>2. QED
    BY <1>1, <2>1 DEF TxnRecord
<1>3. QED
  BY <1>1, <1>2 DEF Open, Return

LEMMA ReturnFits == Fits(NoTxn)'
BY StoreConstants DEF Fits, Claiming

LEMMA TxnsSession ==
    ASSUME Shape, NEW c \in Clients, SessionStep(c)
    PROVE  OpenTxns'
<1> USE DEF Shape
<1>t. asked' \in {asked, asked + 1} /\ OpenTxns
  BY DEF SessionStep, getOrCreate, claimRead, claimWrite, claimReadBack, claimSweep, attachRead,
     attachWrite, finishRead, finishWrite, finishReadBack, finishSweep, tables
<1>1. CASE getOrCreate(c)
  BY <1>1 DEF getOrCreate, runVars, OpenTxns, Fits
<1>2. ASSUME NEW p \in Prompts, claimRead(c, p) PROVE OpenTxns'
  <2> DEFINE d == Store!decide(row, p)
             t == [NoTxn EXCEPT !.step = "claimWrite", !.seen = Store!openClaim(d.ordinal, p)]
  <2>1. CASE Open(c, t) /\ d.ordinal \in Submissions
    <3>1. txn'[c] = t /\ \A e \in Clients : e # c => txn'[e] = txn[e]
      BY <2>1, TxnForms
    <3>2. t.step = "claimWrite" /\ t.seen.sub = d.ordinal /\ t.seen.exec = 0
      BY DEF NoTxn, Store!openClaim
    <3>3. Fits(txn[c])'
      BY <2>1, <3>1, <3>2 DEF Fits, Claiming
    <3>4. QED
      BY <1>2, <1>t, <3>1, <3>3, Bystanders DEF claimRead, runVars
  <2>2. CASE UNCHANGED txn
    BY <1>2, <2>2, <1>t DEF claimRead, OpenTxns, Fits, runVars, tables
  <2>3. QED
    BY <1>2, <2>1, <2>2 DEF claimRead
<1>3. CASE claimWrite(c) \/ claimReadBack(c)
  <2>1. \/ Return(c)
        \/ /\ txn[c].step \in Claiming /\ \E step \in Claiming : GoOn(c, step)
    BY <1>3 DEF claimWrite, claimReadBack, At, Claiming
  <2>2. Fits(txn[c])' /\ \A d \in Clients : d # c => txn'[d] = txn[d]
    <3>1. CASE Return(c)
      BY <3>1, TxnForms, ReturnFits DEF Fits
    <3>2. ASSUME txn[c].step \in Claiming, NEW step \in Claiming, GoOn(c, step)
          PROVE  Fits(txn[c])' /\ \A d \in Clients : d # c => txn'[d] = txn[d]
      <4>1. /\ txn'[c].step = step /\ txn'[c].seen = txn[c].seen
            /\ \A d \in Clients : d # c => txn'[d] = txn[d]
        BY <3>2, TxnForms
      <4>2. QED
        BY <3>2, <4>1, <1>t DEF Fits, OpenTxns, Claiming
    <3>3. QED
      BY <2>1, <3>1, <3>2
  <2>3. QED
    BY <1>3, <1>t, <2>2, Bystanders DEF claimWrite, claimReadBack, runVars
<1>4. CASE claimSweep(c) \/ attachWrite(c) \/ finishSweep(c)
  <2>1. Return(c)
    BY <1>4 DEF claimSweep, attachWrite, finishSweep
  <2>2. Fits(txn[c])' /\ \A d \in Clients : d # c => txn'[d] = txn[d]
    BY <2>1, TxnForms, ReturnFits DEF Fits
  <2>3. QED
    BY <1>4, <1>t, <2>2, Bystanders DEF claimSweep, attachWrite, finishSweep, runVars
<1>5. ASSUME NEW s \in Submissions, attachRead(c, s) PROVE OpenTxns'
  <2> DEFINE t == [NoTxn EXCEPT !.step = "attachWrite", !.sub = s, !.seen = row.claim]
  <2>1. txn'[c] = t /\ \A e \in Clients : e # c => txn'[e] = txn[e]
    BY <1>5, TxnForms DEF attachRead
  <2>2. t.step = "attachWrite" /\ t.sub = s /\ t.seen.sub = s
    BY <1>5 DEF NoTxn, attachRead
  <2>3. Fits(txn[c])'
    BY <2>1, <2>2 DEF Fits, Claiming
  <2>4. QED
    BY <1>5, <1>t, <2>1, <2>3, Bystanders DEF attachRead, runVars
<1>6. ASSUME NEW s \in Submissions, NEW h \in 0 .. MaxSubmissions, finishRead(c, s, h)
      PROVE  OpenTxns'
  <2> DEFINE t == [NoTxn EXCEPT !.step = "finishWrite", !.sub = s, !.seen = row.claim,
                                !.history = h]
  <2>f. running' = running \ {s} /\ started' = started /\ s \in started
    BY <1>6 DEF finishRead
  <2>1. CASE row.claim.sub = s /\ Open(c, t)
    <3>1. txn'[c] = t /\ \A e \in Clients : e # c => txn'[e] = txn[e]
      BY <2>1, TxnForms
    <3>2. t.step = "finishWrite" /\ t.sub = s /\ t.seen.sub = s
      BY <2>1 DEF NoTxn
    <3>3. Fits(txn[c])'
      BY <2>f, <3>1, <3>2 DEF Fits, Claiming
    <3>4. QED
      BY <2>f, <1>t, <3>1, <3>3, Bystanders
  <2>2. CASE UNCHANGED txn
    BY <2>2, <2>f, <1>6 DEF finishRead, OpenTxns, Fits, tables
  <2>3. QED
    BY <1>6, <2>1, <2>2 DEF finishRead
<1>7. CASE finishWrite(c) \/ finishReadBack(c)
  <2>1. Return(c) \/ \E step \in {"finishReadBack", "finishSweep"} : GoOn(c, step)
    BY <1>7 DEF finishWrite, finishReadBack
  <2>2. Fits(txn[c])' /\ \A d \in Clients : d # c => txn'[d] = txn[d]
    <3>1. CASE Return(c)
      BY <3>1, TxnForms, ReturnFits DEF Fits
    <3>2. ASSUME NEW step \in {"finishReadBack", "finishSweep"}, GoOn(c, step)
          PROVE  Fits(txn[c])' /\ \A d \in Clients : d # c => txn'[d] = txn[d]
      <4>1. txn'[c].step = step /\ \A d \in Clients : d # c => txn'[d] = txn[d]
        BY <3>2, TxnForms
      <4>2. QED
        BY <4>1 DEF Fits, Claiming
    <3>3. QED
      BY <2>1, <3>1, <3>2
  <2>3. QED
    BY <1>7, <1>t, <2>2, Bystanders DEF finishWrite, finishReadBack, runVars
<1>8. QED
  BY <1>1, <1>2, <1>3, <1>4, <1>5, <1>6, <1>7, Zenon DEF SessionStep

LEMMA TxnsRequest ==
    ASSUME Shape, NEW c \in Clients, RequestStep(c)
    PROVE  OpenTxns'
<1> USE DEF Shape
<1>t. OpenTxns /\ request \in [Requests -> AskRecord] /\ asked \in Nat
  BY StoreConstants DEF TypeOK
<1>1. ASSUME NEW r \in Requests, NEW s \in Submissions, addPendingRequest(c, s, r) PROVE OpenTxns'
  <2>1. /\ txn' = txn /\ running' = running /\ started' = started /\ asked' = asked + 1
    BY <1>1 DEF addPendingRequest, runVars
  <2>2. \A d \in Clients : Fits(txn[d])'
    <3> SUFFICES ASSUME NEW d \in Clients PROVE Fits(txn[d])'
      OBVIOUS
    <3>1. Fits(txn[d]) /\ 1 .. asked \subseteq 1 .. asked'
      BY <2>1, <1>t DEF OpenTxns
    <3>2. QED
      BY <2>1, <3>1 DEF Fits
  <2>3. QED
    BY <2>2 DEF OpenTxns
<1>2. ASSUME NEW r \in Requests, NEW a \in Answers, answerRead(c, r, a) PROVE OpenTxns'
  <2> DEFINE t == [NoTxn EXCEPT !.step = "answerWrite", !.req = r, !.id = request[r].id,
                                !.answer = a]
  <2>1. txn'[c] = t /\ \A e \in Clients : e # c => txn'[e] = txn[e]
    BY <1>2, TxnForms DEF answerRead
  <2>2. t.step = "answerWrite" /\ t.req = r /\ t.id = request[r].id /\ t.answer = a
    BY DEF NoTxn
  <2>3. request[r].id \in 1 .. asked /\ asked' = asked
    BY <1>2 DEF answerRead, Questions, tables
  <2>4. Fits(txn[c])'
    BY <2>1, <2>2, <2>3 DEF Fits, Claiming
  <2>5. QED
    BY <1>2, <2>1, <2>3, <2>4, Bystanders DEF answerRead, runVars
<1>3. ASSUME NEW r \in Requests, takeRead(c, r) PROVE OpenTxns'
  <2> DEFINE t == [NoTxn EXCEPT !.step = "takeDelete", !.req = r, !.id = request[r].id]
  <2>1. txn'[c] = t /\ \A e \in Clients : e # c => txn'[e] = txn[e]
    BY <1>3, TxnForms DEF takeRead
  <2>2. t.step = "takeDelete" /\ t.req = r /\ t.id = request[r].id
    BY DEF NoTxn
  <2>3. request[r].id \in 1 .. asked /\ asked' = asked
    BY <1>3 DEF takeRead, Questions, tables
  <2>4. Fits(txn[c])'
    BY <2>1, <2>2, <2>3 DEF Fits, Claiming
  <2>5. QED
    BY <1>3, <2>1, <2>3, <2>4, Bystanders DEF takeRead, runVars
<1>4. ASSUME NEW r \in Requests, removeRequest(c, r) PROVE OpenTxns'
  BY <1>4 DEF removeRequest, runVars, OpenTxns, Fits
<1>5. CASE answerWrite(c) \/ takeDelete(c)
  <2>1. Return(c) /\ asked' = asked /\ UNCHANGED runVars
    BY <1>5 DEF answerWrite, takeDelete
  <2>2. Fits(txn[c])' /\ \A d \in Clients : d # c => txn'[d] = txn[d]
    BY <2>1, TxnForms, ReturnFits DEF Fits
  <2>3. QED
    BY <2>1, <2>2, Bystanders DEF runVars
<1>6. QED
  BY <1>1, <1>2, <1>3, <1>4, <1>5 DEF RequestStep

LEMMA TxnsRest ==
    ASSUME Shape, Dispatch \/ UNCHANGED vars \/ \E c \in Clients : Rollback(c)
    PROVE  OpenTxns'
<1> USE DEF Shape
<1>1. CASE Dispatch
  <2>1. txn' = txn /\ asked' = asked /\ started \ running \subseteq started' \ running'
    BY <1>1 DEF Dispatch, tables
  <2>2. QED
    BY <2>1 DEF OpenTxns, Fits
<1>2. ASSUME NEW c \in Clients, Rollback(c) PROVE OpenTxns'
  <2>1. Return(c) /\ asked' = asked /\ UNCHANGED runVars
    BY <1>2 DEF Rollback, tables
  <2>2. Fits(txn[c])' /\ \A d \in Clients : d # c => txn'[d] = txn[d]
    BY <2>1, TxnForms, ReturnFits DEF Fits
  <2>3. QED
    BY <2>1, <2>2, Bystanders DEF runVars
<1>3. CASE UNCHANGED vars
  BY <1>3 DEF vars, tables, runVars, OpenTxns, Fits
<1>4. QED
  BY <1>1, <1>2, <1>3

-----------------------------------------------------------------------------
(* What the statements do to the session's row, by what they find there *)

\* The row changes in four statements, each under the precondition it restates.
LEMMA RowSteps ==
    ASSUME Shape, [Next]_vars
    PROVE  \/ UNCHANGED row
           \/ row' = [row EXCEPT !.exists = TRUE] /\ UNCHANGED <<running, started>>
           \/ \E c \in Clients : claimWrite(c) /\ row.claim = NoClaim
           \/ \E c \in Clients : attachWrite(c) /\ row.claim = txn[c].seen
           \/ \E c \in Clients : finishWrite(c) /\ row.claim = txn[c].seen
<1>1. ASSUME NEW c \in Clients, SessionStep(c), row' # row
      PROVE  \/ row' = [row EXCEPT !.exists = TRUE] /\ UNCHANGED <<running, started>>
             \/ claimWrite(c) /\ row.claim = NoClaim
             \/ attachWrite(c) /\ row.claim = txn[c].seen
             \/ finishWrite(c) /\ row.claim = txn[c].seen
  BY <1>1 DEF SessionStep, getOrCreate, claimRead, claimWrite, claimReadBack, claimSweep,
     attachRead, attachWrite, finishRead, finishWrite, finishReadBack, finishSweep, tables, runVars
<1>2. ASSUME NEW c \in Clients, RequestStep(c) \/ Rollback(c) PROVE UNCHANGED row
  BY <1>2 DEF RequestStep, addPendingRequest, answerRead, answerWrite, takeRead, takeDelete,
     removeRequest, Rollback, tables
<1>3. CASE Dispatch \/ UNCHANGED vars
  BY <1>3 DEF Dispatch, vars, tables
<1>4. \/ Dispatch \/ UNCHANGED vars \/ \E c \in Clients : Rollback(c)
      \/ \E c \in Clients : SessionStep(c) \/ RequestStep(c)
  BY DEF Next
<1>5. QED
  BY <1>1, <1>2, <1>3, <1>4

\* What those statements write.
LEMMA RowWrites ==
    ASSUME Shape, NEW c \in Clients
    PROVE  /\ claimWrite(c) /\ row.claim = NoClaim =>
                /\ row'.claim = txn[c].seen /\ row'.count = txn[c].seen.sub
                /\ row'.history = row.history /\ txn[c].seen.sub \in Submissions
                /\ txn[c].seen.exec = 0 /\ request' = NoneAsked
                /\ UNCHANGED <<running, started>>
           /\ attachWrite(c) /\ row.claim = txn[c].seen =>
                /\ row'.claim = [row.claim EXCEPT !.exec = row.claim.sub]
                /\ row'.claim.sub = row.claim.sub /\ row'.claim.exec = row.claim.sub
                /\ row'.count = row.count /\ row'.history = row.history
                /\ row.claim.sub \in Submissions /\ txn[c].sub = row.claim.sub
                /\ UNCHANGED <<request, running, started>>
           /\ finishWrite(c) /\ row.claim = txn[c].seen =>
                /\ row'.claim = NoClaim /\ row'.count = row.count
                /\ row'.history = txn[c].history /\ request' = NoneAsked
                /\ txn[c].sub = row.claim.sub /\ row.claim.sub \in started \ running
                /\ UNCHANGED <<running, started>>
<1>t. row \in RowRecord /\ txn[c] \in TxnRecord /\ Fits(txn[c]) /\ row.claim \in ClaimRecord
  BY DEF Shape, TypeOK, OpenTxns, RowRecord
<1>1. CASE claimWrite(c) /\ row.claim = NoClaim
  <2>1. txn[c].seen.sub \in Submissions /\ txn[c].seen.exec = 0
    BY <1>1, <1>t DEF claimWrite, At, Fits, Claiming
  <2>2. QED
    BY <1>1, <1>t, <2>1 DEF claimWrite, RowRecord, attachWrite, finishWrite, At, runVars
<1>2. CASE attachWrite(c) /\ row.claim = txn[c].seen
  <2>1. txn[c].sub \in Submissions /\ txn[c].seen.sub = txn[c].sub
    BY <1>2, <1>t DEF attachWrite, At, Fits
  <2>2. row' = [row EXCEPT !.claim = [row.claim EXCEPT !.exec = row.claim.sub]]
    BY <1>2, <2>1 DEF attachWrite
  <2>3. row'.claim = [row.claim EXCEPT !.exec = row.claim.sub]
        /\ row'.count = row.count /\ row'.history = row.history
    BY <1>t, <2>2 DEF RowRecord
  <2>4. row'.claim.sub = row.claim.sub /\ row'.claim.exec = row.claim.sub
    BY <1>t, <2>3 DEF ClaimRecord
  <2>5. ~claimWrite(c) /\ ~finishWrite(c)
    BY <1>2 DEF attachWrite, claimWrite, finishWrite, At
  <2>6. QED
    BY <1>2, <2>1, <2>3, <2>4, <2>5 DEF attachWrite, runVars
<1>3. CASE finishWrite(c) /\ row.claim = txn[c].seen
  <2>1. txn[c].sub \in started \ running /\ txn[c].seen.sub = txn[c].sub
    BY <1>3, <1>t DEF finishWrite, At, Fits
  <2>2. QED
    BY <1>3, <1>t, <2>1 DEF claimWrite, RowRecord, attachWrite, finishWrite, At, runVars
<1>4. QED
  BY <1>1, <1>2, <1>3

LEMMA HeldStep == ASSUME Shape, [Next]_vars PROVE HeldClaim'
<1> USE StoreConstants DEF Shape
<1>t. row \in RowRecord /\ HeldClaim /\ running \subseteq Submissions
  BY DEF TypeOK
<1>r. running' \subseteq running \cup {row.claim.sub}
  <2>1. ASSUME NEW c \in Clients, SessionStep(c) PROVE running' \subseteq running \cup {row.claim.sub}
    BY <2>1 DEF SessionStep, getOrCreate, claimRead, claimWrite, claimReadBack, claimSweep,
       attachRead, attachWrite, finishRead, finishWrite, finishReadBack, finishSweep, runVars, tables
  <2>2. ASSUME NEW c \in Clients, RequestStep(c) PROVE running' \subseteq running \cup {row.claim.sub}
    BY <2>2 DEF RequestStep, addPendingRequest, answerRead, answerWrite, takeRead, takeDelete,
       removeRequest, runVars, tables
  <2>3. ASSUME NEW c \in Clients, Rollback(c) PROVE running' \subseteq running \cup {row.claim.sub}
    BY <2>3 DEF Rollback, runVars, tables
  <2>4. ASSUME Dispatch \/ UNCHANGED vars PROVE running' \subseteq running \cup {row.claim.sub}
    BY <2>4 DEF Dispatch, vars, runVars, tables
  <2>5. QED
    BY <2>1, <2>2, <2>3, <2>4 DEF Next
<1>1. CASE UNCHANGED row
  BY <1>1, <1>r DEF HeldClaim
<1>2. CASE row' = [row EXCEPT !.exists = TRUE] /\ UNCHANGED <<running, started>>
  BY <1>2, <1>t DEF HeldClaim, RowRecord
<1>3. ASSUME NEW c \in Clients, claimWrite(c), row.claim = NoClaim PROVE HeldClaim'
  <2>1. running = {}
    BY <1>3, <1>t DEF HeldClaim
  <2>2. QED
    BY <1>3, <2>1, RowWrites DEF HeldClaim
<1>4. ASSUME NEW c \in Clients, attachWrite(c), row.claim = txn[c].seen PROVE HeldClaim'
  <2>1. row.claim # NoClaim
    BY <1>4, RowWrites
  <2>2. QED
    BY <1>4, <2>1, RowWrites DEF HeldClaim
<1>5. ASSUME NEW c \in Clients, finishWrite(c), row.claim = txn[c].seen PROVE HeldClaim'
  <2>1. running = {}
    BY <1>5, RowWrites DEF HeldClaim
  <2>2. QED
    BY <1>5, <2>1, RowWrites DEF HeldClaim
<1>6. QED
  BY <1>1, <1>2, <1>3, <1>4, <1>5, RowSteps

-----------------------------------------------------------------------------
(* The elicitation table *)

\* The statements that change the elicitation table, or what was acknowledged.
LEMMA AskSteps ==
    ASSUME Shape, [Next]_vars
    PROVE  \/ UNCHANGED <<request, asked, acked>>
           \/ request' = NoneAsked /\ UNCHANGED <<asked, acked>>
           \/ \E c \in Clients, s \in Submissions, r \in Requests : addPendingRequest(c, s, r)
           \/ \E c \in Clients, r \in Requests : removeRequest(c, r)
           \/ \E c \in Clients : answerWrite(c) \/ takeDelete(c)
<1>1. ASSUME NEW c \in Clients, SessionStep(c)
      PROVE  UNCHANGED <<asked, acked>> /\ (request' = NoneAsked \/ UNCHANGED request)
  BY <1>1 DEF SessionStep, getOrCreate, claimRead, claimWrite, claimReadBack, claimSweep,
     attachRead, attachWrite, finishRead, finishWrite, finishReadBack, finishSweep, tables
<1>2. ASSUME NEW c \in Clients, RequestStep(c)
      PROVE  \/ UNCHANGED <<request, asked, acked>>
             \/ \E s \in Submissions, r \in Requests : addPendingRequest(c, s, r)
             \/ \E r \in Requests : removeRequest(c, r)
             \/ answerWrite(c) \/ takeDelete(c)
  BY <1>2 DEF RequestStep, answerRead, takeRead, tables
<1>3. CASE Dispatch \/ UNCHANGED vars \/ \E c \in Clients : Rollback(c)
  BY <1>3 DEF Dispatch, Rollback, vars, tables
<1>4. \/ Dispatch \/ UNCHANGED vars \/ \E c \in Clients : Rollback(c)
      \/ \E c \in Clients : SessionStep(c) \/ RequestStep(c)
  BY DEF Next
<1>5. QED
  BY <1>1, <1>2, <1>3, <1>4

Answered == Questions /\ AnswersAreFirstWins

\* Removing a row, or all of them, leaves the others and what was acknowledged.
LEMMA RowsRemoved ==
    ASSUME Shape, AnswersAreFirstWins, UNCHANGED <<asked, acked>>,
           \A r \in Requests : request'[r] = request[r] \/ request'[r] = NoAsk
    PROVE  Answered'
<1> USE StoreConstants DEF Shape
<1>a. \A x \in acked : x.id \in 1 .. MaxAsks
  BY DEF TypeOK
<1>1. \A r \in Requests :
         /\ request'[r].state = "absent" => request'[r] = NoAsk
         /\ request'[r].state # "absent" => request'[r].id \in 1 .. asked'
         /\ request'[r].state = "pending" => request'[r].answer = NoPrompt
         /\ request'[r].state = "answered" => request'[r].answer \in Answers
  BY DEF Questions
<1>2. \A q, r \in Requests :
         request'[q].state # "absent" /\ request'[q].id = request'[r].id => q = r
  <2> SUFFICES ASSUME NEW q \in Requests, NEW r \in Requests, request'[q].state # "absent",
                      request'[q].id = request'[r].id
               PROVE  q = r
    OBVIOUS
  <2>1. request'[q] = request[q] /\ request[q].id # 0
    BY DEF Questions
  <2>2. request'[r] = request[r]
    BY <2>1
  <2>3. QED
    BY <2>1, <2>2 DEF Questions
<1>3. \A x, y \in acked' : x.id = y.id => x.answer = y.answer
  BY DEF AnswersAreFirstWins
<1>4. \A r \in Requests, x \in acked' : request'[r].id = x.id =>
         request'[r].state = "answered" /\ request'[r].answer = x.answer
  <2> SUFFICES ASSUME NEW r \in Requests, NEW x \in acked, request'[r].id = x.id
               PROVE  request'[r].state = "answered" /\ request'[r].answer = x.answer
    OBVIOUS
  <2>1. request'[r] = request[r]
    BY <1>a
  <2>2. QED
    BY <2>1 DEF AnswersAreFirstWins
<1>5. QED
  BY <1>1, <1>2, <1>3, <1>4 DEF Answered, Questions, AnswersAreFirstWins

LEMMA AskedAnew ==
    ASSUME Shape, AnswersAreFirstWins, NEW c \in Clients, NEW s \in Submissions,
           NEW r \in Requests, addPendingRequest(c, s, r)
    PROVE  Answered'
<1> USE StoreConstants DEF Shape
<1> DEFINE new == [state |-> "pending", answer |-> NoPrompt, id |-> asked + 1, owner |-> s]
<1>1. /\ asked' = asked + 1 /\ acked' = acked /\ asked \in Nat
      /\ request'[r] = new /\ \A q \in Requests : q # r => request'[q] = request[q]
  BY DEF addPendingRequest, TypeOK
<1>2. \A q \in Requests : request[q].id <= asked /\ request[q].id # asked + 1
  <2> SUFFICES ASSUME NEW q \in Requests PROVE request[q].id <= asked /\ request[q].id # asked + 1
    OBVIOUS
  <2>1. request[q].id \in 1 .. asked \/ request[q].id = 0
    BY DEF Questions
  <2>2. QED
    BY <1>1, <2>1
<1>3. \A q \in Requests :
         /\ request'[q].state = "absent" => request'[q] = NoAsk
         /\ request'[q].state # "absent" => request'[q].id \in 1 .. asked'
         /\ request'[q].state = "pending" => request'[q].answer = NoPrompt
         /\ request'[q].state = "answered" => request'[q].answer \in Answers
  BY <1>1 DEF Questions
<1>4. \A q, p \in Requests :
         request'[q].state # "absent" /\ request'[q].id = request'[p].id => q = p
  BY <1>1, <1>2 DEF Questions
<1>5. \A x \in acked' : x.id <= asked' /\ x.id # asked'
  <2> SUFFICES ASSUME NEW x \in acked PROVE x.id <= asked + 1 /\ x.id # asked + 1
    BY <1>1
  <2>1. x.id <= asked /\ x.id \in Nat
    BY DEF Questions, TypeOK
  <2>2. QED
    BY <1>1, <2>1
<1>6. \A q \in Requests, x \in acked' : request'[q].id = x.id =>
         request'[q].state = "answered" /\ request'[q].answer = x.answer
  BY <1>1, <1>5 DEF AnswersAreFirstWins
<1>7. QED
  BY <1>1, <1>3, <1>4, <1>5, <1>6 DEF Answered, Questions, AnswersAreFirstWins

LEMMA AnswerWritten ==
    ASSUME Shape, AnswersAreFirstWins, NEW c \in Clients, answerWrite(c)
    PROVE  /\ Answered'
           /\ \A r \in Requests : /\ request'[r].owner = request[r].owner
                                  /\ request'[r].state = "absent" <=> request[r].state = "absent"
<1> USE StoreConstants DEF Shape
<1> DEFINE t == txn[c]
           same == request[t.req].id = t.id
           taken == same /\ request[t.req].state = "pending"
           after == IF taken
                    THEN [request EXCEPT ![t.req].state = "answered", ![t.req].answer = t.answer]
                    ELSE request
           mine == [id |-> t.id, answer |-> t.answer]
<1>1. /\ t.req \in Requests /\ t.id \in 1 .. asked /\ t.answer \in Answers
      /\ request \in [Requests -> AskRecord] /\ asked' = asked /\ request' = after
      /\ acked' = IF /\ after[t.req].id = t.id
                     /\ after[t.req].state = "answered" /\ after[t.req].answer = t.answer
                  THEN acked \cup {mine} ELSE acked
  BY DEF answerWrite, At, OpenTxns, Fits, TypeOK
<1>2. \A r \in Requests :
         /\ request'[r].id = request[r].id /\ request'[r].owner = request[r].owner
         /\ IF taken /\ r = t.req
            THEN request'[r].state = "answered" /\ request'[r].answer = t.answer
            ELSE request'[r] = request[r]
  <2>1. request[t.req] \in AskRecord
    BY <1>1
  <2>2. CASE taken
    <3> HIDE DEF t, taken
    <3>1. \A r \in Requests :
             request'[r] = IF r = t.req
                           THEN [request[r] EXCEPT !.state = "answered", !.answer = t.answer]
                           ELSE request[r]
      BY <1>1, <2>2
    <3>2. /\ request'[t.req].id = request[t.req].id
          /\ request'[t.req].owner = request[t.req].owner
          /\ request'[t.req].state = "answered" /\ request'[t.req].answer = t.answer
      <4>1. request'[t.req] = [request[t.req] EXCEPT !.state = "answered", !.answer = t.answer]
        BY <1>1, <3>1
      <4>2. QED
        BY <2>1, <4>1 DEF AskRecord
    <3>3. QED
      BY <2>2, <3>1, <3>2
  <2>3. CASE ~taken
    BY <1>1, <2>3
  <2>4. QED
    BY <2>2, <2>3
<1>3. Questions'
  <2>1. \A x \in acked' : x.id <= asked'
    BY <1>1 DEF Questions
  <2> HIDE DEF t, taken
  <2>2. QED
    BY <1>1, <1>2, <2>1 DEF Questions, taken
<1>4. taken => \A x \in acked : x.id # t.id
  BY <1>1 DEF AnswersAreFirstWins
<1>5. \A r \in Requests, x \in acked : request'[r].id = x.id =>
         request'[r].state = "answered" /\ request'[r].answer = x.answer
  <2> SUFFICES ASSUME NEW r \in Requests, NEW x \in acked, request'[r].id = x.id
               PROVE  request'[r].state = "answered" /\ request'[r].answer = x.answer
    OBVIOUS
  <2> HIDE DEF t, taken, after
  <2>1. ~(taken /\ r = t.req)
    BY <1>2, <1>4 DEF taken
  <2>2. request'[r] = request[r]
    BY <1>2, <2>1
  <2>3. QED
    BY <2>2 DEF AnswersAreFirstWins
<1>6. ASSUME acked' = acked PROVE Answered'
  <2>1. \A x, y \in acked' : x.id = y.id => x.answer = y.answer
    BY <1>6 DEF AnswersAreFirstWins
  <2>2. \A r \in Requests, x \in acked' : request'[r].id = x.id =>
           request'[r].state = "answered" /\ request'[r].answer = x.answer
    BY <1>5, <1>6
  <2>3. QED
    BY <1>3, <2>1, <2>2 DEF Answered, AnswersAreFirstWins
<1>7. ASSUME acked' # acked PROVE Answered'
  <2>1. /\ acked' = acked \cup {mine} /\ request'[t.req].id = t.id
        /\ request'[t.req].state = "answered" /\ request'[t.req].answer = t.answer
    BY <1>1, <1>7
  <2>m. t.req \in Requests /\ mine.id = t.id /\ mine.answer = t.answer
    BY <1>1
  <2> HIDE DEF t, mine, after, taken, same
  <2>2. \A x \in acked : x.id = t.id => x.answer = t.answer
    BY <1>5, <2>1, <2>m
  <2>3. \A r \in Requests : request'[r].id = t.id => r = t.req
    <3>1. request'[t.req].state # "absent"
      BY <2>1
    <3>2. QED
      BY <1>1, <1>3, <2>1, <3>1 DEF Questions
  <2>4. \A r \in Requests, x \in acked' : request'[r].id = x.id =>
           request'[r].state = "answered" /\ request'[r].answer = x.answer
    BY <1>5, <2>1, <2>3, <2>m
  <2>5. \A x, y \in acked' : x.id = y.id => x.answer = y.answer
    <3>1. \A x \in acked' : x \in acked \/ x = mine
      BY <2>1
    <3>2. \A x, y \in acked : x.id = y.id => x.answer = y.answer
      BY DEF AnswersAreFirstWins
    <3>3. QED
      BY <2>2, <2>m, <3>1, <3>2
  <2>6. QED
    BY <1>3, <2>4, <2>5 DEF Answered, AnswersAreFirstWins
<1>8. \A r \in Requests : request'[r].state = "absent" <=> request[r].state = "absent"
  BY <1>2
<1>9. QED
  BY <1>2, <1>6, <1>7, <1>8

LEMMA AnsweredStep ==
    ASSUME Shape, AnswersAreFirstWins, [Next]_vars
    PROVE  Answered'
<1>1. CASE UNCHANGED <<request, asked, acked>>
  BY <1>1, RowsRemoved
<1>2. CASE request' = NoneAsked /\ UNCHANGED <<asked, acked>>
  BY <1>2, RowsRemoved DEF NoneAsked
<1>3. ASSUME NEW c \in Clients, NEW r \in Requests, removeRequest(c, r) PROVE Answered'
  <2>1. request' = [request EXCEPT ![r] = NoAsk] /\ UNCHANGED <<asked, acked>>
    BY <1>3 DEF removeRequest
  <2>2. \A q \in Requests : request'[q] = request[q] \/ request'[q] = NoAsk
    BY <2>1 DEF Shape, TypeOK
  <2>3. QED
    BY <2>1, <2>2, RowsRemoved
<1>4. ASSUME NEW c \in Clients, takeDelete(c) PROVE Answered'
  <2>1. request' \in {request, [request EXCEPT ![txn[c].req] = NoAsk]} /\ UNCHANGED <<asked, acked>>
    BY <1>4 DEF takeDelete
  <2>2. \A q \in Requests : request'[q] = request[q] \/ request'[q] = NoAsk
    BY <2>1 DEF Shape, TypeOK
  <2>3. QED
    BY <2>1, <2>2, RowsRemoved
<1>5. QED
  BY <1>1, <1>2, <1>3, <1>4, AskSteps, AskedAnew, AnswerWritten

LEMMA HolderStep ==
    ASSUME Shape, AnswersAreFirstWins, QuestionsBelongToTheHolder, [Next]_vars
    PROVE  QuestionsBelongToTheHolder'
<1> USE StoreConstants DEF Shape
<1>1. CASE row'.claim.sub # row.claim.sub
  <2>1. request' = NoneAsked
    <3>1. row' # row
      BY <1>1
    <3>2. row' # [row EXCEPT !.exists = TRUE]
      <4>1. [row EXCEPT !.exists = TRUE].claim = row.claim
        BY DEF TypeOK, RowRecord
      <4>2. QED
        BY <1>1, <4>1
    <3>3. ~ \E c \in Clients : attachWrite(c) /\ row.claim = txn[c].seen
      BY <1>1, RowWrites
    <3>4. QED
      BY <3>1, <3>2, <3>3, RowSteps, RowWrites
  <2>2. QED
    BY <2>1 DEF QuestionsBelongToTheHolder, NoneAsked
<1>2. CASE row'.claim.sub = row.claim.sub
  <2>1. CASE UNCHANGED <<request, asked, acked>>
    BY <1>2, <2>1 DEF QuestionsBelongToTheHolder
  <2>2. CASE request' = NoneAsked /\ UNCHANGED <<asked, acked>>
    BY <1>2, <2>2 DEF QuestionsBelongToTheHolder, NoneAsked
  <2>3. ASSUME NEW c \in Clients, NEW s \in Submissions, NEW r \in Requests,
               addPendingRequest(c, s, r)
        PROVE  QuestionsBelongToTheHolder'
    <3>1. request'[r].owner = s /\ row.claim.sub = s
      BY <2>3 DEF addPendingRequest, HeldClaim, TypeOK
    <3>2. \A q \in Requests : q # r => request'[q] = request[q]
      BY <2>3 DEF addPendingRequest, TypeOK
    <3>3. QED
      BY <1>2, <3>1, <3>2 DEF QuestionsBelongToTheHolder
  <2>4. ASSUME NEW c \in Clients, NEW r \in Requests, removeRequest(c, r)
        PROVE  QuestionsBelongToTheHolder'
    BY <1>2, <2>4 DEF removeRequest, TypeOK, QuestionsBelongToTheHolder
  <2>5. ASSUME NEW c \in Clients, takeDelete(c) PROVE QuestionsBelongToTheHolder'
    BY <1>2, <2>5 DEF takeDelete, TypeOK, QuestionsBelongToTheHolder
  <2>6. ASSUME NEW c \in Clients, answerWrite(c) PROVE QuestionsBelongToTheHolder'
    BY <1>2, <2>6, AnswerWritten DEF QuestionsBelongToTheHolder
  <2>7. QED
    BY <2>1, <2>2, <2>3, <2>4, <2>5, <2>6, AskSteps
<1>3. QED
  BY <1>1, <1>2

LEMMA OwnStep == ASSUME Shape, ExecutionIsOwn, [Next]_vars PROVE ExecutionIsOwn'
<1> USE StoreConstants DEF ExecutionIsOwn
<1>1. CASE row' = [row EXCEPT !.exists = TRUE]
  <2>1. [row EXCEPT !.exists = TRUE].claim = row.claim
    BY DEF Shape, TypeOK, RowRecord
  <2>2. QED
    BY <1>1, <2>1
<1>2. QED
  BY <1>1, RowSteps, RowWrites

\* A held claim is replaced by one step only.
LEMMA EndStep ==
    ASSUME Shape, [Next]_vars, row.claim # NoClaim, row'.claim.sub # row.claim.sub
    PROVE  \E c \in Clients : finishWrite(c) /\ txn[c].sub = row.claim.sub
<1>1. row' # row
  OBVIOUS
<1>2. row' # [row EXCEPT !.exists = TRUE]
  <2>1. [row EXCEPT !.exists = TRUE].claim = row.claim
    BY DEF Shape, TypeOK, RowRecord
  <2>2. QED
    BY <2>1
<1>3. QED
  BY <1>1, <1>2, RowSteps, RowWrites

-----------------------------------------------------------------------------
(* Canonical history *)

\* What a finisher is about to write is no newer than the last submission; if the
\* claim it read may still be there, it is no older than the history there.
InOrder(t) ==
    t.step = "finishWrite" =>
       /\ t.sub <= row.count /\ t.history <= row.count
       /\ t.sub = row.claim.sub => row.history <= t.history

History == ~turnedBack => row.history <= row.count /\ \A c \in Clients : InOrder(txn[c])

\* A finisher's transaction is opened by its read, while its claim is there.
LEMMA FinishOpened ==
    ASSUME Shape, [Next]_vars, NEW d \in Clients, txn'[d].step = "finishWrite",
           txn'[d] # txn[d]
    PROVE  \E s \in Submissions, h \in 0 .. MaxSubmissions :
              /\ s = row.claim.sub /\ (h = s \/ h = row.history)
              /\ txn'[d].sub = s /\ txn'[d].history = h /\ UNCHANGED row
<1> USE StoreConstants DEF Shape
<1>t. TypeOK
  OBVIOUS
<1>1. ASSUME NEW c \in Clients, NEW step, step # "finishWrite", GoOn(c, step) PROVE FALSE
  BY <1>1, <1>t, TxnForms
<1>2. ASSUME NEW c \in Clients, Return(c) PROVE FALSE
  BY <1>2, <1>t, TxnForms
<1>3. ASSUME NEW c \in Clients, NEW t, t.step # "finishWrite", Open(c, t) PROVE FALSE
  BY <1>3, <1>t, TxnForms
<1>4. ASSUME NEW c \in Clients, RequestStep(c) \/ Rollback(c) PROVE FALSE
  <2>1. UNCHANGED txn \/ Return(c) \/ \E t : t.step # "finishWrite" /\ Open(c, t)
    BY <1>4 DEF RequestStep, Rollback, addPendingRequest, answerRead, answerWrite, takeRead,
       takeDelete, removeRequest, NoTxn
  <2>2. QED
    BY <1>2, <1>3, <2>1
<1>5. ASSUME NEW c \in Clients, SessionStep(c)
      PROVE  \E s \in Submissions, h \in 0 .. MaxSubmissions :
                finishRead(c, s, h) /\ txn' # txn
  <2>1. ASSUME NEW p \in Prompts, claimRead(c, p) PROVE FALSE
    <3>1. UNCHANGED txn \/ \E t : t.step # "finishWrite" /\ Open(c, t)
      BY <2>1 DEF claimRead, NoTxn
    <3>2. QED
      BY <1>3, <3>1
  <2>2. ASSUME NEW s \in Submissions, attachRead(c, s) PROVE FALSE
    <3>1. \E t : t.step # "finishWrite" /\ Open(c, t)
      BY <2>2 DEF attachRead, NoTxn
    <3>2. QED
      BY <1>3, <3>1
  <2>3. ASSUME getOrCreate(c) \/ claimWrite(c) \/ claimReadBack(c) \/ claimSweep(c)
               \/ attachWrite(c) \/ finishWrite(c) \/ finishReadBack(c) \/ finishSweep(c)
        PROVE  FALSE
    <3>1. UNCHANGED txn \/ Return(c) \/ \E step : step # "finishWrite" /\ GoOn(c, step)
      BY <2>3 DEF getOrCreate, claimWrite, claimReadBack, claimSweep, attachWrite, finishWrite,
         finishReadBack, finishSweep
    <3>2. QED
      BY <1>1, <1>2, <3>1
  <2>4. QED
    BY <1>5, <2>1, <2>2, <2>3 DEF SessionStep
<1>6. ASSUME NEW c \in Clients, NEW s \in Submissions, NEW h \in 0 .. MaxSubmissions,
             finishRead(c, s, h), txn' # txn
      PROVE  \E q \in Submissions, k \in 0 .. MaxSubmissions :
                /\ q = row.claim.sub /\ (k = q \/ k = row.history)
                /\ txn'[d].sub = q /\ txn'[d].history = k /\ UNCHANGED row
  <2> DEFINE t == [NoTxn EXCEPT !.step = "finishWrite", !.sub = s, !.seen = row.claim,
                                !.history = h]
  <2>1. row.claim.sub = s /\ Open(c, t) /\ UNCHANGED row /\ (h = s \/ h = row.history)
    BY <1>6 DEF finishRead, tables
  <2>2. txn'[c] = t /\ \A e \in Clients : e # c => txn'[e] = txn[e]
    BY <2>1, <1>t, TxnForms
  <2>3. t.sub = s /\ t.history = h
    BY DEF NoTxn
  <2>4. QED
    BY <2>1, <2>2, <2>3
<1>7. CASE Dispatch \/ UNCHANGED vars
  BY <1>7 DEF Dispatch, vars
<1>8. QED
  BY <1>4, <1>5, <1>6, <1>7 DEF Next

LEMMA HistoryStep == ASSUME Shape, History, [Next]_vars PROVE History'
<1> USE StoreConstants
<1>t. /\ row \in RowRecord /\ txn \in [Clients -> TxnRecord] /\ HeldClaim /\ OpenTxns
  BY DEF Shape, TypeOK
<1>s. SUFFICES ASSUME ~turnedBack' PROVE /\ row'.history <= row'.count
                                         /\ \A d \in Clients : InOrder(txn[d])'
  BY DEF History
<1>b. ~turnedBack
  <2>1. ASSUME NEW c \in Clients, SessionStep(c) PROVE ~turnedBack
    BY <1>s, <2>1 DEF SessionStep, getOrCreate, claimRead, claimWrite, claimReadBack, claimSweep,
       attachRead, attachWrite, finishRead, finishWrite, finishReadBack, finishSweep
  <2>2. ASSUME NEW c \in Clients, RequestStep(c) PROVE ~turnedBack
    BY <1>s, <2>2 DEF RequestStep, addPendingRequest, answerRead, answerWrite, takeRead, takeDelete,
       removeRequest
  <2>3. ASSUME NEW c \in Clients, Rollback(c) PROVE ~turnedBack
    BY <1>s, <2>3 DEF Rollback
  <2>4. ASSUME Dispatch \/ UNCHANGED vars PROVE ~turnedBack
    BY <1>s, <2>4 DEF Dispatch, vars
  <2>5. QED
    BY <1>s, <2>1, <2>2, <2>3, <2>4 DEF Next
<1>h. row.history <= row.count /\ \A c \in Clients : InOrder(txn[c])
  BY <1>b DEF History
<1>n. row.history \in Nat /\ row.count \in Nat /\ row.claim.sub \in Nat
  BY <1>t DEF RowRecord, ClaimRecord
<1>c. ASSUME NEW c \in Clients, claimWrite(c), row.claim = NoClaim PROVE row'.count > row.count
  <2>1. ~(txn[c].seen.sub <= row.count)
    BY <1>s, <1>c DEF claimWrite
  <2>2. QED
    BY <1>c, <1>n, <2>1, RowWrites
<1>f. ASSUME NEW c \in Clients, finishWrite(c), row.claim = txn[c].seen
      PROVE  txn[c].history \in Nat /\ row.history <= txn[c].history /\ txn[c].history <= row.count
  <2>1. InOrder(txn[c]) /\ txn[c].step = "finishWrite" /\ txn[c].sub = row.claim.sub
    BY <1>f, <1>h, RowWrites DEF finishWrite, At
  <2>2. txn[c].history \in Nat
    BY <1>t DEF TxnRecord
  <2>3. QED
    BY <2>1, <2>2 DEF InOrder
\* The row moves on: its number never falls, and a held claim keeps the history.
<1>r. /\ row'.history <= row'.count /\ row.count <= row'.count /\ row'.history \in Nat
      /\ row'.count \in Nat
      /\ \/ row'.claim.sub = row.claim.sub /\ row'.history = row.history
         \/ row'.claim.sub = 0
         \/ row'.claim.sub > row.count
  <2>1. CASE row' = row \/ row' = [row EXCEPT !.exists = TRUE]
    <3>1. row'.claim = row.claim /\ row'.history = row.history /\ row'.count = row.count
      BY <2>1, <1>t DEF RowRecord
    <3>2. QED
      BY <3>1, <1>h, <1>n
  <2>2. ASSUME NEW c \in Clients, claimWrite(c), row.claim = NoClaim
        PROVE  /\ row'.history = row.history /\ row'.count > row.count /\ row'.count \in Nat
               /\ row'.claim.sub = row'.count
    BY <2>2, <1>c, RowWrites
  <2>3. ASSUME NEW c \in Clients, attachWrite(c), row.claim = txn[c].seen
        PROVE  /\ row'.history = row.history /\ row'.count = row.count
               /\ row'.claim.sub = row.claim.sub
    BY <2>3, RowWrites
  <2>4. ASSUME NEW c \in Clients, finishWrite(c), row.claim = txn[c].seen
        PROVE  /\ row'.history \in Nat /\ row'.count = row.count /\ row'.history <= row.count
               /\ row'.claim.sub = 0
    BY <2>4, <1>f, RowWrites
  <2>5. QED
    BY <2>1, <2>2, <2>3, <2>4, <1>h, <1>n, RowSteps
<1>1. ASSUME NEW d \in Clients, txn'[d] = txn[d] PROVE InOrder(txn[d])'
  <2>1. CASE txn[d].step = "finishWrite"
    <3>1. /\ txn[d].sub <= row.count /\ txn[d].history <= row.count
          /\ txn[d].sub = row.claim.sub => row.history <= txn[d].history
      BY <2>1, <1>h DEF InOrder
    <3>2. txn[d].sub \in Nat /\ txn[d].history \in Nat /\ txn[d].sub # 0
      BY <2>1, <1>t DEF OpenTxns, Fits, TxnRecord, Shape, TypeOK
    <3>3. /\ txn[d].sub <= row'.count /\ txn[d].history <= row'.count
          /\ txn[d].sub = row'.claim.sub => row'.history <= txn[d].history
      BY <3>1, <3>2, <1>r, <1>n
    <3>4. QED
      BY <1>1, <3>3 DEF InOrder
  <2>2. CASE txn[d].step # "finishWrite"
    BY <1>1, <2>2 DEF InOrder
  <2>3. QED
    BY <2>1, <2>2
<1>2. ASSUME NEW d \in Clients, txn'[d] # txn[d] PROVE InOrder(txn[d])'
  <2>1. CASE txn'[d].step = "finishWrite"
    <3>1. PICK s \in Submissions, h \in 0 .. MaxSubmissions :
             /\ s = row.claim.sub /\ (h = s \/ h = row.history)
             /\ txn'[d].sub = s /\ txn'[d].history = h /\ UNCHANGED row
      BY <1>2, <2>1, FinishOpened
    <3>2. s = row.count
      BY <1>t, <3>1 DEF HeldClaim
    <3>3. QED
      BY <1>h, <1>n, <3>1, <3>2 DEF InOrder
  <2>2. CASE txn'[d].step # "finishWrite"
    BY <2>2 DEF InOrder
  <2>3. QED
    BY <2>1, <2>2
<1>3. QED
  BY <1>r, <1>1, <1>2

LEMMA NeverRegresses ==
    ASSUME Shape, History, [Next]_vars, ~turnedBack
    PROVE  row'.history >= row.history
<1>t. row \in RowRecord /\ row.history \in Nat
  BY StoreConstants DEF Shape, TypeOK, RowRecord
<1>1. CASE row' = row \/ row' = [row EXCEPT !.exists = TRUE]
  <2>1. row'.history = row.history
    BY <1>1, <1>t DEF RowRecord
  <2>2. QED
    BY <2>1, <1>t
<1>2. ASSUME NEW c \in Clients, finishWrite(c), row.claim = txn[c].seen
      PROVE  row'.history >= row.history
  <2>1. InOrder(txn[c]) /\ txn[c].step = "finishWrite" /\ txn[c].sub = row.claim.sub
    BY <1>2, RowWrites DEF finishWrite, At, History
  <2>2. row'.history = txn[c].history /\ txn[c].history \in Nat
    <3>1. txn[c] \in TxnRecord
      BY DEF Shape, TypeOK
    <3>2. txn[c].history \in Nat
      BY <3>1, StoreConstants DEF TxnRecord
    <3>3. QED
      BY <1>2, <3>2, RowWrites
  <2>3. QED
    BY <1>t, <2>1, <2>2 DEF InOrder
<1>3. QED
  BY <1>t, <1>1, <1>2, RowSteps, RowWrites

-----------------------------------------------------------------------------
(* A serial database: what a transaction read is still there when it writes *)

StillThere(t) ==
    /\ t.step \notin {"claimReadBack", "claimSweep", "finishReadBack", "finishSweep"}
    /\ t.step = "claimWrite" =>
          /\ row.exists /\ row.claim = NoClaim
          /\ \E p \in Prompts : t.seen = Store!openClaim(row.count + 1, p)
    /\ t.step \in {"attachWrite", "finishWrite"} => row.claim = t.seen
    /\ t.step \in {"answerWrite", "takeDelete"} => request[t.req].id = t.id
    /\ t.step = "answerWrite" => request[t.req].state = "pending"
    /\ t.step = "takeDelete" => request[t.req].state = "answered"

\* At most one transaction is open, and nothing it read has changed.
Serial ==
    isolation = "serial" =>
       /\ \A c, d \in Clients : txn[c] # NoTxn /\ txn[d] # NoTxn => c = d
       /\ \A c \in Clients : StillThere(txn[c])

LEMMA NobodyThere == StillThere(NoTxn) /\ StillThere(NoTxn)'
BY StoreConstants DEF StillThere

\* On a serial database a client that takes a step is the only one with a transaction.
LEMMA Alone ==
    ASSUME Shape, Serial, isolation = "serial", NEW c \in Clients,
           SessionStep(c) \/ RequestStep(c) \/ Rollback(c)
    PROVE  \A d \in Clients : d # c => txn[d] = NoTxn
<1>1. Begins(c) \/ txn[c] # NoTxn
  <2>1. CASE SessionStep(c)
    BY <2>1, StoreConstants DEF SessionStep, getOrCreate, claimRead, claimWrite, claimReadBack,
       claimSweep, attachRead, attachWrite, finishRead, finishWrite, finishReadBack, finishSweep, At
  <2>2. CASE RequestStep(c) \/ Rollback(c)
    BY <2>2, StoreConstants DEF RequestStep, Rollback, addPendingRequest, answerRead, answerWrite,
       takeRead, takeDelete, removeRequest, At
  <2>3. QED
    BY <2>1, <2>2
<1>2. QED
  BY <1>1 DEF Begins, Serial

\* It is enough to look at the transaction of the client that took the step.
LEMMA SerialFrame ==
    ASSUME NEW c \in Clients, UNCHANGED isolation, StillThere(txn[c])',
           \A d \in Clients : d # c => txn'[d] = NoTxn
    PROVE  Serial'
<1>1. \A d \in Clients : StillThere(txn[d])'
  <2> SUFFICES ASSUME NEW d \in Clients, d # c PROVE StillThere(txn[d])'
    OBVIOUS
  <2>1. txn'[d] = NoTxn
    OBVIOUS
  <2>2. QED
    BY <2>1, NobodyThere DEF StillThere
<1>2. QED
  BY <1>1 DEF Serial

LEMMA SerialStep == ASSUME Shape, Serial, [Next]_vars PROVE Serial'
<1> USE StoreConstants DEF Shape
<1>i. UNCHANGED isolation
  <2>1. ASSUME NEW c \in Clients, SessionStep(c) PROVE UNCHANGED isolation
    BY <2>1 DEF SessionStep, getOrCreate, claimRead, claimWrite, claimReadBack, claimSweep,
       attachRead, attachWrite, finishRead, finishWrite, finishReadBack, finishSweep
  <2>2. ASSUME NEW c \in Clients, RequestStep(c) PROVE UNCHANGED isolation
    BY <2>2 DEF RequestStep, addPendingRequest, answerRead, answerWrite, takeRead, takeDelete,
       removeRequest
  <2>3. ASSUME NEW c \in Clients, Rollback(c) PROVE UNCHANGED isolation
    BY <2>3 DEF Rollback
  <2>4. ASSUME Dispatch \/ UNCHANGED vars PROVE UNCHANGED isolation
    BY <2>4 DEF Dispatch, vars
  <2>5. QED
    BY <2>1, <2>2, <2>3, <2>4 DEF Next
<1>s. SUFFICES ASSUME isolation = "serial" PROVE Serial'
  BY <1>i DEF Serial
<1>t. /\ TypeOK /\ txn \in [Clients -> TxnRecord]
      /\ \A c, d \in Clients : txn[c] # NoTxn /\ txn[d] # NoTxn => c = d
      /\ \A c \in Clients : StillThere(txn[c])
  BY <1>s DEF TypeOK, Serial
<1>1. CASE UNCHANGED <<row, request, txn>>
  BY <1>1, <1>i, <1>s, <1>t DEF Serial, StillThere
<1>2. ASSUME NEW c \in Clients, SessionStep(c) \/ RequestStep(c) \/ Rollback(c)
      PROVE  Serial'
  <2>1. \A d \in Clients : d # c => txn[d] = NoTxn
    BY <1>2, <1>s, Alone
  <2>2. SUFFICES ASSUME txn' # txn \/ row' # row \/ request' # request
                 PROVE  StillThere(txn[c])' /\ \A d \in Clients : d # c => txn'[d] = txn[d]
    <3>1. CASE UNCHANGED <<row, request, txn>>
      BY <1>1, <3>1
    <3>2. CASE ~UNCHANGED <<row, request, txn>>
      BY <1>i, <2>1, <2>2, <3>2, SerialFrame
    <3>3. QED
      BY <3>1, <3>2
  <2>r. ASSUME Return(c) PROVE StillThere(txn[c])' /\ \A d \in Clients : d # c => txn'[d] = txn[d]
    <3>1. txn'[c] = NoTxn /\ \A d \in Clients : d # c => txn'[d] = txn[d]
      BY <2>r, <1>t, TxnForms
    <3>2. QED
      BY <3>1, NobodyThere DEF StillThere
  <2>b. ASSUME txn[c] = NoTxn, UNCHANGED txn
        PROVE  StillThere(txn[c])' /\ \A d \in Clients : d # c => txn'[d] = txn[d]
    <3>1. txn'[c] = NoTxn
      BY <2>b
    <3>2. QED
      BY <2>b, <3>1, NobodyThere DEF StillThere
  <2>3. ASSUME NEW r \in Requests,
               removeRequest(c, r) \/ \E s \in Submissions : addPendingRequest(c, s, r)
        PROVE  StillThere(txn[c])' /\ \A d \in Clients : d # c => txn'[d] = txn[d]
    BY <2>3, <2>b DEF addPendingRequest, removeRequest, Begins
  <2>4. CASE claimWrite(c) \/ claimReadBack(c) \/ claimSweep(c) \/ attachWrite(c)
             \/ finishWrite(c) \/ finishReadBack(c) \/ finishSweep(c)
             \/ answerWrite(c) \/ takeDelete(c) \/ Rollback(c)
    <3>1. StillThere(txn[c])
      BY <1>t
    <3>2. Return(c)
      BY <2>4, <3>1 DEF StillThere, At, claimWrite, claimReadBack, claimSweep, attachWrite,
         finishWrite, finishReadBack, finishSweep, answerWrite, takeDelete, Rollback
    <3>3. QED
      BY <3>2, <2>r
  <2>5. ASSUME NEW p \in Prompts, claimRead(c, p)
        PROVE  StillThere(txn[c])' /\ \A d \in Clients : d # c => txn'[d] = txn[d]
    <3> DEFINE d == Store!decide(row, p)
               t == [NoTxn EXCEPT !.step = "claimWrite", !.seen = Store!openClaim(d.ordinal, p)]
    <3>0. txn[c] = NoTxn /\ UNCHANGED <<row, request>>
      BY <2>5 DEF claimRead, Begins, tables
    <3>1. CASE Open(c, t) /\ d.tag = "Open"
      <4>1. row.exists /\ row.claim = NoClaim /\ d.ordinal = row.count + 1
        BY <3>1, DecisionFacts
      <4>2. txn'[c] = t /\ \A e \in Clients : e # c => txn'[e] = txn[e]
        BY <3>1, <1>t, TxnForms
      <4>3. t.step = "claimWrite" /\ t.seen = Store!openClaim(d.ordinal, p)
        BY DEF NoTxn
      <4>4. StillThere(txn[c])'
        BY <3>0, <4>1, <4>2, <4>3 DEF StillThere
      <4>5. QED
        BY <4>2, <4>4
    <3>2. CASE UNCHANGED txn
      BY <3>0, <3>2, <2>b
    <3>3. QED
      BY <2>5, <3>1, <3>2 DEF claimRead
  <2>6. ASSUME NEW s \in Submissions, attachRead(c, s)
        PROVE  StillThere(txn[c])' /\ \A d \in Clients : d # c => txn'[d] = txn[d]
    <3> DEFINE t == [NoTxn EXCEPT !.step = "attachWrite", !.sub = s, !.seen = row.claim]
    <3>1. txn'[c] = t /\ \A e \in Clients : e # c => txn'[e] = txn[e]
      BY <2>6, <1>t, TxnForms DEF attachRead
    <3>2. t.step = "attachWrite" /\ t.seen = row.claim /\ UNCHANGED <<row, request>>
      BY <2>6 DEF NoTxn, attachRead, tables
    <3>3. QED
      BY <3>1, <3>2 DEF StillThere
  <2>7. ASSUME NEW s \in Submissions, NEW h \in 0 .. MaxSubmissions, finishRead(c, s, h)
        PROVE  StillThere(txn[c])' /\ \A d \in Clients : d # c => txn'[d] = txn[d]
    <3> DEFINE t == [NoTxn EXCEPT !.step = "finishWrite", !.sub = s, !.seen = row.claim,
                                  !.history = h]
    <3>1. CASE Open(c, t)
      <4>1. txn'[c] = t /\ \A e \in Clients : e # c => txn'[e] = txn[e]
        BY <3>1, <1>t, TxnForms
      <4>2. t.step = "finishWrite" /\ t.seen = row.claim /\ UNCHANGED <<row, request>>
        BY <2>7 DEF NoTxn, finishRead, tables
      <4>3. QED
        BY <4>1, <4>2 DEF StillThere
    <3>2. CASE UNCHANGED txn
      BY <2>7, <3>2, <2>b DEF finishRead, Begins
    <3>3. QED
      BY <2>7, <3>1, <3>2 DEF finishRead
  <2>8. ASSUME NEW r \in Requests, NEW a \in Answers, answerRead(c, r, a)
        PROVE  StillThere(txn[c])' /\ \A d \in Clients : d # c => txn'[d] = txn[d]
    <3> DEFINE t == [NoTxn EXCEPT !.step = "answerWrite", !.req = r, !.id = request[r].id,
                                  !.answer = a]
    <3>1. txn'[c] = t /\ \A e \in Clients : e # c => txn'[e] = txn[e]
      BY <2>8, <1>t, TxnForms DEF answerRead
    <3>2. /\ t.step = "answerWrite" /\ t.req = r /\ t.id = request[r].id
          /\ request[r].state = "pending" /\ UNCHANGED <<row, request>>
      BY <2>8 DEF NoTxn, answerRead, tables
    <3>3. QED
      BY <3>1, <3>2 DEF StillThere
  <2>9. ASSUME NEW r \in Requests, takeRead(c, r)
        PROVE  StillThere(txn[c])' /\ \A d \in Clients : d # c => txn'[d] = txn[d]
    <3> DEFINE t == [NoTxn EXCEPT !.step = "takeDelete", !.req = r, !.id = request[r].id]
    <3>1. txn'[c] = t /\ \A e \in Clients : e # c => txn'[e] = txn[e]
      BY <2>9, <1>t, TxnForms DEF takeRead
    <3>2. /\ t.step = "takeDelete" /\ t.req = r /\ t.id = request[r].id
          /\ request[r].state = "answered" /\ UNCHANGED <<row, request>>
      BY <2>9 DEF NoTxn, takeRead, tables
    <3>3. QED
      BY <3>1, <3>2 DEF StillThere
  <2>10. CASE SessionStep(c)
    <3>1. CASE getOrCreate(c)
      BY <3>1, <2>b DEF getOrCreate, Begins
    <3>2. CASE claimWrite(c) \/ claimReadBack(c) \/ claimSweep(c) \/ attachWrite(c)
               \/ finishWrite(c) \/ finishReadBack(c) \/ finishSweep(c)
      BY <3>2, <2>4
    <3>3. QED
      BY ONLY <2>10, <3>1, <3>2, <2>5, <2>6, <2>7 DEF SessionStep
  <2>11. CASE RequestStep(c)
    <3>1. CASE answerWrite(c) \/ takeDelete(c)
      BY <3>1, <2>4
    <3>2. QED
      BY ONLY <2>11, <3>1, <2>3, <2>8, <2>9 DEF RequestStep
  <2>12. QED
    BY <1>2, <2>4, <2>10, <2>11
<1>3. CASE Dispatch \/ UNCHANGED vars
  BY <1>1, <1>3 DEF Dispatch, vars, tables
<1>4. QED
  BY <1>2, <1>3 DEF Next

-----------------------------------------------------------------------------
(* The refinement, on a serial database, operation by operation *)

\* The in-memory store's finish is a step of it, whatever it writes.
LEMMA FinishIsStep ==
    \A s \in Submissions, h \in 0 .. MaxSubmissions : Store!finish(s, h) => Store!StoreNext
BY Zenon DEF Store!StoreNext, Submissions

LEMMA ClaimRefines ==
    ASSUME Shape, Serial, isolation = "serial", NEW c \in Clients, claimWrite(c)
    PROVE  Store!StoreNext
<1> USE StoreConstants DEF Shape
<1>1. StillThere(txn[c]) /\ txn[c].step = "claimWrite" /\ txn[c].seen.sub \in Submissions
  BY DEF Serial, claimWrite, At, OpenTxns, Fits, Claiming
<1>2. /\ row.exists /\ row.claim = NoClaim
      /\ \E p \in Prompts : txn[c].seen = Store!openClaim(row.count + 1, p)
  BY <1>1 DEF StillThere
<1>3. PICK p \in Prompts : txn[c].seen = Store!openClaim(row.count + 1, p)
  BY <1>2
<1>4. Store!decide(row, p) = [tag |-> "Open", ordinal |-> row.count + 1]
  BY <1>2, DecisionFacts
<1>5. txn[c].seen.sub = row.count + 1
  BY <1>3 DEF Store!openClaim
<1>6. /\ row' = [row EXCEPT !.count = row.count + 1, !.claim = Store!openClaim(row.count + 1, p)]
      /\ request' = NoneAsked
  BY <1>2, <1>3, <1>5 DEF claimWrite
<1>7. [r \in Requests |-> [state |-> request[r].state, answer |-> request[r].answer]]'
        = Store!NothingAsked
  BY <1>6 DEF NoneAsked, NoAsk, Store!NothingAsked, Store!Absent
<1>8. Store!claim(p)
  BY <1>1, <1>4, <1>5, <1>6, <1>7 DEF Store!claim, Submissions
<1>9. QED
  BY <1>8 DEF Store!StoreNext

LEMMA RowRefines ==
    ASSUME Shape, Serial, isolation = "serial", NEW c \in Clients,
           getOrCreate(c) \/ attachWrite(c) \/ finishWrite(c)
    PROVE  Store!StoreNext
<1> USE StoreConstants DEF Shape
<1>t. /\ StillThere(txn[c]) /\ Fits(txn[c]) /\ started \subseteq Submissions
      /\ txn[c] \in TxnRecord /\ row \in RowRecord
  BY DEF Serial, OpenTxns, TypeOK
<1>1. CASE getOrCreate(c)
  <2>1. Store!getOrCreate
    BY <1>1 DEF getOrCreate, Store!getOrCreate
  <2>2. QED
    BY <2>1 DEF Store!StoreNext
<1>2. CASE attachWrite(c)
  <2> DEFINE s == row.claim.sub
  <2>1. row.claim = txn[c].seen
    BY <1>2, <1>t DEF attachWrite, At, StillThere
  <2>2. s \in Submissions /\ row.claim # NoClaim /\ txn[c].sub = s
    BY <1>2, <2>1, RowWrites
  <2>3. row' = [row EXCEPT !.claim = [row.claim EXCEPT !.exec = s]] /\ UNCHANGED request
    BY <1>2, <2>1, <2>2 DEF attachWrite
  <2>4. Store!attachExecution(s, s)
    BY <2>2, <2>3 DEF Store!attachExecution, Store!Held, NoClaim
  <2>5. QED
    BY <2>2, <2>4 DEF Store!StoreNext, Submissions
<1>3. CASE finishWrite(c)
  <2>1. row.claim = txn[c].seen
    BY <1>3, <1>t DEF finishWrite, At, StillThere
  <2>s. PICK s \in Submissions : s = row.claim.sub
    BY <1>3, <1>t, <2>1, RowWrites
  <2>h. PICK h \in 0 .. MaxSubmissions : h = txn[c].history
    BY <1>t DEF TxnRecord
  <2>2. row.claim # NoClaim
    BY <2>s
  <2>3. row' = [row EXCEPT !.claim = NoClaim, !.history = h] /\ request' = NoneAsked
    BY <1>3, <2>1, <2>h DEF finishWrite
  <2>4. [r \in Requests |-> [state |-> request[r].state, answer |-> request[r].answer]]'
          = Store!NothingAsked
    BY <2>3 DEF NoneAsked, NoAsk, Store!NothingAsked, Store!Absent
  <2>5. Store!finish(s, h)
    BY <2>s, <2>2, <2>3, <2>4 DEF Store!finish, Store!Held, NoClaim
  <2>6. QED
    BY <2>5, FinishIsStep
<1>4. QED
  BY <1>1, <1>2, <1>3

\* The table as the in-memory store sees it.
Seen(table) == [r \in Requests |-> [state |-> table[r].state, answer |-> table[r].answer]]

LEMMA AskRefines ==
    ASSUME Shape, NEW c \in Clients, NEW s \in Submissions, NEW r \in Requests,
           addPendingRequest(c, s, r)
    PROVE  Store!StoreNext
<1> USE StoreConstants DEF Shape
<1>1. /\ request \in [Requests -> AskRecord] /\ request[r] = NoAsk /\ UNCHANGED row
      /\ request' = [request EXCEPT ![r] = [state |-> "pending", answer |-> NoPrompt,
                                            id |-> asked + 1, owner |-> s]]
  BY DEF addPendingRequest, TypeOK, Questions
<1>2. Seen(request') = [Seen(request) EXCEPT ![r] = Store!Pending]
  BY <1>1 DEF Seen, Store!Pending
<1>3. Seen(request)[r] = Store!Absent
  BY <1>1 DEF Seen, NoAsk, Store!Absent
<1>4. Store!addPendingRequest(r)
  BY <1>1, <1>2, <1>3 DEF Store!addPendingRequest, Seen
<1>5. QED
  BY <1>4 DEF Store!StoreNext

LEMMA AnswerRefines ==
    ASSUME Shape, Serial, isolation = "serial", NEW c \in Clients, answerWrite(c)
    PROVE  Store!StoreNext
<1> USE StoreConstants DEF Shape
<1>r. PICK r \in Requests : r = txn[c].req
  BY DEF answerWrite, At, OpenTxns, Fits
<1>a. PICK a \in Answers : a = txn[c].answer
  BY DEF answerWrite, At, OpenTxns, Fits
<1>1. /\ request \in [Requests -> AskRecord]
      /\ request[r].id = txn[c].id /\ request[r].state = "pending"
      /\ request[r].answer = NoPrompt
  BY <1>r DEF Serial, StillThere, answerWrite, At, TypeOK, Questions
<1>2. /\ UNCHANGED row
      /\ request' = [request EXCEPT ![r].state = "answered", ![r].answer = a]
  BY <1>r, <1>a, <1>1 DEF answerWrite
<1>3. \A q \in Requests : IF q = r THEN request'[q].state = "answered" /\ request'[q].answer = a
                          ELSE request'[q] = request[q]
  BY <1>1, <1>2 DEF AskRecord
<1>4. Seen(request') = [Seen(request) EXCEPT ![r] = Store!Answered(a)]
  BY <1>1, <1>3 DEF Seen, Store!Answered
<1>5. Seen(request)[r] = Store!Pending
  BY <1>1 DEF Seen, Store!Pending
<1>6. Store!answerRequest(r, a)
  BY <1>2, <1>4, <1>5 DEF Store!answerRequest, Seen
<1>7. QED
  BY <1>6 DEF Store!StoreNext

\* Taking and removing delete one row.
LEMMA DeleteRefines ==
    ASSUME Shape, NEW r \in Requests, UNCHANGED row, request' = [request EXCEPT ![r] = NoAsk],
           request[r].state \in {"pending", "answered"}
    PROVE  Store!StoreNext
<1> USE StoreConstants DEF Shape
<1>1. request \in [Requests -> AskRecord]
  BY DEF TypeOK
<1>2. Seen(request') = [Seen(request) EXCEPT ![r] = Store!Absent]
  BY <1>1 DEF Seen, NoAsk, Store!Absent
<1>3. CASE request[r].state = "pending"
  <2>1. Seen(request)[r] = Store!Pending
    BY <1>1, <1>3 DEF Seen, Store!Pending, Questions
  <2>2. Store!removeRequest(r)
    BY <1>2, <2>1 DEF Store!removeRequest, Seen
  <2>3. QED
    BY <2>2 DEF Store!StoreNext
<1>4. CASE request[r].state = "answered"
  <2>1. Seen(request)[r].state = "answered"
    BY <1>4 DEF Seen
  <2>2. Store!takeAnswer(r)
    BY <1>2, <2>1 DEF Store!takeAnswer, Seen
  <2>3. QED
    BY <2>2 DEF Store!StoreNext
<1>5. QED
  BY <1>3, <1>4

LEMMA MemoryStep ==
    ASSUME Shape, Serial, isolation = "serial", [Next]_vars
    PROVE  Store!StoreNext \/ UNCHANGED Store!storeVars
<1> USE StoreConstants DEF Shape
<1>1. CASE UNCHANGED <<row, request>>
  BY <1>1 DEF Store!storeVars
<1>2. ASSUME NEW c \in Clients, takeDelete(c) PROVE Store!StoreNext
  <2>1. /\ txn[c].req \in Requests /\ request[txn[c].req].id = txn[c].id
        /\ request[txn[c].req].state = "answered"
    BY <1>2 DEF Serial, StillThere, takeDelete, At, OpenTxns, Fits
  <2>2. UNCHANGED row /\ request' = [request EXCEPT ![txn[c].req] = NoAsk]
    BY <1>2, <2>1 DEF takeDelete
  <2>3. QED
    BY <2>1, <2>2, DeleteRefines
<1>3. ASSUME NEW c \in Clients, NEW r \in Requests, removeRequest(c, r) PROVE Store!StoreNext
  BY <1>3, DeleteRefines DEF removeRequest
<1>4. ASSUME NEW c \in Clients, claimSweep(c) \/ finishSweep(c) PROVE FALSE
  BY <1>4 DEF Serial, StillThere, claimSweep, finishSweep, At
<1>5. ASSUME NEW c \in Clients, SessionStep(c)
      PROVE  \/ UNCHANGED <<row, request>> \/ claimWrite(c) \/ getOrCreate(c) \/ attachWrite(c)
             \/ finishWrite(c)
  BY <1>4, <1>5 DEF SessionStep, claimRead, claimReadBack, attachRead, finishRead,
     finishReadBack, tables
<1>6. ASSUME NEW c \in Clients, RequestStep(c)
      PROVE  \/ UNCHANGED <<row, request>> \/ answerWrite(c) \/ takeDelete(c)
             \/ \E r \in Requests : removeRequest(c, r)
             \/ \E s \in Submissions, r \in Requests : addPendingRequest(c, s, r)
  BY <1>6 DEF RequestStep, answerRead, takeRead, tables
<1>7. ASSUME Dispatch \/ UNCHANGED vars \/ \E c \in Clients : Rollback(c)
      PROVE  UNCHANGED <<row, request>>
  BY <1>7 DEF Dispatch, Rollback, vars, tables
<1>8. QED
  <2>1. ASSUME NEW c \in Clients, SessionStep(c)
        PROVE  Store!StoreNext \/ UNCHANGED Store!storeVars
    BY <1>1, <1>5, <2>1, ClaimRefines, RowRefines
  <2>2. ASSUME NEW c \in Clients, RequestStep(c)
        PROVE  Store!StoreNext \/ UNCHANGED Store!storeVars
    BY <1>1, <1>2, <1>3, <1>6, <2>2, AskRefines, AnswerRefines
  <2>3. QED
    BY <1>1, <1>7, <2>1, <2>2 DEF Next

-----------------------------------------------------------------------------
(* The inductive invariant and what follows from it *)

IInv ==
    /\ Shape
    /\ ExecutionIsOwn
    /\ AnswersAreFirstWins
    /\ QuestionsBelongToTheHolder
    /\ History
    /\ Serial

LEMMA InvInit == Init => IInv
<1> SUFFICES ASSUME Init PROVE IInv
  OBVIOUS
<1> USE StoreConstants
<1>r. row.claim = NoClaim /\ row.history = 0 /\ row.count = 0
  BY DEF Init, Store!NoRow, NoClaim
<1>1. Shape
  BY ShapeInit
<1>2. ExecutionIsOwn
  BY <1>r DEF ExecutionIsOwn
<1>3. AnswersAreFirstWins
  BY DEF Init, AnswersAreFirstWins
<1>4. QuestionsBelongToTheHolder
  BY DEF Init, QuestionsBelongToTheHolder, NoneAsked
<1>5. History
  BY <1>r DEF Init, History, InOrder
<1>6. Serial
  BY DEF Init, Serial, StillThere
<1>7. QED
  BY <1>1, <1>2, <1>3, <1>4, <1>5, <1>6 DEF IInv

LEMMA InvStep == IInv /\ [Next]_vars => IInv'
<1> SUFFICES ASSUME IInv, [Next]_vars PROVE IInv'
  OBVIOUS
<1> USE DEF IInv
<1>1. TypeOK'
  BY TypeSession, TypeRequest, TypeRest DEF Next
<1>2. OpenTxns'
  BY TxnsSession, TxnsRequest, TxnsRest DEF Next
<1>3. HeldClaim'
  BY HeldStep
<1>4. Questions' /\ AnswersAreFirstWins'
  BY AnsweredStep DEF Answered
<1>5. ExecutionIsOwn' /\ QuestionsBelongToTheHolder'
  BY OwnStep, HolderStep
<1>6. History' /\ Serial'
  BY HistoryStep, SerialStep
<1>7. QED
  BY <1>1, <1>2, <1>3, <1>4, <1>5, <1>6 DEF Shape

LEMMA Invariance == Spec => []IInv
BY InvInit, InvStep, PTL DEF Spec

\* The tables and every open transaction keep their shape.
THEOREM SpecTypeOK == Spec => []TypeOK
<1>1. IInv => TypeOK
  BY DEF IInv, Shape
<1>2. QED
  BY Invariance, <1>1, PTL

\* An execution id is never stamped on a claim it was not dispatched for: what
\* attachExecution read before another connection finished and claimed again is
\* restated in its UPDATE, and the claim it then matches is its own.
THEOREM SpecExecutionIsOwn == Spec => []ExecutionIsOwn
<1>1. IInv => ExecutionIsOwn
  BY DEF IInv
<1>2. QED
  BY Invariance, <1>1, PTL

\* Of two answers to one question at most one is acknowledged, and it is the one
\* recorded: a row is named by an id no later question is given.
THEOREM SpecAnswersAreFirstWins == Spec => []AnswersAreFirstWins
<1>1. IInv => AnswersAreFirstWins
  BY DEF IInv
<1>2. QED
  BY Invariance, <1>1, PTL

\* A question on file was asked for the claim that is held: a claim and a finish
\* each empty the table, and only the holder's run asks.
THEOREM SpecQuestionsBelongToTheHolder == Spec => []QuestionsBelongToTheHolder
<1>1. IInv => QuestionsBelongToTheHolder
  BY DEF IInv
<1>2. QED
  BY Invariance, <1>1, PTL

\* Only a submission's own finish ends its claim, however long before that write
\* its read was, and whatever other connections committed in between.
THEOREM SpecClaimEndsWithItsFinish == Spec => ClaimEndsWithItsFinish
<1>1. IInv /\ [Next]_vars =>
        [row.claim # NoClaim /\ row'.claim.sub # row.claim.sub
           => \E c \in Clients : finishWrite(c) /\ txn[c].sub = row.claim.sub]_vars
  BY EndStep DEF IInv
<1>2. QED
  BY Invariance, <1>1, PTL DEF Spec, ClaimEndsWithItsFinish

\* Until a claim decided on an old count lands, no finish writes an older history:
\* the claim it compares is then the one of the last submission, its own.
THEOREM SpecHistoryNeverRegresses == Spec => HistoryNeverRegresses
<1>1. IInv /\ [Next]_vars => [~turnedBack => row'.history >= row.history]_vars
  BY NeverRegresses DEF IInv
<1>2. QED
  BY Invariance, <1>1, PTL DEF Spec, HistoryNeverRegresses

\* On a serial database the SQL store implements the in-memory one: the write of
\* a transaction is that store's operation, because what it read is still there.
THEOREM SpecImplementsMemory == Spec => SerialImplementsMemory
<1>1. Init => Store!StoreInit
  BY DEF Init, Store!StoreInit, NoneAsked, NoAsk, Store!NothingAsked, Store!Absent
<1>2. IInv /\ [Next]_vars => [isolation = "serial" => Store!StoreNext]_(Store!storeVars)
  BY MemoryStep DEF IInv
<1>3. QED
  BY Invariance, <1>1, <1>2, PTL DEF Spec, SerialImplementsMemory
=============================================================================
