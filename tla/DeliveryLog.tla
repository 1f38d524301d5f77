----------------------------- MODULE DeliveryLog ------------------------------
(***************************************************************************)
(* The SQL delivery log of one session (durable/DeliveryLog.ts): appends in *)
(* transactions that see what others have committed, and readers that      *)
(* resume after what they were given (DurableAgentClient.events), with the *)
(* bounded queue of Observation.bounded between the poll and the consumer. *)
(*                                                                         *)
(* A row is a sequence number, an event key, and who wrote it.  An append  *)
(* under a key that is there is a Duplicate or a Conflict, by its payload: *)
(* either way nothing is written.                                          *)
(***************************************************************************)
EXTENDS Integers, Sequences, FiniteSetsExt, SequencesExt

CONSTANTS
    Appenders,     \* fibres and processes that record events
    Readers,
    MaxLag,        \* envelopes a reader may have queued and not taken
    MaxCuts        \* bound: connections ever cut

ASSUME LogAssumption == MaxLag \in Nat \ {0} /\ MaxCuts \in Nat

VARIABLES
    rows,     \* the table
    tx,       \* of each appender, its append
    reader,   \* of each reader, its connection
    got,      \* of each reader, the envelopes its consumer was given, over all connections
    cuts

logVars == <<rows, tx, reader, got, cuts>>

NoTx == [pc |-> "none", key |-> 0, next |-> 0]
Disconnected == [pc |-> "away", cursor |-> 0, highest |-> 0, history |-> <<>>, queue |-> <<>>]

LogInit ==
    /\ rows = {}
    /\ tx = [a \in Appenders |-> NoTx]
    /\ reader = [r \in Readers |-> Disconnected]
    /\ got = [r \in Readers |-> <<>>]
    /\ cuts = 0

recordedKeys == { row.key : row \in rows }
recorded == { row.seq : row \in rows }
maxSequence == Max(recorded \union {0})
\* ORDER BY sequence.
ascending(S) == CHOOSE s \in [1 .. Cardinality(S) -> S] : \A i, j \in DOMAIN s : i < j => s[i] < s[j]
above(cursor) == ascending({ n \in recorded : n > cursor })

-----------------------------------------------------------------------------
(* append: one transaction, under READ COMMITTED *)

BeginAppend(a, key) ==
    /\ tx[a] = NoTx
    /\ tx' = [tx EXCEPT ![a] = [pc |-> "checking", key |-> key, next |-> 0]]
    /\ UNCHANGED <<rows, reader, got, cuts>>

ReadKey(a) ==
    /\ tx[a].pc = "checking"
    /\ tx' = [tx EXCEPT ![a].pc = IF tx[a].key \in recordedKeys THEN "done" ELSE "numbering"]
    /\ UNCHANGED <<rows, reader, got, cuts>>

ReadMax(a) ==
    /\ tx[a].pc = "numbering"
    /\ tx' = [tx EXCEPT ![a].pc = "inserting", ![a].next = maxSequence + 1]
    /\ UNCHANGED <<rows, reader, got, cuts>>

\* Both uniqueness constraints hold against what has been committed since; the
\* loser of either fails with a StorageError.
Insert(a) ==
    /\ tx[a].pc = "inserting"
    /\ \/ /\ tx[a].key \notin recordedKeys /\ tx[a].next \notin recorded
          /\ rows' = rows \union {[seq |-> tx[a].next, key |-> tx[a].key, by |-> a]}
          /\ tx' = [tx EXCEPT ![a].pc = "done"]
       \/ /\ tx[a].key \in recordedKeys \/ tx[a].next \in recorded
          /\ tx' = [tx EXCEPT ![a].pc = "failed"]
          /\ UNCHANGED rows
    /\ UNCHANGED <<reader, got, cuts>>

-----------------------------------------------------------------------------
(* events({ after }): subscribe, read, then cut the overlap *)

lastGiven(r) == IF got[r] = <<>> THEN 0 ELSE Last(got[r])

\* A subscription to the log is the cursor its poll starts from.
Connect(r) ==
    /\ reader[r].pc = "away"
    /\ reader' = [reader EXCEPT ![r].pc = "reading", ![r].cursor = maxSequence]
    /\ UNCHANGED <<rows, tx, got, cuts>>

ReadHistory(r) ==
    LET history == above(lastGiven(r)) IN
    /\ reader[r].pc = "reading"
    /\ reader' = [reader EXCEPT ![r].pc = "streaming", ![r].history = history,
                    ![r].highest = IF history = <<>> THEN lastGiven(r) ELSE Last(history)]
    /\ UNCHANGED <<rows, tx, got, cuts>>

\* Mutant: the queue is not bounded.
PollUnbounded(r) ==
    LET new == above(reader[r].cursor) IN
    /\ reader[r].pc \in {"reading", "streaming"} /\ new # <<>>
    /\ reader' = [reader EXCEPT ![r].cursor = Last(new), ![r].queue = @ \o new]
    /\ UNCHANGED <<rows, tx, got, cuts>>

\* The pump: what is above the cursor is queued, or the reader lags and is cut.
Poll(r) ==
    LET new == above(reader[r].cursor) IN
    /\ reader[r].pc \in {"reading", "streaming"} /\ new # <<>>
    /\ reader' = [reader EXCEPT ![r] =
                    IF Len(@.queue) + Len(new) > MaxLag THEN Disconnected
                    ELSE [reader[r] EXCEPT !.cursor = Last(new), !.queue = @ \o new]]
    /\ UNCHANGED <<rows, tx, got, cuts>>

TakeHistory(r) ==
    LET history == reader[r].history IN
    /\ reader[r].pc = "streaming" /\ history # <<>>
    /\ got' = [got EXCEPT ![r] = Append(@, Head(history))]
    /\ reader' = [reader EXCEPT ![r].history = Tail(history)]
    /\ UNCHANGED <<rows, tx, cuts>>

\* Mutant: the overlap of history and subscription is not cut.
TakeUncut(r) ==
    LET queue == reader[r].queue IN
    /\ reader[r].pc = "streaming" /\ reader[r].history = <<>> /\ queue # <<>>
    /\ got' = [got EXCEPT ![r] = Append(@, Head(queue))]
    /\ reader' = [reader EXCEPT ![r].queue = Tail(queue)]
    /\ UNCHANGED <<rows, tx, cuts>>

Take(r) ==
    LET queue == reader[r].queue IN
    /\ reader[r].pc = "streaming" /\ reader[r].history = <<>> /\ queue # <<>>
    /\ got' = [got EXCEPT ![r] = IF Head(queue) > reader[r].highest THEN Append(@, Head(queue)) ELSE @]
    /\ reader' = [reader EXCEPT ![r].queue = Tail(queue)]
    /\ UNCHANGED <<rows, tx, cuts>>

\* The connection goes; its consumer resumes after what it was given.
Cut(r) ==
    /\ reader[r].pc # "away" /\ cuts < MaxCuts
    /\ cuts' = cuts + 1
    /\ reader' = [reader EXCEPT ![r] = Disconnected]
    /\ UNCHANGED <<rows, tx, got>>

AppendStep(a) == ReadKey(a) \/ ReadMax(a) \/ Insert(a)
Read(r) == Connect(r) \/ ReadHistory(r) \/ Poll(r) \/ TakeHistory(r) \/ Take(r) \/ Cut(r)

-----------------------------------------------------------------------------
(* Properties *)

LogTypeOK ==
    /\ \A row \in rows : row.seq \in Nat \ {0} /\ row.by \in Appenders
    /\ recorded = 1 .. Cardinality(rows)
    /\ \A a \in Appenders : tx[a].next \in 0 .. Cardinality(rows) + 1
    /\ \A r \in Readers : reader[r].cursor \in 0 .. maxSequence /\ Len(reader[r].queue) <= MaxLag
    /\ cuts \in 0 .. MaxCuts

\* A consumer that resumes after what it was given is given every recorded
\* envelope once and in order, however appends, its history read, the polls,
\* lags and lost connections interleave.
ReaderMissesNothing == \A r \in Readers : got[r] = [i \in 1 .. Len(got[r]) |-> i]
=============================================================================
