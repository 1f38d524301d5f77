-------------------------------- MODULE Events --------------------------------
(***************************************************************************)
(* The event bus of a durable session recording into its delivery log: the *)
(* bus's sink is the recorder of DurableSubmission.recordingSink, run under *)
(* the ordering permit, while another execution of the same journal, in    *)
(* another process, records the same events under the same keys.           *)
(*                                                                         *)
(* The key of an envelope is its number on the bus; SessionClosed belongs  *)
(* to no submission and is not recorded.                                   *)
(***************************************************************************)
EXTENDS EventBus, DeliveryLog

CONSTANT Replayer     \* the other execution

ASSUME EventsAssumption == Appenders = (Fibres \ {Closer}) \union {Replayer} /\ Replayer \notin Fibres

VARIABLES
    replayed,    \* the last event the replay has recorded
    watched      \* what a behaviour is about: who listens on the bus, or in the log

vars == <<busVars, logVars, replayed, watched>>

\* Subscribers and readers only look, and never at each other: a behaviour has
\* the ones, alone with the session, or the others, with the second execution.
Init == BusInit /\ LogInit /\ replayed = 0 /\ watched \in {"bus", "log"}

\* The recorder's append begins as soon as the publisher has charged.
BeginRecord(f) ==
    /\ f # Closer /\ At(f, "sinking")
    /\ BeginAppend(f, fibre[f].seq)
    /\ UNCHANGED <<busVars, replayed, watched>>

Answered(a) == tx' = [tx EXCEPT ![a] = NoTx] /\ UNCHANGED <<rows, reader, got, cuts>>

Recorded(f) ==
    /\ f # Closer /\ tx[f].pc = "done"
    /\ SinkReturns(f) /\ Answered(f)
    /\ UNCHANGED <<replayed, watched>>

\* A StorageError becomes a defect of the sink, and of the emission.
NotRecorded(f) ==
    /\ f # Closer /\ tx[f].pc = "failed"
    /\ SinkDies(f) /\ Answered(f)
    /\ UNCHANGED <<replayed, watched>>

PassUnrecorded ==
    /\ SinkReturns(Closer)
    /\ UNCHANGED <<logVars, replayed, watched>>

\* The replay records event by event, and starts over when an append fails.
Replay ==
    /\ watched = "log"
    /\ \/ /\ replayed < MaxSequence
          /\ BeginAppend(Replayer, replayed + 1)
          /\ UNCHANGED replayed
       \/ /\ tx[Replayer].pc \in {"done", "failed"}
          /\ replayed' = IF tx[Replayer].pc = "done" THEN replayed + 1 ELSE 0
          /\ Answered(Replayer)
    /\ UNCHANGED <<busVars, watched>>

Next ==
    \/ /\ \/ \E f \in Fibres : Emit(f)
          \/ watched = "bus" /\ \E s \in Subscribers : Observe(s)
       /\ UNCHANGED <<logVars, replayed, watched>>
    \/ \E f \in Fibres : BeginRecord(f) \/ Recorded(f) \/ NotRecorded(f)
    \/ PassUnrecorded
    \/ Replay
    \/ /\ \/ \E a \in Appenders : AppendStep(a)
          \/ watched = "log" /\ \E r \in Readers : Read(r)
       /\ UNCHANGED <<busVars, replayed, watched>>

Spec == Init /\ [][Next]_vars

-----------------------------------------------------------------------------
(* Properties *)

TypeOK == BusTypeOK /\ LogTypeOK /\ replayed \in 0 .. MaxSequence /\ watched \in {"bus", "log"}

\* What the session's own fibres record stands in the log in the order they
\* published it: the sink runs under the permit that ordered the publication.
LogFollowsTheBus ==
    \A x, y \in { row \in rows : row.by \in Fibres } : x.key < y.key => x.seq < y.seq
=============================================================================
