------------------------------ MODULE Admission ------------------------------
(***************************************************************************)
(* src/internal/admission.ts: the one pure transition that decides whether *)
(* a submission may take a session.  AgentSession runs it inside a         *)
(* SubscriptionRef.modify, the two session stores inside a Ref.modify and  *)
(* a transaction; each supplies the slot and interprets the decision.      *)
(*                                                                         *)
(* Slots and decisions are tagged records.  Holders and keys are whatever  *)
(* the caller uses for them; NoKey is "no idempotency key".                *)
(***************************************************************************)
EXTENDS Naturals

CONSTANT NoKey

ClosedSlot         == [tag |-> "Closed"]
MissingSlot        == [tag |-> "Missing"]
IdleSlot(count)    == [tag |-> "Idle", count |-> count]
HeldSlot(holder, key) == [tag |-> "Held", holder |-> holder, key |-> key]

(***************************************************************************)
(* A held session is busy, unless the caller presents the key its holder   *)
(* was opened with.  No key never matches, not even no key.                *)
(***************************************************************************)
Rejoins(slot, key) == key # NoKey /\ slot.key = key

admit(slot, key) ==
    CASE slot.tag \in {"Missing", "Closed"} -> slot
      [] slot.tag = "Idle" -> [tag |-> "Open", ordinal |-> slot.count + 1]
      [] slot.tag = "Held" -> [tag    |-> IF Rejoins(slot, key) THEN "Rejoin" ELSE "Busy",
                               holder |-> slot.holder]
==============================================================================
