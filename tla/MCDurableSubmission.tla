------------------------- MODULE MCDurableSubmission --------------------------
(* The durable submission for TLC: what is interchangeable in it. *)
EXTENDS DurableSubmission, TLC

CONSTANTS c1, c2, p1, no

ClientSymmetry == Permutations(Clients)
=============================================================================
