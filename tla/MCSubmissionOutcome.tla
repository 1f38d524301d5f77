------------------------- MODULE MCSubmissionOutcome -------------------------
(***************************************************************************)
(* SubmissionOutcome for TLC: an interrupted submission of two turns, and  *)
(* a successor admitted before its waiter resumes.                         *)
(***************************************************************************)
EXTENDS SubmissionOutcome
=============================================================================
