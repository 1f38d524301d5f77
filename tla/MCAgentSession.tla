--------------------------- MODULE MCAgentSession ----------------------------
(***************************************************************************)
(* AgentSession for TLC.  Two submissions are enough for a predecessor and *)
(* the successor that stale callers, drains and interrupts could hit; two  *)
(* inputs of one submission, from two callers, are enough for an order, a  *)
(* batch and a late arrival; two turns give a boundary after a commit.     *)
(***************************************************************************)
EXTENDS AgentSession
=============================================================================
