-------------------------- MODULE MCSqlSessionStore --------------------------
(***************************************************************************)
(* SqlSessionStore for TLC.  Two connections reach every race between two  *)
(* transactions; two submissions give a predecessor's late writes a        *)
(* successor to hit.                                                       *)
(***************************************************************************)
EXTENDS SqlSessionStore
=============================================================================
