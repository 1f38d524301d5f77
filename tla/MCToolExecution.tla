---------------------------- MODULE MCToolExecution ----------------------------
(* A container between two calls of one tool, for TLC.                      *)
EXTENDS ToolExecution, TLC

MCNameOf == (1 :> "search" @@ 2 :> "execute" @@ 3 :> "search")
MCLimit == ("search" :> 2 @@ "execute" :> 1)
=============================================================================
