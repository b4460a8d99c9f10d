------------------------- MODULE MCPipelineProcess -------------------------
(***************************************************************************)
(* PipelineProcess with two branches: one that arrives first and one that  *)
(* arrives last, an activity to go on to in one of them.                   *)
(***************************************************************************)
EXTENDS PipelineProcess, TLC

CONSTANTS b1, b2

LastOf == b1 :> 2 @@ b2 :> 1
PolledOf == {<<b1, 1>>}
=============================================================================
