--------------------------- MODULE MCPluginPatrol ---------------------------
(***************************************************************************)
(* PluginPatrol with a policy and its canary, which ranks higher.          *)
(***************************************************************************)
EXTENDS PluginPatrol, TLC

CONSTANTS main, canary, once

RankOf == main :> 1 @@ canary :> 2
=============================================================================
