------------------------------ MODULE ForkJoin ------------------------------
(***************************************************************************)
(* What a parallel gateway promises: the pipeline forks into branches,     *)
(* goes on behind the converge gateway when the last of them has arrived   *)
(* there, once, and finishes after that.  Revoking stops it anywhere,      *)
(* though branches that are under way may still arrive.  PipelineProcess   *)
(* implements this.                                                        *)
(***************************************************************************)
CONSTANT Branches

VARIABLES
    missing,  \* branches that have not arrived
    stage     \* how far the pipeline is

vars == <<missing, stage>>

Init == missing = Branches /\ stage = "before"

Fork == stage = "before" /\ stage' = "forked" /\ UNCHANGED missing

Arrive == stage # "before" /\ missing' \in {missing \ {b} : b \in missing} /\ UNCHANGED stage

Join == stage = "forked" /\ missing = {} /\ stage' = "joined" /\ UNCHANGED missing

Finish == stage = "joined" /\ stage' = "finished" /\ UNCHANGED missing

Stop == stage \in {"before", "forked", "joined"} /\ stage' = "stopped" /\ UNCHANGED missing

Next == Fork \/ Arrive \/ Join \/ Finish \/ Stop

Spec == Init /\ [][Next]_vars
=============================================================================
