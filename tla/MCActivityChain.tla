-------------------------- MODULE MCActivityChain --------------------------
(***************************************************************************)
(* ActivityChain on small instances.  Three activities are the least with  *)
(* a HEAD, a TAIL and one that is neither; the runs let the middle one     *)
(* poll, or the two at the ends.                                           *)
(***************************************************************************)
EXTENDS ActivityChain

MiddlePolls == {2}
EndsPoll == {1, 3}

\* Nothing but the worker, and no exception: one uneventful deployment.
QuietSpec == Init /\ [][Engine]_vars
=============================================================================
