------------------------ MODULE MCSubscriptionTasks ------------------------
(***************************************************************************)
(* SubscriptionTasks with two calls of any kind: what goes wrong between   *)
(* calls goes wrong between two.  The second instance lets a call skip one *)
(* (suppressed, say) and still have one to act on.                         *)
(***************************************************************************)
EXTENDS SubscriptionTasks
=============================================================================
