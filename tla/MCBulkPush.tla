----------------------------- MODULE MCBulkPush -----------------------------
(***************************************************************************)
(* BulkPush with two hosts.                                                *)
(***************************************************************************)
EXTENDS BulkPush, TLC

CONSTANTS h1, h2
=============================================================================
