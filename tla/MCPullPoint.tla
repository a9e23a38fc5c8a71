----------------------------- MODULE MCPullPoint -----------------------------
(***************************************************************************)
(* PullPoint for TLC: more IDs than the table has room for.                *)
(***************************************************************************)
EXTENDS PullPoint

=============================================================================
