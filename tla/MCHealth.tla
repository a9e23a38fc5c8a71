------------------------------- MODULE MCHealth -------------------------------
(***************************************************************************)
(* Health for TLC: windows of a few ticks.                                 *)
(***************************************************************************)
EXTENDS Health

=============================================================================
