----------------------------- MODULE MCSrtpProxy -----------------------------
(***************************************************************************)
(* SrtpProxy for TLC.  It has no parameters and no bounds.                 *)
(***************************************************************************)
EXTENDS SrtpProxy

=============================================================================
