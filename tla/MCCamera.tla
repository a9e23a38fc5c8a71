------------------------------ MODULE MCCamera -------------------------------
(***************************************************************************)
(* Camera for TLC.  Liveness is checked, so that no symmetry is used.      *)
(***************************************************************************)
EXTENDS Camera

=============================================================================
