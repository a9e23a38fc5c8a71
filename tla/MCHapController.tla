--------------------------- MODULE MCHapController ---------------------------
(***************************************************************************)
(* HapController for TLC: two recoveries and a stream start.               *)
(***************************************************************************)
EXTENDS HapController

=============================================================================
