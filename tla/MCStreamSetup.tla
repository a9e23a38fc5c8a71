--------------------------- MODULE MCStreamSetup -----------------------------
(***************************************************************************)
(* StreamSetup for TLC.                                                    *)
(***************************************************************************)
EXTENDS StreamSetup

=============================================================================
