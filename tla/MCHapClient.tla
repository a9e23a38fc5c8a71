----------------------------- MODULE MCHapClient -----------------------------
(***************************************************************************)
(* HapClient for TLC.  The two callers are the poll loop of the motion     *)
(* sensor and a stream command.                                            *)
(***************************************************************************)
EXTENDS HapClient

=============================================================================
