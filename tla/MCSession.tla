------------------------------ MODULE MCSession ------------------------------
(***************************************************************************)
(* Session for TLC: goroutines, timers and channels as model values.       *)
(***************************************************************************)
EXTENDS Session

=============================================================================
