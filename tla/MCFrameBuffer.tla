---------------------------- MODULE MCFrameBuffer ----------------------------
(***************************************************************************)
(* FrameBuffer for TLC: sequence numbers wrap within the stream.           *)
(***************************************************************************)
EXTENDS FrameBuffer

=============================================================================
