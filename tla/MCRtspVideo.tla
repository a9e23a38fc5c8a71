----------------------------- MODULE MCRtspVideo -----------------------------
(***************************************************************************)
(* RtspVideo for TLC: the counters wrap within the stream, and clients are *)
(* interchangeable.                                                        *)
(***************************************************************************)
EXTENDS RtspVideo, TLC

Symmetry == Permutations(Clients)

=============================================================================
