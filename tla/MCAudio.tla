------------------------------- MODULE MCAudio -------------------------------
(***************************************************************************)
(* Audio for TLC: 4-bit samples, 8-bit products, a 2-bit packet counter.   *)
(***************************************************************************)
EXTENDS Audio

Loudness == {-7, 2}
GainValues == {0, 3}

=============================================================================
