----------------------------- MODULE MCStreamer -----------------------------
(* Small instances of Streamer for TLC. *)
EXTENDS Streamer, TLC

CONSTANTS c1, c2

TwoCallers == {c1, c2}
Symmetry == Permutations(TwoCallers)
=============================================================================
