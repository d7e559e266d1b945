--------------------------- MODULE MCSenderDaemon ---------------------------
(* Small instances of SenderDaemon for TLC. *)
EXTENDS SenderDaemon, TLC

CONSTANTS p1, p2, c1, c2

MCProducers == {p1, p2}
MCControllers == {c1, c2}
MCSymmetry == Permutations(MCProducers) \cup Permutations(MCControllers)
=============================================================================
