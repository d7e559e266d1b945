-------------------------- MODULE MCTokenLifecycle --------------------------
(* Small instances of TokenLifecycle for TLC. *)
EXTENDS TokenLifecycle
=============================================================================
