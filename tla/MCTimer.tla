------------------------------- MODULE MCTimer -------------------------------
(* A small instance of Timer for TLC: three launches in any of the modes. *)
EXTENDS Timer
=============================================================================
