----------------------------- MODULE MCUserData -----------------------------
(* A small instance of UserData for TLC. *)
EXTENDS UserData

\* Symbol asked for or not, first or last, fields out of order and repeated, none.
MCFieldLists == {<<>>, <<0, 2>>, <<2, 1>>, <<1, 2, 1, 0>>}
=============================================================================
