---------------------------- MODULE FifoChannel ----------------------------
(***************************************************************************)
(* What a queue drained by a daemon promises its callers: every item that  *)
(* is put in comes out at most once, unchanged, and in the order it was    *)
(* put in.  When it comes out is not this module's business.               *)
(***************************************************************************)
EXTENDS Sequences

CONSTANT Item        \* what can be sent

VARIABLES
    chan,            \* items accepted and not yet delivered, oldest first
    out              \* items delivered, oldest first

vars == <<chan, out>>

Init == chan = <<>> /\ out = <<>>

Send(i) == chan' = Append(chan, i) /\ UNCHANGED out

Deliver ==
    /\ chan # <<>>
    /\ out' = Append(out, Head(chan))
    /\ chan' = Tail(chan)

Next == Deliver \/ \E i \in Item : Send(i)

Spec == Init /\ [][Next]_vars
=============================================================================
