------------------------------ MODULE LossyFifo ------------------------------
(***************************************************************************)
(* What each direction of the iGate promises to those who use it: what is  *)
(* put in comes out in the order it was put in, each item at most once;    *)
(* items may be lost on the way, nothing else comes out.                   *)
(***************************************************************************)
EXTENDS Naturals, Sequences

VARIABLES
    put,      \* the number of items put in; they are 1, 2, ...
    within,   \* the items on their way, the oldest first
    out       \* the items that came out, the oldest first

vars == <<put, within, out>>

Init == put = 0 /\ within = <<>> /\ out = <<>>

Put ==
    /\ put' = put + 1
    /\ within' = Append(within, put + 1)
    /\ UNCHANGED out

\* A stretch of items is lost, anywhere; the others keep their order.
Lose ==
    /\ \E i, j \in 0 .. Len(within) :
          /\ i <= j
          /\ within' = SubSeq(within, 1, i) \o SubSeq(within, j + 1, Len(within))
    /\ UNCHANGED <<put, out>>

Deliver ==
    /\ within # <<>>
    /\ within' = Tail(within)
    /\ out' = Append(out, Head(within))
    /\ UNCHANGED put

Next == Put \/ Lose \/ Deliver

Spec == Init /\ [][Next]_vars

-----------------------------------------------------------------------------
\* The promise, as those who use the queue see it: what came out, and what is
\* still to come, are items in the order they were put in, none twice.
InOrder ==
    LET items == out \o within IN
    /\ \A i \in DOMAIN items : items[i] \in 1 .. put
    /\ \A i, j \in DOMAIN items : i < j => items[i] < items[j]
=============================================================================
