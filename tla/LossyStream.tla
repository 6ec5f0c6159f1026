---------------------------- MODULE LossyStream -----------------------------
(***************************************************************************)
(* What a correction link promises the rover: of the bytes it accepts, in  *)
(* the order they come, each goes out at most once and never after a later *)
(* one.  Bytes may be lost.  A byte is known by its position in what the   *)
(* base receiver produced, so that a set of bytes has an order.            *)
(***************************************************************************)
EXTENDS Naturals

VARIABLES
    pending,        \* the bytes accepted and neither sent nor lost
    last            \* the latest byte sent, 0 before the first

\* Every byte accepted is later than every byte accepted before.
Accept ==
    /\ pending \subseteq pending'
    /\ \A new \in pending' \ pending :
        /\ new > last
        /\ \A old \in pending : old < new
    /\ UNCHANGED last

\* The oldest bytes leave: some are sent, the others are lost.
Forward ==
    /\ pending' \subseteq pending
    /\ \A gone \in pending \ pending', left \in pending' : gone < left
    /\ last' \in {last} \union (pending \ pending')

Init == pending = {} /\ last = 0

Next == Accept \/ Forward

Spec == Init /\ [][Next]_<<pending, last>>

=============================================================================
