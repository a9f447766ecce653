----------------------------- MODULE MCDelivery -----------------------------
(* Small instances of Delivery for TLC.                                    *)
EXTENDS Delivery, TLC

CONSTANTS c1, p1, p2, d1, e1, e2, e3, e4

Way(p, w) == [by |-> d1, via |-> p, wd |-> w]

\* The client has two sockets.  At p1 it has two ids of which one is a prefix of the
\* other, and three events match, one more than a pipe holds; the id at p2 is a prefix
\* of an event's that is a multiple of 256.
MCGranted == {<<c1, p1, 2>>, <<c1, p1, 25>>, <<c1, p2, 25>>}

MCRoute ==
  (e1 :> Way(p1, 25)) @@ (e2 :> Way(p1, 2)) @@ (e3 :> Way(p1, 25)) @@ (e4 :> Way(p2, 256))

=============================================================================
