---------------------------- MODULE MCRegistrar -----------------------------
(* Small instances of Registrar for TLC.                                   *)
EXTENDS Registrar, TLC

CONSTANTS p1, p2, p3, c1, c2, f1, f2

\* Three publishers whose replicas alternate on the ring.
MCItemsOf == (p1 :> {2, 10}) @@ (p2 :> {4, 12}) @@ (p3 :> {6, 8})

\* The instances of f1 fall on different publishers, and one of them moves from
\* p1 to p3 when p3 joins; f2 wraps around.
MCKeyPoint ==
  [k \in Keys |-> IF k.name = f1 THEN 2 * k.instance + 1 ELSE 11 + k.instance]

\* Both clients want f1; one asks for a path that does not exist before.
MCWanted == (c1 :> <<f1>>) @@ (c2 :> <<f2, f1>>)

=============================================================================
