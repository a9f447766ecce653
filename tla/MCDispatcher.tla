---------------------------- MODULE MCDispatcher ----------------------------
(* Small instances of Dispatcher for TLC.                                  *)
EXTENDS Dispatcher, TLC

CONSTANTS p1, p2, t1, t2, t3, b1, b2, b3, n1, n2

\* Two replicas a publisher, interleaved round the ring.
MCItemsOf == (p1 :> {2, 6}) @@ (p2 :> {4, 8})

\* n1 reaches both publishers, one for each of its instances; n2 wraps around.
MCKeyPoint ==
  [k \in Keys |-> IF k.name = n1 THEN 2 * k.instance + 1 ELSE 8 + k.instance]

\* A block with events of two names and one without a name between them, and
\* blocks with a single event.
MCContent == (b1 :> <<n1, NoName, n2>>) @@ (b2 :> <<n1>>) @@ (b3 :> <<n1>>)

\* A block that begins with an event without a name.
MCContentShort == (b1 :> <<NoName, n1>>) @@ (b2 :> <<n1>>) @@ (b3 :> <<n2>>)

Threads == Permutations(Parsers)

=============================================================================
