------------------------------ MODULE MCPirate ------------------------------
(* Two workers; a client makes two calls. *)
EXTENDS Pirate

CONSTANTS w1, w2, c1

MCCalls == [c \in {c1} |-> <<"request", "request">>]
=============================================================================
