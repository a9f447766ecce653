----------------------------- MODULE MCTitanic -----------------------------
(* A client whose two attempts may each store a request. *)
EXTENDS Titanic

CONSTANTS c1
=============================================================================
