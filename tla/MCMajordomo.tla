---------------------------- MODULE MCMajordomo ----------------------------
(* Two workers of one service; a client calls it and asks for it. *)
EXTENDS Majordomo

CONSTANTS w1, w2, c1, echo, mmi

MCServiceOf == [w \in {w1, w2} |-> echo]
MCCalls == [c \in {c1} |-> <<echo, mmi>>]
=============================================================================
