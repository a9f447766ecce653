------------------------------ MODULE MCProxy -------------------------------
(* Small instances of Proxy for TLC.                                       *)
EXTENDS Proxy

CONSTANTS r1, r2, d1, d2, m1, m2, m3

=============================================================================
