---------------------------- MODULE MCFreelance ----------------------------
(* The instance of Freelance that TLC checks. *)
EXTENDS Freelance

CONSTANTS s1, s2

MCOrder == <<s1, s2>>
=============================================================================
