------------------------------ MODULE MCClone ------------------------------
(* The instance of Clone and BinaryStar that TLC checks. *)
EXTENDS Clone

\* The first update has a time to live.
MCEphemeral == {1}
=============================================================================
