--------------------------- MODULE MCClientManager --------------------------
(* Instances of ClientManager for TLC. *)
EXTENDS ClientManager

CONSTANTS p1, p2, g1, g2, x1, AWS

\* Two stores of the GCP provider and one of a provider without lock.
MCTypeOf == [st \in Stores |-> IF st = x1 THEN AWS ELSE GCP]
=============================================================================
