------------------------------ MODULE AgentMC ------------------------------
(* A small instance of Agent: a destination for the first of two records,  *)
(* none for the second.                                                    *)
EXTENDS Agent

CONSTANTS d1, d2

OfFirst == [x \in Dests |-> d1]
=============================================================================
