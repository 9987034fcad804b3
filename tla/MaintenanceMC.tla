--------------------------- MODULE MaintenanceMC ---------------------------
(* Small instances of Maintenance. Cycles are interchangeable.             *)
EXTENDS Maintenance, TLC

Symm == Permutations(Cycles)
=============================================================================
