---------------------------- MODULE LogShipperMC ----------------------------
(* A small instance of LogShipper: routine lines and errors take turns.    *)
EXTENDS LogShipper

TakingTurns == [n \in 1..MaxLines |-> IF n % 2 = 0 THEN 1 ELSE 3]
=============================================================================
