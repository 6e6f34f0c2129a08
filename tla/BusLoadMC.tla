------------------------------- MODULE BusLoadMC -------------------------------
(***************************************************************************)
(* Instances of BusLoad for TLC.                                           *)
(***************************************************************************)
EXTENDS BusLoad

MCKey == {"a", "b"}
MCOccupied == [k \in MCKey |-> IF k = "a" THEN 1 ELSE 2]
MCMeasured == [k \in MCKey |-> IF k = "a" THEN 2 ELSE 1]
=============================================================================
