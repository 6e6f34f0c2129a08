------------------------------- MODULE DriverMC -------------------------------
(***************************************************************************)
(* Instances of Driver for TLC.                                            *)
(***************************************************************************)
EXTENDS Driver

MCProc == {"p", "q"}
MCChan == {"c", "d"}
Calls22 == [p \in MCProc |-> 2]
Calls32 == [p \in MCProc |-> IF p = "p" THEN 3 ELSE 2]
Calls40 == [p \in MCProc |-> IF p = "p" THEN 4 ELSE 0]
=============================================================================
