----------------------------- MODULE MemoryBusMC -----------------------------
(***************************************************************************)
(* Instances of MemoryBus for TLC.                                         *)
(***************************************************************************)
EXTENDS MemoryBus

MCEnd == {"a", "b"}
MCPeer == [e \in MCEnd |-> IF e = "a" THEN "b" ELSE "a"]
MCProc == {"p", "q"}
Calls33 == [p \in MCProc |-> 3]
=============================================================================
