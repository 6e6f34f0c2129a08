------------------------------ MODULE UdsClientMC ------------------------------
(***************************************************************************)
(* Instances of UdsClient for TLC: a call without a mode and a functional  *)
(* call to another service that suppresses the positive response.          *)
(***************************************************************************)
EXTENDS UdsClient

MCReq == {"read", "present"}
MCSID == {"s1", "s2"}
MCSid == [r \in MCReq |-> IF r = "read" THEN "s1" ELSE "s2"]
MCMode == [r \in MCReq |-> IF r = "read" THEN "regular" ELSE "functional"]
MCSuppress == [r \in MCReq |-> r = "present"]
=============================================================================
