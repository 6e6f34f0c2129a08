----------------------------- MODULE AutoDeviceMC -----------------------------
(***************************************************************************)
(* Instances of AutoDevice for TLC.  Other is a candidate as the tests     *)
(* make them: it initializes, in the wrong mode.                           *)
(***************************************************************************)
EXTENDS AutoDevice, TLC

MCProc == {"p", "q"}
MCSymmetry == Permutations(Device)
Calls33 == [p \in MCProc |-> 3]
MCCandidates == <<"Toomoss", "Other", "TSMaster", "PCAN", "Vector">>
=============================================================================
