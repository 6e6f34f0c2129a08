---------------------------- MODULE IsoTpSessionMC ----------------------------
(***************************************************************************)
(* Instances of IsoTpSession for TLC: a tester "a" and an ECU "b".         *)
(***************************************************************************)
EXTENDS IsoTpChannel

MCNode == {"a", "b"}
MCPeer == [n \in MCNode |-> IF n = "a" THEN "b" ELSE "a"]

\* Payloads, named by sender and size in bytes.  On classic CAN 5 bytes take a
\* single frame, 12, 20 and 27 a first frame and one, two or three consecutive
\* frames, the last one of 12 partly filled.
DuplexMsg  == {"a20", "a5", "b12"}
DuplexSize == [m \in DuplexMsg |-> CASE m = "a20" -> 20 [] m = "a5" -> 5 [] OTHER -> 12]
DuplexSource == [m \in DuplexMsg |-> IF m = "b12" THEN "b" ELSE "a"]

\* 34 bytes are more than the receiver accepts.
LossyMsg  == {"a27", "a12", "a34"}
LossySize == [m \in LossyMsg |-> CASE m = "a27" -> 27 [] m = "a12" -> 12 [] OTHER -> 34]
LossySource == [m \in LossyMsg |-> "a"]

\* On CAN FD 1110 bytes take 17 consecutive frames: the sequence number wraps.
FDMsg  == {"a1110", "a30", "b80"}
FDSize == [m \in FDMsg |-> CASE m = "a1110" -> 1110 [] m = "a30" -> 30 [] OTHER -> 80]
FDSource == [m \in FDMsg |-> IF m = "b80" THEN "b" ELSE "a"]

ByNode(a, b) == [n \in MCNode |-> IF n = "a" THEN a ELSE b]
BS12  == ByNode(1, 2)
BS21  == ByNode(2, 1)
BS34  == ByNode(3, 4)
Max30 == ByNode(30, 30)
Max3430 == ByNode(34, 30)
MaxFD == ByNode(4095, 4095)
Wait1 == ByNode(1, -1)
AutoFC == ByNode(FALSE, FALSE)
ManualFC == ByNode(TRUE, FALSE)

FC(s) == [type |-> "FC", id |-> "base", status |-> s, bs |-> 1]
Noise == {FC("CTS"), FC("WAIT"), FC("OVFLW"), [type |-> "BAD", id |-> "base"]}
Waits == {FC("WAIT")}
=============================================================================
