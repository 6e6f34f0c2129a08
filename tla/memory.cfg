\* Two goroutines use both endpoints of a pair; only endpoint a echoes.
SPECIFICATION FairSpec
CONSTANTS
  End <- MCEnd
  Peer <- MCPeer
  Echo = {"a"}
  Proc <- MCProc
  Chan = {c, d}
  SubCap = 1
  None = None
  MaxCalls <- Calls33
INVARIANTS TypeOK NoPanic NoSilentLoss EchoConfirms
PROPERTY CallsReturn
CHECK_DEADLOCK FALSE
