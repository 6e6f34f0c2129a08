\* Two goroutines open, close, send and subscribe while frames arrive.
SPECIFICATION FairSpec
CONSTANTS
  Proc <- MCProc
  Chan <- MCChan
  None = None
  FD = TRUE
  Kinds = {"fd", "brs"}
  RxCap = 1
  SubCap = 1
  ErrorCap = 1
  MaxCalls <- Calls22
  MaxFrames = 2
INVARIANTS TypeOK NoPanic VendorCallsWhileOpen OpenIsUsable ClosedIsReleased NoSilentGap FrameKeepsBRS
PROPERTY CallsReturn
CHECK_DEADLOCK FALSE
