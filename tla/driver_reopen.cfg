\* A classic bus on which an application tries a CAN FD frame.
SPECIFICATION Spec
CONSTANTS
  Proc <- MCProc
  Chan <- MCChan
  None = None
  FD = FALSE
  Kinds = {"plain", "brs"}
  RxCap = 1
  SubCap = 1
  ErrorCap = 1
  MaxCalls <- Calls40
  MaxFrames = 0
INVARIANT ReopenSucceeds
CHECK_DEADLOCK FALSE
