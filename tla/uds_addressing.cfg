\* A payload still queued when the next call selects its address.
SPECIFICATION Spec
CONSTANTS
  Req <- MCReq
  Sid <- MCSid
  Mode <- MCMode
  Suppress <- MCSuppress
  SID <- MCSID
  None = None
  MaxRetries = 1
  MaxResponsePending = 1
  TxDataCap = 1
  RxDataCap = 1
  MaxUnsolicited = 0
INVARIANTS RegularRequestsPhysical
CHECK_DEADLOCK FALSE
