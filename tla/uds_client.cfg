\* Deadlines may pass at any moment; the ECU promises nothing.  Every call returns.
SPECIFICATION FairSpec
CONSTANTS
  Req <- MCReq
  Sid <- MCSid
  Mode <- MCMode
  Suppress <- MCSuppress
  SID <- MCSID
  None = None
  MaxRetries = 1
  MaxResponsePending = 1
  TxDataCap = 1
  RxDataCap = 1
  MaxUnsolicited = 1
INVARIANTS TypeOK FreshAnswer RetriesJustified AddressInForce
PROPERTY CallsReturn
CHECK_DEADLOCK FALSE
