\* One end sends over a bus that loses frames; timers outlast what is in flight.
SPECIFICATION FairSpec
CONSTANTS
  Node <- MCNode
  Peer <- MCPeer
  Msg <- LossyMsg
  Size <- LossySize
  Source <- LossySource
  NoMsg = NoMsg
  Mixed = Mixed
  FrameLen = 8
  SeqMod = 16
  Padded = TRUE
  BlockSize <- BS12
  MaxPayloadSize <- Max3430
  MaxWaitFrames <- Wait1
  ManualFlowControl <- AutoFC
  TxDataCap = 1
  RxDataCap = 1
  ErrorCap = 1
  TxCap = 2
  SubCap = 1
  InboxCap = 2
  Patient = TRUE
  CloseNodes = {}
  TxIDs = {"other"}
  MaxLoss = 1
  InjectFrames <- Waits
  MaxInject = 1
INVARIANTS ReassemblyBounded
PROPERTIES SenderReturns ResolvesPayloads
CHECK_DEADLOCK FALSE
