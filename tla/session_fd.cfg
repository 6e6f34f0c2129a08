\* CAN FD, a message long enough for the sequence number to wrap, nothing lost.
SPECIFICATION FairSpec
CONSTANTS
  Node <- MCNode
  Peer <- MCPeer
  Msg <- FDMsg
  Size <- FDSize
  Source <- FDSource
  NoMsg = NoMsg
  Mixed = Mixed
  FrameLen = 64
  SeqMod = 16
  Padded = FALSE
  BlockSize <- BS34
  MaxPayloadSize <- MaxFD
  MaxWaitFrames <- Wait1
  ManualFlowControl <- AutoFC
  TxDataCap = 1
  RxDataCap = 2
  ErrorCap = 1
  TxCap = 2
  SubCap = 2
  InboxCap = 2
  Patient = TRUE
  CloseNodes = {}
  TxIDs = {}
  MaxLoss = 0
  InjectFrames = {}
  MaxInject = 0
INVARIANTS NoMutualWait FlowControlCredit
PROPERTIES EventuallyDelivered
CHECK_DEADLOCK FALSE
