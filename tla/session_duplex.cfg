\* Both ends send; timers may fire at any moment; one end may be closed.
SPECIFICATION Spec
CONSTANTS
  Node <- MCNode
  Peer <- MCPeer
  Msg <- DuplexMsg
  Size <- DuplexSize
  Source <- DuplexSource
  NoMsg = NoMsg
  Mixed = Mixed
  FrameLen = 8
  SeqMod = 16
  Padded = TRUE
  BlockSize <- BS21
  MaxPayloadSize <- Max30
  MaxWaitFrames <- Wait1
  ManualFlowControl <- ManualFC
  TxDataCap = 1
  RxDataCap = 1
  ErrorCap = 0
  TxCap = 2
  SubCap = 2
  InboxCap = 3
  Patient = FALSE
  CloseNodes = {"b"}
  TxIDs = {}
  MaxLoss = 0
  InjectFrames <- Noise
  MaxInject = 2
INVARIANTS TypeOK TimerDiscipline SenderProgress IntactDelivery
PROPERTY ImplementsChannel
CHECK_DEADLOCK FALSE
