SPECIFICATION Spec
CONSTANTS
  Key <- MCKey
  Occupied <- MCOccupied
  Measured <- MCMeasured
  Slots = 2
  SlotLen = 2
  PendingTTL = 1
  EchoTTL = 4
  MaxPending = 1
  Wrap = 20
  Offset = 17
  Stamping = {TRUE, FALSE}
  MaxDelay = 1
  MaxTx = 2
  MaxRx = 1
  MaxTime = 8
INVARIANTS TypeOK CountedOnce SlotsConsistent LogElapsed
CHECK_DEADLOCK FALSE
