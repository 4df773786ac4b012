INIT Init
NEXT Next
CONSTANTS
  i1 = i1
  i2 = i2
  h1 = h1
  h2 = h2
  NoIrp = NoIrp
  NoHandle = NoHandle
  Irps <- MCIrps
  Handles <- MCHandles
  Kinds <- AllKinds
  Sent <- Ops
INVARIANTS
  TypeOK
  OwnedOnce
  NoRequestLost
  RequestHoldsFile
  NoLostWakeup
  NothingOutlivesDevice
CHECK_DEADLOCK FALSE
SYMMETRY Symmetry
