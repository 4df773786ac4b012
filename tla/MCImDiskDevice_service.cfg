SPECIFICATION Spec
CONSTANTS
  i1 = i1
  i2 = i2
  h1 = h1
  h2 = h2
  NoIrp = NoIrp
  NoHandle = NoHandle
  Irps <- MCIrps
  Handles <- MCOneHandle
  Kinds <- MCLiveKinds
  Sent <- MCLiveOps
PROPERTIES
  ServiceSpec
  EveryRequestCompletes
  RemovedDiskIsDeleted
CHECK_DEADLOCK FALSE
