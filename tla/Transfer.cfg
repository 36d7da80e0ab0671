SPECIFICATION FairSpec
CONSTANTS
  N = 3
  Peers = {1}
  Offsets = {c0}
  c0 = c0
  NoData = NoData
  Receiver = 1
  Chunk = c0
  Ssthresh0 = 1
  LateWindows = {}
  Garbage <- MCGarbage
  MaxDup = 1
  MaxGets = 1
INVARIANTS TypeOK AckHonest AckedIsReceived UnackedIsTracked WindowShape
PROPERTIES NeverFarAhead ImplementsDelivery EventuallyComplete
CHECK_DEADLOCK FALSE
