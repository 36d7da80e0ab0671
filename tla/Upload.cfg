SPECIFICATION Spec
CONSTANTS
  N = 2
  Peers = {1, 2}
  Offsets = {c0, c1}
  c0 = c0
  c1 = c1
  Ssthresh0 = 2
  LateWindows = {}
  Garbage <- MCGarbage
  NoUpload = NoUpload
  MaxWindow = 2
SYMMETRY MCSymmetry
INVARIANTS TypeOK WindowsInShape SlowStartBounded OneTimerPerPacket
PROPERTIES TimerUntilAcked
CHECK_DEADLOCK FALSE
