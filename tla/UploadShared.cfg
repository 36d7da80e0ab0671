SPECIFICATION Spec
CONSTANTS
  N = 3
  Peers = {1, 2}
  Offsets = {c0}
  c0 = c0
  Ssthresh0 = 2
  LateWindows = {}
  Garbage <- MCGarbage
  NoUpload = NoUpload
  MaxWindow = 2
INVARIANT UnackedIsTracked
CHECK_DEADLOCK FALSE
