SPECIFICATION FairSpec
CONSTANTS
  c0 = c0
  c1 = c1
  c2 = c2
  N = 2
  Peers = {1, 2, 3}
  Offsets <- MCOffsets3
  Ssthresh0 = 2
  LateWindows = {}
  Garbage <- Fresh
  NoData = NoData
  NoFile = NoFile
  NoUpload = NoUpload
  Jobs <- MCJobs
  Malformed = {}
  MaxBuffers = 4
  MaxJobs = 1
  Me = 3
  HasChunks <- Disjoint
  MaxHashes = 3
  NulHash = {c2}
  Mortal = {}
  Lossy = {"WHOHAS", "IHAVE", "DATA", "ACK"}
  MaxLoss = 1
INVARIANTS OutputRight TimersLive
PROPERTY Completes
CHECK_DEADLOCK FALSE
