SPECIFICATION SwarmSpec
CONSTANTS
  c0 = c0
  c1 = c1
  c2 = c2
  N = 2
  Peers = {1, 2, 3}
  Offsets <- MCOffsets
  Ssthresh0 = 2
  LateWindows = {}
  Garbage <- Fresh
  NoData = NoData
  NoFile = NoFile
  NoUpload = NoUpload
  Jobs <- MCJobs
  Malformed = {}
  MaxBuffers = 4
  MaxJobs = 1
  Me = 3
  HasChunks <- Single
  MaxHashes = 2
  NulHash = {}
  Mortal = {}
  Lossy = {"GET"}
  MaxLoss = 1
INVARIANT ReceivedIsWritten
CHECK_DEADLOCK FALSE
