SPECIFICATION Spec
CONSTANTS
  c0 = c0
  c1 = c1
  N = 2
  Peers = {1, 2}
  Offsets <- MCOffsets
  NoData = NoData
  NoFile = NoFile
  MaxHashes = 2
  Jobs <- MCJobs
  Malformed = {1, 2}
  MaxBuffers = 3
  MaxJobs = 2
INVARIANTS TypeOK BusyUnique BusyIsNewest OutputComplete ChunksAskedFor
PROPERTIES StoredIsKept
CHECK_DEADLOCK FALSE
