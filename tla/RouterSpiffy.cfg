SPECIFICATION Spec
CONSTANTS
  Nodes <- MCNodes
  Topologies <- Chain
  Rate <- MCRate
  Latency <- MCLatency
  QueueMax <- MCQueueMax
  PeerList <- MCPeerList
  NodesMap <- MCNodesMap
  Any = "0.0.0.0"
  Loopback = "127.0.0.1"
  NoPeer = NoPeer
  Flows <- MCFlows
  Lengths = {1, 3}
  Lag = 1
  MaxPackets = 1
  SendBy = 0
INVARIANT Heard
CHECK_DEADLOCK FALSE
