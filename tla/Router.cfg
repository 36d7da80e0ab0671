SPECIFICATION FairSpec
CONSTANTS
  Nodes <- MCNodes
  Topologies <- MCTopologies
  Rate <- MCRate
  Latency <- MCLatency
  QueueMax <- MCQueueMax
  PeerList <- MCPeerList
  NodesMap <- MCNodesMap
  Any = "0.0.0.0"
  Loopback = "127.0.0.1"
  NoPeer = NoPeer
  Flows <- MCFlows
  Lengths = {1, 3}
  Lag = 1
  MaxPackets = 3
  SendBy = 0
INVARIANTS TypeOK RoutesShortest BandwidthKept InOrder
PROPERTY Arrives
CHECK_DEADLOCK FALSE
