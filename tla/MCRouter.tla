------------------------------ MODULE MCRouter ------------------------------
(***************************************************************************)
(* All connected networks of four routers with rates that differ by link.  *)
(* Peer 4 is in the peers' list and not in the simulator's nodes.map.      *)
(***************************************************************************)
EXTENDS Router

MCNodes == 1..4
Pairs == {l \in MCNodes \X MCNodes : l[1] # l[2]}
Lines == {l \in Pairs : l[1] < l[2]}
BothWays(ls) == ls \cup {<<l[2], l[1]>> : l \in ls}
MCTopologies ==
  {ls \in {BothWays(s) : s \in SUBSET Lines} :
     \A a \in MCNodes : Ball(ls, a)[Cardinality(MCNodes)] = MCNodes}
Chain == {BothWays({<<1, 2>>, <<2, 4>>, <<4, 3>>})}
MCRate == [l \in MCNodes \X MCNodes |-> IF l[1] = 4 THEN 2 ELSE 1]
MCLatency == [l \in MCNodes \X MCNodes |-> IF l[2] = 4 THEN 1 ELSE 0]
MCQueueMax == [l \in MCNodes \X MCNodes |-> 2]
MCPeerList == [i \in 1..4 |-> [id |-> i, ip |-> "127.0.0.1", port |-> 48000 + i]]
MCNodesMap == SubSeq(MCPeerList, 1, 3)
MCFlows == {<<1, 3>>, <<2, 3>>, <<1, 4>>}
=============================================================================
