------------------------------- MODULE Router -------------------------------
(***************************************************************************)
(* The peers on the emulated network: spiffy.c wraps every packet of a     *)
(* peer in a header and hands it to hupsim.pl, which carries it from       *)
(* router to router along links of limited bandwidth with drop-tail queues *)
(* and delivers it to the peer at the end.  There spiffy_recvfrom unwraps  *)
(* it and process_inbound_udp looks its sender up in the peer list.        *)
(*                                                                         *)
(* The links are the two directions of the lines of topo.map.  Time is in  *)
(* units in which rates are whole numbers of bytes; departure times are    *)
(* kept multiplied by the rate of their link.                              *)
(***************************************************************************)
EXTENDS Integers, Sequences, FiniteSets

CONSTANTS
  Nodes,        \* the routers of topo.map
  Topologies,   \* sets of links <<from, to>> topo.map may describe
  Rate,         \* Rate[l]: bytes per unit of time on link l
  Latency,      \* Latency[l]
  QueueMax,     \* QueueMax[l]: packets its queue holds
  PeerList,     \* the peer list of the peers: lines [id, ip, port]
  NodesMap,     \* the simulator's nodes.map, lines of the same form
  Any, Loopback,\* the addresses 0.0.0.0 and 127.0.0.1
  NoPeer,       \* target_id -1
  Flows,        \* <<from, to>>: which peers talk to which
  Lengths,      \* lengths of packets, the spiffy header included
  Lag,          \* bound: how late the simulator may be
  MaxPackets,   \* bound: packets sent
  SendBy        \* bound: time of the last send

IdsOf(list) == {list[i].id : i \in DOMAIN list}

PeerLines == [id : Nodes, ip : STRING, port : Nat]

(***************************************************************************)
(* topo.map describes a connected network: createTable does not return     *)
(* otherwise.  A router without a line in nodes.map is allowed, a line     *)
(* without a router is not: a packet for it ends the simulator.            *)
(***************************************************************************)
Sphere(links, S) == S \cup {l[2] : l \in {k \in links : k[1] \in S}}

Ball(links, a) ==
  LET B[n \in 0..Cardinality(Nodes)] == IF n = 0 THEN {a} ELSE Sphere(links, B[n - 1])
  IN  B

ASSUME RouterAssumption ==
  /\ Nodes \subseteq Nat /\ IsFiniteSet(Nodes)
  /\ \A links \in Topologies :
       /\ links \subseteq Nodes \X Nodes
       /\ \A l \in links : l[1] # l[2] /\ <<l[2], l[1]>> \in links
  /\ Rate \in [Nodes \X Nodes -> Nat \ {0}]
  /\ Latency \in [Nodes \X Nodes -> Nat]
  /\ QueueMax \in [Nodes \X Nodes -> Nat]
  /\ Lengths \subseteq Nat \ {0}
  /\ Lag \in Nat /\ MaxPackets \in Nat /\ SendBy \in Nat

ASSUME MapsAssumption ==
  /\ \A links \in Topologies : \A a \in Nodes : Ball(links, a)[Cardinality(Nodes)] = Nodes
  /\ PeerList \in Seq(PeerLines) /\ NodesMap \in Seq(PeerLines)
  /\ Flows \subseteq IdsOf(PeerList) \X IdsOf(PeerList) /\ \A f \in Flows : f[1] # f[2]

VARIABLES
  links,        \* the links there are
  table,        \* table[n][d]: first router on the way from n to d
  link,         \* link[l]: the NSQueue of l
  now,          \* the time
  count,        \* packets sent so far
  inbox,        \* inbox[p]: what process_inbound_udp of peer p got, in order
  dropped,      \* numbers of the packets counted as dropped at a full queue
  strays        \* history: numbers of the packets no line of nodes.map was for

vars == <<links, table, link, now, count, inbox, dropped, strays>>

-----------------------------------------------------------------------------
(***************************************************************************)
(* The peer list.  bt_parse_peer_list puts each line in front of those     *)
(* before it, so a look-up finds the last line that fits.                  *)
(***************************************************************************)
Last(lines) == {i \in lines : \A j \in lines : j <= i}

PeerInfo(id) ==
  PeerList[CHOOSE i \in Last({j \in DOMAIN PeerList : PeerList[j].id = id}) : TRUE]

Locate(list, ip, port) ==
  LET fits == {j \in DOMAIN list : list[j].ip = ip /\ list[j].port = port} IN
  IF fits = {} THEN NoPeer ELSE list[CHOOSE i \in Last(fits) : TRUE].id

(***************************************************************************)
(* The search for target_id in process_inbound_udp.                        *)
(***************************************************************************)
TargetId(pkt) == Locate(PeerList, pkt.srcIp, pkt.srcPort)

(***************************************************************************)
(* spiffy_init gets the address the socket is bound to, INADDR_ANY and the *)
(* port of the peer's own line; spiffy_sendto writes it in each header.    *)
(***************************************************************************)
SpiffyInit(a) == [ip |-> Any, port |-> PeerInfo(a).port]

Packet(num, a, b, len) ==
  [num     |-> num,
   id      |-> a,
   srcIp   |-> SpiffyInit(a).ip,
   srcPort |-> SpiffyInit(a).port,
   dstIp   |-> PeerInfo(b).ip,
   dstPort |-> PeerInfo(b).port,
   len     |-> len]

(***************************************************************************)
(* The router a packet is for: the nodes hash of hupsim.pl, where a later  *)
(* line replaces an earlier one and 0.0.0.0 stands for 127.0.0.1.          *)
(***************************************************************************)
Dest(pkt) ==
  Locate(NodesMap, IF pkt.dstIp = Any THEN Loopback ELSE pkt.dstIp, pkt.dstPort)

-----------------------------------------------------------------------------
(***************************************************************************)
(* createTable at router s.  Visit: the vertex of least distance not yet   *)
(* done, the first of them in the array.  A vertex keeps its predecessor   *)
(* until one is found that is nearer; in a connected network every vertex  *)
(* but s gets one, so what an earlier call left there does not matter.     *)
(***************************************************************************)
INFINITY == 65535

(* The simulator's own remark: it must be more than the routers there are. *)
ASSUME SizeAssumption == Cardinality(Nodes) < INFINITY

(* Mutant: the first vertex not yet done, whatever its distance. *)
VisitFirst(t) ==
  CHOOSE v \in Nodes \ t.done : \A w \in Nodes \ t.done : v <= w

Visit(t) ==
  CHOOSE v \in Nodes \ t.done :
    \A w \in Nodes \ t.done :
      t.distance[v] < t.distance[w] \/ (t.distance[v] = t.distance[w] /\ v <= w)

Relax(ls, t, next) ==
  LET nearer == {w \in Nodes : <<next, w>> \in ls /\ t.distance[w] > t.distance[next] + 1} IN
  [done        |-> t.done \cup {next},
   distance    |-> [w \in Nodes |-> IF w \in nearer THEN t.distance[next] + 1
                                    ELSE t.distance[w]],
   predecessor |-> [w \in Nodes |-> IF w \in nearer THEN next ELSE t.predecessor[w]]]

Dijkstra(ls, s) ==
  LET T[n \in 0..Cardinality(Nodes)] ==
        IF n = 0
        THEN [done        |-> {},
              distance    |-> [v \in Nodes |-> IF v = s THEN 0 ELSE INFINITY],
              predecessor |-> [v \in Nodes |-> v]]
        ELSE Relax(ls, T[n - 1], Visit(T[n - 1]))
  IN  T[Cardinality(Nodes)]

(***************************************************************************)
(* The walk back along the predecessors from d, to the one whose own is s. *)
(***************************************************************************)
StartRoute(pred, s, d) ==
  LET W[n \in 0..Cardinality(Nodes)] ==
        IF n = 0 THEN d ELSE IF pred[W[n - 1]] = s THEN W[n - 1] ELSE pred[W[n - 1]]
  IN  W[Cardinality(Nodes)]

CreateTable(ls, s) ==
  LET pred == Dijkstra(ls, s).predecessor IN
  [d \in Nodes \ {s} |-> StartRoute(pred, s, d)]

-----------------------------------------------------------------------------
(***************************************************************************)
(* NSQueue: the queue of a link with the bytes waiting in it.  tx is the   *)
(* packet's departure time multiplied by the rate; upto and sent are       *)
(* history: the bytes accepted up to the packet, the bytes gone.           *)
(***************************************************************************)
NewQueue == [queue |-> << >>, size |-> 0, sent |-> 0]

(* Mutant: the bytes waiting are not counted. *)
TxTimeAlone(l, q, pkt, t) == Rate[l] * (Latency[l] + t) + pkt.len

TxTime(l, q, pkt, t) ==
  Rate[l] * (Latency[l] + t) + pkt.len + (IF q.queue = << >> THEN 0 ELSE q.size)

IsFull(l, q) == Len(q.queue) >= QueueMax[l]

(* Mutant: a packet goes to the front. *)
EnQFront(l, q, pkt, t) ==
  [q EXCEPT !.queue = <<[pkt |-> pkt, tx |-> TxTime(l, q, pkt, t),
                         upto |-> q.sent + q.size + pkt.len]>> \o @,
            !.size = @ + pkt.len]

EnQ(l, q, pkt, t) ==
  [q EXCEPT !.queue = Append(@, [pkt |-> pkt, tx |-> TxTime(l, q, pkt, t),
                                 upto |-> q.sent + q.size + pkt.len]),
            !.size = @ + pkt.len]

(* Mutant: a header is taken off that was never added. *)
DeQHeader(q) ==
  [queue |-> Tail(q.queue),
   size  |-> q.size - Head(q.queue).pkt.len - 1,
   sent  |-> q.sent + Head(q.queue).pkt.len]

(* Mutant: pop for shift, so the head stays and the last one is lost. *)
DeQLast(q) ==
  [queue |-> SubSeq(q.queue, 1, Len(q.queue) - 1),
   size  |-> q.size - q.queue[Len(q.queue)].pkt.len,
   sent  |-> q.sent + Head(q.queue).pkt.len]

DeQ(q) ==
  [queue |-> Tail(q.queue),
   size  |-> q.size - Head(q.queue).pkt.len,
   sent  |-> q.sent + Head(q.queue).pkt.len]

(***************************************************************************)
(* NSRouter::recv at router n, the links being in state ls: a packet for   *)
(* the peer of n is delivered, others go on the queue towards it.  At the  *)
(* peer spiffy_recvfrom reports the source in the header.  Only enQ counts *)
(* what it drops: a packet without a destination vanishes.                 *)
(***************************************************************************)
Discard(pkt, ls) ==
  /\ strays' = strays \cup {pkt.num}
  /\ link' = ls
  /\ UNCHANGED <<inbox, dropped>>

Drop(pkt, ls) ==
  /\ dropped' = dropped \cup {pkt.num}
  /\ link' = ls
  /\ UNCHANGED <<inbox, strays>>

Deliver(n, pkt, ls) ==
  /\ inbox' = [inbox EXCEPT ![n] =
                 Append(@, [pkt |-> pkt, from |-> TargetId(pkt)])]
  /\ link' = ls
  /\ UNCHANGED <<dropped, strays>>

Forward(l, pkt, ls) ==
  \/ IsFull(l, ls[l]) /\ Drop(pkt, ls)
  \/ /\ ~IsFull(l, ls[l])
     /\ link' = [ls EXCEPT ![l] = EnQ(l, @, pkt, now)]
     /\ UNCHANGED <<inbox, dropped, strays>>

Recv(n, pkt, ls) ==
  \/ Dest(pkt) = NoPeer /\ Discard(pkt, ls)
  \/ Dest(pkt) = n /\ Deliver(n, pkt, ls)
  \/ /\ Dest(pkt) \in Nodes \ {n}
     /\ <<n, table[n][Dest(pkt)]>> \in links
     /\ Forward(<<n, table[n][Dest(pkt)]>>, pkt, ls)

-----------------------------------------------------------------------------
Init ==
  /\ links \in Topologies
  /\ table = [s \in Nodes |-> CreateTable(links, s)]
  /\ link = [l \in links |-> NewQueue]
  /\ now = 0
  /\ count = 0
  /\ inbox = [n \in IdsOf(NodesMap) |-> << >>]
  /\ dropped = {}
  /\ strays = {}

(***************************************************************************)
(* spiffy_sendto at peer a, and the main loop of hupsim.pl that inserts    *)
(* the packet at the router its header names.                              *)
(***************************************************************************)
Send(a, b, len) ==
  /\ count < MaxPackets /\ now <= SendBy
  /\ count' = count + 1
  /\ Recv(a, Packet(count', a, b, len), link)
  /\ UNCHANGED <<links, table, now>>

(***************************************************************************)
(* NSRouter::run finds the head of link l due and passes it on.            *)
(***************************************************************************)
Due(l) == link[l].queue # << >> /\ Head(link[l].queue).tx <= Rate[l] * now

Run(l) ==
  /\ Due(l)
  /\ Recv(l[2], Head(link[l].queue).pkt, [link EXCEPT ![l] = DeQ(@)])
  /\ UNCHANGED <<links, table, now, count>>

(***************************************************************************)
(* Time passes while anything is to come.  The main loop runs the routers  *)
(* until no packet is due and sleeps no longer than to the next departure. *)
(***************************************************************************)
Tick ==
  /\ (count < MaxPackets /\ now <= SendBy) \/ \E l \in links : link[l].queue # << >>
  /\ \A l \in links : link[l].queue # << >> =>
       Rate[l] * now < Head(link[l].queue).tx + Rate[l] * Lag
  /\ now' = now + 1
  /\ UNCHANGED <<links, table, link, count, inbox, dropped, strays>>

Next ==
  \/ \E f \in Flows, len \in Lengths : Send(f[1], f[2], len)
  \/ \E l \in links : Run(l)
  \/ Tick

Spec == Init /\ [][Next]_vars

(***************************************************************************)
(* Time goes on and run visits every queue in each turn of the main loop.  *)
(***************************************************************************)
FairSpec ==
  Spec /\ WF_vars(Tick) /\ \A l \in Nodes \X Nodes : WF_vars(l \in links /\ Run(l))

-----------------------------------------------------------------------------
Ports == {PeerInfo(a).port : a \in IdsOf(PeerList)}
Ips   == {PeerInfo(a).ip : a \in IdsOf(PeerList)}

Packets ==
  [num : Nat, id : IdsOf(PeerList), srcIp : {Any}, srcPort : Ports, dstIp : Ips, dstPort : Ports,
   len : Lengths]

Queues ==
  [queue : Seq([pkt : Packets, tx : Nat, upto : Nat]), size : Nat, sent : Nat]

TypeOK ==
  /\ links \subseteq Nodes \X Nodes
  /\ \A s \in Nodes : table[s] \in [Nodes \ {s} -> Nodes]
  /\ link \in [links -> Queues]
  /\ now \in Nat
  /\ count \in 0..MaxPackets
  /\ inbox \in [IdsOf(NodesMap) -> Seq([pkt : Packets, from : Nodes \cup {NoPeer}])]
  /\ dropped \subseteq 1..MaxPackets
  /\ strays \subseteq 1..MaxPackets

(***************************************************************************)
(* createTable finds shortest ways: whoever is n + 1 hops from a router    *)
(* is n hops from the neighbour its table names.  (links and table are set *)
(* up once, before the first packet.)                                      *)
(***************************************************************************)
RoutesShortest ==
  count = 0 => \A s \in Nodes : \A d \in Nodes \ {s} :
    /\ <<s, table[s][d]>> \in links
    /\ \A n \in 0..(Cardinality(Nodes) - 1) :
         d \in Ball(links, s)[n + 1] => d \in Ball(links, table[s][d])[n]

(***************************************************************************)
(* A link never carries more than its bandwidth from the start on, however *)
(* packets of different lengths come and go and however late run is.       *)
(***************************************************************************)
BandwidthKept == \A l \in links : link[l].sent <= Rate[l] * now

(***************************************************************************)
(* Packets of one peer to another never overtake each other.               *)
(***************************************************************************)
InOrder ==
  \A p \in DOMAIN inbox : \A i, j \in DOMAIN inbox[p] :
    i < j /\ inbox[p][i].pkt.id = inbox[p][j].pkt.id =>
      inbox[p][i].pkt.num < inbox[p][j].pkt.num

(***************************************************************************)
(* Every packet for a peer of the simulator arrives at a peer or is        *)
(* counted as dropped at a full queue: none is lost between the queues of  *)
(* its way, waits in one for ever or goes round.  (recv takes a packet     *)
(* for nobody off at once.)                                                *)
(***************************************************************************)
Arrived(k) == \E p \in DOMAIN inbox : \E i \in DOMAIN inbox[p] : inbox[p][i].pkt.num = k

Arrives == \A k \in 1..MaxPackets : count >= k /\ k \notin strays ~> Arrived(k) \/ k \in dropped

(***************************************************************************)
(* A peer on the emulated network knows who sent a packet it gets, so that *)
(* it is handled as it is without the emulation.                           *)
(***************************************************************************)
Heard == \A p \in DOMAIN inbox : \A i \in DOMAIN inbox[p] : inbox[p][i].from = inbox[p][i].pkt.id
=============================================================================
