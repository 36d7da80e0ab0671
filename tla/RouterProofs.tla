---------------------------- MODULE RouterProofs ----------------------------
(***************************************************************************)
(* The simulator for every topology, rate, latency and queue length, and   *)
(* all traffic: links keep to their bandwidth, routes are shortest,        *)
(* packets of a flow arrive in order.                                      *)
(*                                                                         *)
(* Bandwidth.  That the bytes gone from a link never exceed rate times     *)
(* time rests on the departure times in its queue.  Good says that no      *)
(* packet may depart before the link could have carried all bytes accepted *)
(* up to it, and that size, from which the next departure time is          *)
(* computed, is what is accepted and not gone.                             *)
(*                                                                         *)
(* Routes.  The rounds of Dijkstra and the walk along the predecessors are *)
(* counted by numbers; each is an induction over the set of numbers of     *)
(* rounds after which its invariant holds.                                 *)
(*                                                                         *)
(* Order.  Every packet of a flow is on the same way through the tables,   *)
(* so of two of them the later one is never on a link nearer the end, nor  *)
(* before the other in one queue.                                          *)
(***************************************************************************)
EXTENDS Router, FiniteSetTheorems, WellFoundedInduction, TLAPS

Pairs == Nodes \X Nodes

Good(l, q, t) ==
  /\ q \in Queues
  /\ q.sent <= Rate[l] * t
  /\ q.queue = << >> => q.size = 0
  /\ q.queue # << >> => /\ q.queue[1].upto = q.sent + q.queue[1].pkt.len
                        /\ q.size = q.queue[Len(q.queue)].upto - q.sent
  /\ \A k \in 1..(Len(q.queue) - 1) :
       q.queue[k + 1].upto = q.queue[k].upto + q.queue[k + 1].pkt.len
  /\ \A i, j \in 1..Len(q.queue) : i < j => q.queue[i].upto <= q.queue[j].upto
  /\ \A k \in 1..Len(q.queue) : q.queue[k].upto <= q.queue[k].tx

BInv ==
  /\ links \in Topologies
  /\ now \in Nat /\ count \in Nat
  /\ link \in [links -> Queues]
  /\ \A l \in links : Good(l, link[l], now)

Entries == [pkt : Packets, tx : Nat, upto : Nat]

LEMMA RateTimes ==
  ASSUME NEW r \in Nat, NEW a \in Nat, NEW b \in Nat
  PROVE  r * (a + b) \in Nat /\ r * b \in Nat /\ r * b <= r * (a + b)
<1>1. r * a \in Nat /\ r * b \in Nat
  OBVIOUS
<1>2. r * (a + b) = r * a + r * b
  OBVIOUS
<1> QED  BY <1>1, <1>2

LEMMA LinkPairs ==
  ASSUME NEW ls \in Topologies, NEW l \in ls
  PROVE  /\ l \in Pairs /\ l[1] # l[2]
         /\ Rate[l] \in Nat /\ Latency[l] \in Nat
BY RouterAssumption DEF Pairs

LEMMA PacketLen ==
  ASSUME NEW p \in Packets
  PROVE  p.len \in Nat
BY RouterAssumption DEF Packets

(***************************************************************************)
(* A queue that is good stays so when a packet is put at its end.          *)
(***************************************************************************)
LEMMA EnQGood ==
  ASSUME NEW l \in Pairs, NEW t \in Nat, NEW pkt \in Packets, NEW q, Good(l, q, t)
  PROVE  Good(l, EnQ(l, q, pkt, t), t)
<1> DEFINE len == pkt.len
           tx == TxTime(l, q, pkt, t)
           e == [pkt |-> pkt, tx |-> tx, upto |-> q.sent + q.size + len]
           new == EnQ(l, q, pkt, t)
           n == Len(q.queue)
<1>1. len \in Nat
  BY PacketLen
<1>2. q \in Queues /\ q.queue \in Seq(Entries) /\ q.size \in Nat /\ q.sent \in Nat /\ n \in Nat
  BY DEF Good, Queues, Entries
<1>3. Rate[l] * (Latency[l] + t) \in Nat /\ Rate[l] * t <= Rate[l] * (Latency[l] + t)
  <2>1. Rate[l] \in Nat /\ Latency[l] \in Nat
    BY RouterAssumption DEF Pairs
  <2> QED  BY <2>1, RateTimes
<1>4. tx \in Nat /\ q.sent + q.size + len <= tx
  <2>1. tx = Rate[l] * (Latency[l] + t) + len + (IF q.queue = << >> THEN 0 ELSE q.size)
    BY DEF TxTime
  <2>2. q.sent <= Rate[l] * t /\ (q.queue = << >> => q.size = 0)
    BY DEF Good
  <2>3. Rate[l] * t \in Nat
    BY RouterAssumption, RateTimes DEF Pairs
  <2> DEFINE early == Rate[l] * t
             late == Rate[l] * (Latency[l] + t)
             wait == IF q.queue = << >> THEN 0 ELSE q.size
  <2>4. wait \in Nat /\ q.size = wait
    BY <1>2, <2>2
  <2>5. tx = late + len + wait /\ q.sent <= early /\ early <= late /\ early \in Nat /\ late \in Nat
    BY <1>3, <2>1, <2>2, <2>3
  <2> HIDE DEF early, late, wait, len, tx
  <2> QED  BY <1>1, <1>2, <2>4, <2>5
<1> HIDE DEF tx, len
<1>5. e \in Entries
  BY <1>1, <1>2, <1>4 DEF Entries
<1>6. /\ new.queue = Append(q.queue, e)
      /\ new.size = q.size + len
      /\ new.sent = q.sent
      /\ new \in Queues
  <2>1. new = [q EXCEPT !.queue = Append(q.queue, e), !.size = q.size + len]
    BY DEF EnQ, tx, len
  <2>2. q = [queue |-> q.queue, size |-> q.size, sent |-> q.sent]
    BY <1>2 DEF Queues
  <2>3. new = [queue |-> Append(q.queue, e), size |-> q.size + len, sent |-> q.sent]
    BY <2>1, <2>2
  <2>4. Append(q.queue, e) \in Seq(Entries) /\ q.size + len \in Nat
    BY <1>1, <1>2, <1>5
  <2> QED  BY <1>2, <2>3, <2>4 DEF Queues, Entries
<1>7. e.upto = q.sent + q.size + len /\ e.tx = tx /\ e.pkt.len = len
  BY DEF len
<1> HIDE DEF e, new
<1>8. /\ Len(new.queue) = n + 1 /\ new.queue[n + 1] = e
      /\ \A k \in 1..n : new.queue[k] = q.queue[k]
      /\ new.queue # << >>
  BY <1>2, <1>5, <1>6
<1>9. \A k \in 1..n : q.queue[k].upto \in Nat /\ q.queue[k].pkt.len \in Nat /\ q.queue[k].tx \in Nat
  <2>1. \A x \in Entries : x.upto \in Nat /\ x.pkt \in Packets /\ x.tx \in Nat
    BY DEF Entries
  <2>2. \A k \in 1..n : q.queue[k] \in Entries
    BY <1>2
  <2> QED  BY <2>1, <2>2, PacketLen
<1>10. n > 0 => q.sent + q.size = q.queue[n].upto
  <2> SUFFICES ASSUME n > 0  PROVE q.sent + q.size = q.queue[n].upto
    OBVIOUS
  <2>1. q.queue # << >>
    OBVIOUS
  <2>2. q.size = q.queue[n].upto - q.sent
    BY <2>1 DEF Good
  <2> QED  BY <1>2, <1>9, <2>2
<1>11. n = 0 => q.queue = << >> /\ q.size = 0
  <2>1. n = 0 => q.queue = << >>
    BY <1>2
  <2> QED  BY <2>1 DEF Good
<1> HIDE DEF n
<1>12. /\ new.queue[1].upto = new.sent + new.queue[1].pkt.len
       /\ new.size = new.queue[Len(new.queue)].upto - new.sent
  <2>1. CASE n = 0
    <3>1. q.size = 0 /\ new.queue[1] = e /\ Len(new.queue) = 1 /\ new.queue[Len(new.queue)] = e
      BY <2>1, <1>8, <1>11
    <3> QED  BY <3>1, <1>1, <1>2, <1>6, <1>7
  <2>2. CASE n > 0
    <3>1. q.queue[1].upto = q.sent + q.queue[1].pkt.len
      BY <2>2 DEF Good, n
    <3>2. new.queue[1] = q.queue[1]
      BY <2>2, <1>2, <1>8
    <3> QED  BY <3>1, <3>2, <1>1, <1>2, <1>6, <1>7, <1>8
  <2> QED  BY <2>1, <2>2, <1>2
<1>13. ASSUME NEW k \in 1..(Len(new.queue) - 1)
       PROVE  new.queue[k + 1].upto = new.queue[k].upto + new.queue[k + 1].pkt.len
  <2>1. CASE k = n
    BY <2>1, <1>1, <1>2, <1>7, <1>8, <1>10
  <2>2. CASE k # n
    <3>1. k \in 1..(n - 1) /\ k \in 1..n /\ k + 1 \in 1..n
      BY <2>2, <1>2, <1>8
    <3>2. q.queue[k + 1].upto = q.queue[k].upto + q.queue[k + 1].pkt.len
      BY <3>1 DEF Good, n
    <3> QED  BY <3>1, <3>2, <1>8
  <2> QED  BY <2>1, <2>2
<1>14. ASSUME NEW i \in 1..Len(new.queue), NEW j \in 1..Len(new.queue), i < j
       PROVE  new.queue[i].upto <= new.queue[j].upto
  <2>1. i \in 1..n
    BY <1>2, <1>8, <1>14
  <2>2. CASE j = n + 1
    <3>1. n \in 1..n /\ (i = n \/ i < n)
      BY <2>1, <1>2
    <3>2. i < n => q.queue[i].upto <= q.queue[n].upto
      BY <2>1, <3>1 DEF Good, n
    <3>3. q.queue[i].upto \in Nat /\ q.queue[n].upto \in Nat /\ q.queue[i].upto <= q.queue[n].upto
      BY <2>1, <3>1, <3>2, <1>9
    <3>4. new.queue[i].upto = q.queue[i].upto /\ new.queue[j].upto = q.sent + q.size + len
      BY <2>1, <2>2, <1>7, <1>8
    <3>5. q.sent + q.size = q.queue[n].upto
      BY <2>1, <3>1, <1>2, <1>10
    <3> QED  BY <3>3, <3>4, <3>5, <1>1
  <2>3. CASE j # n + 1
    <3>1. j \in 1..n
      BY <2>3, <1>2, <1>8
    <3>2. q.queue[i].upto <= q.queue[j].upto
      BY <1>14, <2>1, <3>1 DEF Good, n
    <3> QED  BY <2>1, <3>1, <3>2, <1>8
  <2> QED  BY <2>2, <2>3
<1>15. ASSUME NEW k \in 1..Len(new.queue)
       PROVE  new.queue[k].upto <= new.queue[k].tx
  <2>1. CASE k = n + 1
    BY <2>1, <1>4, <1>7, <1>8
  <2>2. CASE k # n + 1
    <3>1. k \in 1..n
      BY <2>2, <1>2, <1>8
    <3>2. q.queue[k].upto <= q.queue[k].tx
      BY <3>1 DEF Good, n
    <3> QED  BY <3>1, <3>2, <1>8
  <2> QED  BY <2>1, <2>2
<1>16. new.sent <= Rate[l] * t
  BY <1>6 DEF Good
<1>17. Good(l, new, t)
  BY <1>6, <1>8, <1>12, <1>13, <1>14, <1>15, <1>16 DEF Good
<1> QED  BY <1>17 DEF new

(***************************************************************************)
(* A queue that is good stays so when its head departs in time.            *)
(***************************************************************************)
LEMMA DeQGood ==
  ASSUME NEW l \in Pairs, NEW t \in Nat, NEW q, Good(l, q, t),
         q.queue # << >>, Head(q.queue).tx <= Rate[l] * t
  PROVE  Good(l, DeQ(q), t)
<1> DEFINE new == DeQ(q)
           n == Len(q.queue)
           h == q.queue[1]
<1>1. q \in Queues /\ q.queue \in Seq(Entries) /\ q.size \in Nat /\ q.sent \in Nat
  BY DEF Good, Queues, Entries
<1>2. n \in Nat /\ n >= 1 /\ Head(q.queue) = h
  BY <1>1
<1>3. \A k \in 1..n : q.queue[k].upto \in Nat /\ q.queue[k].pkt.len \in Nat /\ q.queue[k].tx \in Nat
  <2>1. \A x \in Entries : x.upto \in Nat /\ x.pkt \in Packets /\ x.tx \in Nat
    BY DEF Entries
  <2>2. \A k \in 1..n : q.queue[k] \in Entries
    BY <1>1
  <2> QED  BY <2>1, <2>2, PacketLen
<1>4. /\ new.queue = Tail(q.queue)
      /\ new.size = q.size - h.pkt.len
      /\ new.sent = q.sent + h.pkt.len
  BY <1>2 DEF DeQ
<1>5. /\ Tail(q.queue) \in Seq(Entries)
      /\ Len(new.queue) = n - 1
      /\ \A k \in 1..(n - 1) : new.queue[k] = q.queue[k + 1]
  BY <1>1, <1>2, <1>4
<1>6. h.upto = q.sent + h.pkt.len /\ q.size = q.queue[n].upto - q.sent /\ h.upto <= h.tx
  BY <1>2 DEF Good
<1>7. h.upto \in Nat /\ h.pkt.len \in Nat /\ h.tx \in Nat /\ q.queue[n].upto \in Nat
  BY <1>2, <1>3
<1>8. h.upto <= q.queue[n].upto
  <2>1. CASE n = 1
    BY <2>1, <1>7
  <2>2. CASE n > 1
    <3>1. 1 \in 1..n /\ n \in 1..n /\ 1 < n
      BY <2>2, <1>2
    <3> QED  BY <3>1 DEF Good
  <2>3. n = 1 \/ n > 1
    <3> HIDE DEF n
    <3> QED  BY <1>2
  <2> QED  BY <2>1, <2>2, <2>3
<1>9. new.sent = h.upto /\ new.size = q.queue[n].upto - h.upto /\ new.size \in Nat /\ new.sent \in Nat
  <2> DEFINE u == h.upto
             m == h.pkt.len
             z == q.queue[n].upto
             ss == q.sent
             sz == q.size
             ns == new.size
             nt == new.sent
  <2>1. /\ u \in Nat /\ m \in Nat /\ z \in Nat /\ ss \in Nat
        /\ u = ss + m /\ sz = z - ss /\ u <= z /\ ns = sz - m /\ nt = ss + m
    BY <1>1, <1>4, <1>6, <1>7, <1>8
  <2> HIDE DEF u, m, z, ss, sz, ns, nt
  <2>2. nt = u /\ ns = z - u /\ ns \in Nat /\ nt \in Nat
    BY <2>1
  <2> QED  BY <2>2 DEF u, m, z, ss, sz, ns, nt
<1>10. new \in Queues
  BY <1>4, <1>5, <1>9 DEF DeQ, Queues, Entries
<1>11. new.sent <= Rate[l] * t
  <2>1. Rate[l] * t \in Nat
    BY RouterAssumption, RateTimes DEF Pairs
  <2> QED  BY <1>2, <1>6, <1>7, <1>9, <2>1
<1> HIDE DEF new, n, h
<1>12. new.queue = << >> => new.size = 0
  <2> SUFFICES ASSUME new.queue = << >>  PROVE new.size = 0
    OBVIOUS
  <2>1. n = 1
    BY <1>2, <1>5
  <2> QED  BY <2>1, <1>7, <1>9 DEF h
<1>13. ASSUME new.queue # << >>
       PROVE  /\ new.queue[1].upto = new.sent + new.queue[1].pkt.len
              /\ new.size = new.queue[Len(new.queue)].upto - new.sent
  <2>1. n > 1
    BY <1>13, <1>2, <1>4, <1>5
  <2>2. q.queue[1 + 1].upto = q.queue[1].upto + q.queue[1 + 1].pkt.len
    BY <2>1, <1>2 DEF Good, n
  <2>3. new.queue[1] = q.queue[2] /\ new.queue[n - 1] = q.queue[n]
    BY <2>1, <1>2, <1>5
  <2> QED  BY <2>2, <2>3, <1>5, <1>9 DEF h
<1>14. ASSUME NEW k \in 1..(Len(new.queue) - 1)
       PROVE  new.queue[k + 1].upto = new.queue[k].upto + new.queue[k + 1].pkt.len
  <2>1. k + 1 \in 1..(n - 1) /\ k \in 1..(n - 1)
    BY <1>2, <1>5
  <2>2. q.queue[k + 1 + 1].upto = q.queue[k + 1].upto + q.queue[k + 1 + 1].pkt.len
    BY <2>1 DEF Good, n
  <2> QED  BY <2>1, <2>2, <1>5
<1>15. ASSUME NEW i \in 1..Len(new.queue), NEW j \in 1..Len(new.queue), i < j
       PROVE  new.queue[i].upto <= new.queue[j].upto
  <2>1. i \in 1..(n - 1) /\ j \in 1..(n - 1) /\ i + 1 \in 1..n /\ j + 1 \in 1..n /\ i + 1 < j + 1
    BY <1>2, <1>5, <1>15
  <2>2. q.queue[i + 1].upto <= q.queue[j + 1].upto
    BY <2>1 DEF Good, n
  <2> QED  BY <2>1, <2>2, <1>5
<1>16. ASSUME NEW k \in 1..Len(new.queue)
       PROVE  new.queue[k].upto <= new.queue[k].tx
  <2>1. k \in 1..(n - 1) /\ k + 1 \in 1..n
    BY <1>2, <1>5
  <2>2. q.queue[k + 1].upto <= q.queue[k + 1].tx
    BY <2>1 DEF Good, n
  <2> QED  BY <2>1, <2>2, <1>5
<1>17. Good(l, new, t)
  BY <1>10, <1>11, <1>12, <1>13, <1>14, <1>15, <1>16 DEF Good
<1> QED  BY <1>17 DEF new

(***************************************************************************)
(* Time passing leaves a queue good.                                       *)
(***************************************************************************)
LEMMA TickGood ==
  ASSUME NEW l \in Pairs, NEW t \in Nat, NEW q, Good(l, q, t)
  PROVE  Good(l, q, t + 1)
<1>1. Rate[l] \in Nat
  BY RouterAssumption DEF Pairs
<1>2. Rate[l] * t \in Nat /\ Rate[l] * (t + 1) \in Nat /\ Rate[l] * t <= Rate[l] * (t + 1)
  BY <1>1
<1>3. q.sent \in Nat /\ q.sent <= Rate[l] * t
  BY DEF Good, Queues
<1>4. q.sent <= Rate[l] * (t + 1)
  BY <1>2, <1>3
<1> QED  BY <1>4 DEF Good

LEMMA NewQueueGood ==
  ASSUME NEW l \in Pairs
  PROVE  NewQueue \in Queues /\ Good(l, NewQueue, 0)
<1>1. NewQueue \in Queues
  BY DEF NewQueue, Queues
<1>2. Rate[l] * 0 = 0
  BY RouterAssumption DEF Pairs
<1>3. NewQueue.queue = << >> /\ NewQueue.size = 0 /\ NewQueue.sent = 0 /\ Len(NewQueue.queue) = 0
  BY DEF NewQueue
<1> QED  BY <1>1, <1>2, <1>3 DEF Good

(***************************************************************************)
(* recv leaves all queues good: it touches at most the one it forwards to. *)
(***************************************************************************)
LEMMA RecvGood ==
  ASSUME links \in Topologies, now \in Nat,
         NEW n, NEW pkt \in Packets, NEW ls \in [links -> Queues],
         \A l \in links : Good(l, ls[l], now),
         Recv(n, pkt, ls)
  PROVE  link' \in [links -> Queues] /\ \A l \in links : Good(l, link'[l], now)
<1>1. CASE link' = ls
  BY <1>1
<1>2. CASE \E m \in links : link' = [ls EXCEPT ![m] = EnQ(m, ls[m], pkt, now)]
  <2>1. PICK m \in links : link' = [ls EXCEPT ![m] = EnQ(m, ls[m], pkt, now)]
    BY <1>2
  <2>2. Good(m, EnQ(m, ls[m], pkt, now), now)
    BY LinkPairs, EnQGood
  <2>3. EnQ(m, ls[m], pkt, now) \in Queues
    BY <2>2 DEF Good
  <2> QED  BY <2>1, <2>2, <2>3
<1>3. link' = ls \/ \E m \in links : link' = [ls EXCEPT ![m] = EnQ(m, ls[m], pkt, now)]
  BY DEF Recv, Discard, Drop, Deliver, Forward
<1> QED  BY <1>1, <1>2, <1>3

LEMMA BandwidthInit == Init => BInv
<1> SUFFICES ASSUME Init  PROVE BInv
  OBVIOUS
<1>1. links \in Topologies /\ now = 0 /\ count = 0 /\ link = [l \in links |-> NewQueue]
  BY DEF Init
<1>2. \A l \in links : NewQueue \in Queues /\ Good(l, NewQueue, 0)
  BY <1>1, LinkPairs, NewQueueGood
<1> QED  BY <1>1, <1>2 DEF BInv

LEMMA BandwidthSend ==
  ASSUME BInv, NEW a, NEW b, NEW len \in Lengths, a \in IdsOf(PeerList), b \in IdsOf(PeerList),
         Send(a, b, len)
  PROVE  BInv'
<1>1. Packet(count', a, b, len) \in Packets
  BY DEF BInv, Send, Packet, SpiffyInit, Packets, Ports, Ips
<1>2. link' \in [links -> Queues] /\ \A l \in links : Good(l, link'[l], now)
  BY <1>1, RecvGood DEF BInv, Send
<1> QED  BY <1>2 DEF BInv, Send

LEMMA BandwidthRun ==
  ASSUME BInv, NEW l \in links, Run(l)
  PROVE  BInv'
<1> DEFINE ls == [link EXCEPT ![l] = DeQ(link[l])]
           h == Head(link[l].queue)
<1>1. links \in Topologies /\ now \in Nat /\ link \in [links -> Queues]
      /\ \A m \in links : Good(m, link[m], now)
  BY DEF BInv
<1>2. link[l].queue # << >> /\ h.tx <= Rate[l] * now
  BY DEF Run, Due
<1>3. Good(l, DeQ(link[l]), now)
  BY <1>1, <1>2, LinkPairs, DeQGood
<1>4. DeQ(link[l]) \in Queues
  BY <1>3 DEF Good
<1>5. ls \in [links -> Queues] /\ \A m \in links : Good(m, ls[m], now)
  BY <1>1, <1>3, <1>4
<1>6. h.pkt \in Packets
  <2>1. link[l].queue \in Seq(Entries)
    BY <1>1 DEF Queues, Entries
  <2>2. h \in Entries
    BY <1>2, <2>1
  <2> QED  BY <2>2 DEF Entries
<1>7. Recv(l[2], h.pkt, ls)
  BY DEF Run
<1> HIDE DEF ls, h
<1>8. link' \in [links -> Queues] /\ \A m \in links : Good(m, link'[m], now)
  BY <1>1, <1>5, <1>6, <1>7, RecvGood
<1> QED  BY <1>1, <1>8 DEF BInv, Run

LEMMA BandwidthTick ==
  ASSUME BInv, Tick
  PROVE  BInv'
<1>1. \A l \in links : Good(l, link[l], now + 1)
  BY LinkPairs, TickGood DEF BInv
<1> QED  BY <1>1 DEF BInv, Tick

LEMMA BandwidthNext ==
  ASSUME BInv, [Next]_vars
  PROVE  BInv'
<1>1. CASE \E f \in Flows, len \in Lengths : Send(f[1], f[2], len)
  <2>1. PICK f \in Flows, len \in Lengths : Send(f[1], f[2], len)
    BY <1>1
  <2>2. f[1] \in IdsOf(PeerList) /\ f[2] \in IdsOf(PeerList)
    BY MapsAssumption
  <2> QED  BY <2>1, <2>2, BandwidthSend
<1>2. CASE \E l \in links : Run(l)
  BY <1>2, BandwidthRun
<1>3. CASE Tick
  BY <1>3, BandwidthTick
<1>4. CASE UNCHANGED vars
  BY <1>4 DEF vars, BInv
<1> QED  BY <1>1, <1>2, <1>3, <1>4 DEF Next

(***************************************************************************)
(* No link of the simulator ever carries more bytes than its rate allows   *)
(* from the start on, whatever the network and the traffic, and however    *)
(* late NSRouter::run is.                                                  *)
(***************************************************************************)
THEOREM LinksKeepBandwidth == Spec => []BandwidthKept
<1>1. Init => BInv
  BY BandwidthInit
<1>2. BInv /\ [Next]_vars => BInv'
  BY BandwidthNext
<1>3. BInv => BandwidthKept
  BY DEF BInv, BandwidthKept, Good
<1> QED  BY <1>1, <1>2, <1>3, PTL DEF Spec
-----------------------------------------------------------------------------
(***************************************************************************)
(* Sets of numbers: induction, and functions defined by iteration.         *)
(***************************************************************************)
LEMMA LeastOf ==
  ASSUME NEW S \in SUBSET Nat, S # {}
  PROVE  \E m \in S : \A k \in S : m <= k
<1>1. IsWellFoundedOn(OpToRel(<, Nat), Nat)
  BY NatLessThanWellFounded
<1>2. \E m \in S : \A k \in S : ~(<<k, m>> \in OpToRel(<, Nat))
  <2> HIDE <1>1
  <2> QED  BY <1>1, WFMin, Zenon
<1>3. ASSUME NEW m \in S, NEW k \in S, ~(<<k, m>> \in OpToRel(<, Nat))
      PROVE  m <= k
  <2>1. <<k, m>> \in Nat \X Nat /\ ~(k < m)
    BY <1>3 DEF OpToRel
  <2> QED  BY <2>1
<1> QED  BY <1>2, <1>3

LEMMA InductionUpTo ==
  ASSUME NEW N \in Nat, NEW S, 0 \in S,
         \A n \in 1..N : n - 1 \in S => n \in S
  PROVE  \A n \in 0..N : n \in S
<1> DEFINE U == {n \in 0..N : n \notin S}
<1>1. SUFFICES ASSUME U # {} PROVE FALSE
  OBVIOUS
<1>2. PICK m \in U : \A k \in U : m <= k
  <2>1. U \in SUBSET Nat
    OBVIOUS
  <2> HIDE DEF U
  <2> QED  BY <1>1, <2>1, LeastOf
<1>3. m \in 1..N /\ m - 1 \in 0..N
  BY <1>2
<1>4. m - 1 \in S
  BY <1>2, <1>3
<1> QED  BY <1>2, <1>3, <1>4

CanIterate(D, a, g, N) ==
  \E f \in [0..N -> D] : f[0] = a /\ \A n \in 1..N : f[n] = g[f[n - 1]]

LEMMA IterateExists ==
  ASSUME NEW D, NEW a \in D, NEW g \in [D -> D], NEW N \in Nat
  PROVE  CanIterate(D, a, g, N)
<1> DEFINE Iterates(n, f) == f[0] = a /\ \A i \in 1..n : f[i] = g[f[i - 1]]
           S == {n \in Nat : \E f \in [0..n -> D] : Iterates(n, f)}
<1>1. 0 \in S
  <2> DEFINE f == [i \in 0..0 |-> a]
  <2>1. f \in [0..0 -> D] /\ Iterates(0, f)
    OBVIOUS
  <2> QED  BY <2>1
<1>2. ASSUME NEW n \in 1..N, n - 1 \in S
      PROVE  n \in S
  <2>1. PICK f \in [0..(n - 1) -> D] : Iterates(n - 1, f)
    BY <1>2
  <2> DEFINE h == [i \in 0..n |-> IF i = n THEN g[f[n - 1]] ELSE f[i]]
  <2>2. n - 1 \in 0..(n - 1) /\ 0 \in 0..(n - 1)
    OBVIOUS
  <2>3. h \in [0..n -> D]
    BY <2>2
  <2>4. \A i \in 0..(n - 1) : h[i] = f[i]
    OBVIOUS
  <2>5. h[n] = g[f[n - 1]]
    OBVIOUS
  <2> HIDE DEF h
  <2>6. h[0] = a
    BY <2>1, <2>2, <2>4
  <2>7. ASSUME NEW i \in 1..n PROVE h[i] = g[h[i - 1]]
    <3>1. CASE i = n
      BY <3>1, <2>2, <2>4, <2>5
    <3>2. CASE i # n
      <4>1. i \in 1..(n - 1) /\ i \in 0..(n - 1) /\ i - 1 \in 0..(n - 1)
        BY <3>2
      <4> QED  BY <4>1, <2>1, <2>4
    <3> QED  BY <3>1, <3>2
  <2> QED  BY <2>3, <2>6, <2>7
<1> HIDE DEF S
<1>3. N \in S
  BY <1>1, <1>2, InductionUpTo
<1> QED  BY <1>3 DEF S, CanIterate

-----------------------------------------------------------------------------
(***************************************************************************)
(* The routers within n hops of a.                                         *)
(***************************************************************************)
C == Cardinality(Nodes)

LEMMA SizeNat == C \in Nat
BY RouterAssumption, FS_CardinalityType DEF C

IsBall(ls, a, B) ==
  /\ B \in [0..C -> SUBSET Nodes]
  /\ B[0] = {a}
  /\ \A n \in 1..C : B[n] = Sphere(ls, B[n - 1])

LEMMA BallRec ==
  ASSUME NEW ls \in SUBSET (Nodes \X Nodes), NEW a \in Nodes
  PROVE  IsBall(ls, a, Ball(ls, a))
<1> DEFINE g == [S \in SUBSET Nodes |-> Sphere(ls, S)]
           Unfolds(B) == B = [n \in 0..C |-> IF n = 0 THEN {a} ELSE Sphere(ls, B[n - 1])]
           B == CHOOSE x : Unfolds(x)
<1>1. Ball(ls, a) = B
  BY DEF Ball, C
<1>2. \A S \in SUBSET Nodes : Sphere(ls, S) \in SUBSET Nodes
  BY DEF Sphere
<1>3. \E x : Unfolds(x)
  <2>1. PICK f \in [0..C -> SUBSET Nodes] : f[0] = {a} /\ \A n \in 1..C : f[n] = g[f[n - 1]]
    <3> DEFINE D == SUBSET Nodes
               start == {a}
    <3>1. g \in [D -> D] /\ start \in D
      BY <1>2
    <3> HIDE DEF g, D, start
    <3>2. CanIterate(D, start, g, C)
      BY <3>1, SizeNat, IterateExists
    <3> QED  BY <3>2 DEF D, start, CanIterate
  <2>2. ASSUME NEW n \in 0..C PROVE f[n] = IF n = 0 THEN {a} ELSE Sphere(ls, f[n - 1])
    <3>1. CASE n = 0
      BY <2>1, <3>1
    <3>2. CASE n # 0
      <4>1. n \in 1..C /\ n - 1 \in 0..C
        BY <3>2, SizeNat
      <4> QED  BY <2>1, <3>2, <4>1
    <3> QED  BY <3>1, <3>2
  <2>3. f = [n \in 0..C |-> f[n]]
    OBVIOUS
  <2>4. Unfolds(f)
    BY <2>2, <2>3
  <2> QED  BY <2>4
<1>4. Unfolds(B)
  <2> HIDE DEF Unfolds
  <2> QED  BY <1>3
<1> HIDE DEF B
<1>5. B[0] = {a} /\ \A n \in 1..C : B[n] = Sphere(ls, B[n - 1])
  <2>1. 0 \in 0..C /\ \A n \in 1..C : n \in 0..C /\ n # 0
    BY SizeNat
  <2> QED  BY <1>4, <2>1
<1>6. B \in [0..C -> SUBSET Nodes]
  <2> DEFINE S == {n \in Nat : B[n] \in SUBSET Nodes}
  <2>1. 0 \in S /\ \A n \in 1..C : n - 1 \in S => n \in S
    BY <1>2, <1>5, SizeNat
  <2> HIDE DEF S
  <2>2. \A n \in 0..C : n \in S
    BY <2>1, SizeNat, InductionUpTo
  <2>3. DOMAIN B = 0..C /\ B = [n \in 0..C |-> B[n]]
    BY <1>4
  <2> QED  BY <2>2, <2>3 DEF S
<1> QED  BY <1>1, <1>5, <1>6 DEF IsBall
(***************************************************************************)
(* Balls grow with the number of hops, by the links that leave them.       *)
(***************************************************************************)
LEMMA SphereFacts ==
  ASSUME NEW ls, NEW A, NEW B, A \subseteq B
  PROVE  /\ A \subseteq Sphere(ls, A)
         /\ Sphere(ls, A) \subseteq Sphere(ls, B)
         /\ \A u, w : u \in A /\ <<u, w>> \in ls => w \in Sphere(ls, A)
<1>1. A \subseteq Sphere(ls, A)
  BY Zenon DEF Sphere
<1>2. {k \in ls : k[1] \in A} \subseteq {k \in ls : k[1] \in B}
  OBVIOUS
<1>3. Sphere(ls, A) \subseteq Sphere(ls, B)
  BY <1>2, Zenon DEF Sphere
<1>4. ASSUME NEW u, NEW w, u \in A, <<u, w>> \in ls
      PROVE  w \in Sphere(ls, A)
  <2> DEFINE l == <<u, w>>
  <2>1. l \in {k \in ls : k[1] \in A} /\ l[2] = w
    BY <1>4
  <2> QED  BY <2>1, Zenon DEF Sphere
<1> QED  BY <1>1, <1>3, <1>4

LEMMA BallStep ==
  ASSUME NEW ls \in SUBSET (Nodes \X Nodes), NEW a \in Nodes, NEW n \in 1..C
  PROVE  /\ Ball(ls, a)[n - 1] \subseteq Ball(ls, a)[n]
         /\ \A u, w \in Nodes : u \in Ball(ls, a)[n - 1] /\ <<u, w>> \in ls => w \in Ball(ls, a)[n]
<1> DEFINE B == Ball(ls, a)
<1>1. IsBall(ls, a, B)
  BY BallRec
<1> HIDE DEF B
<1>2. B[n] = Sphere(ls, B[n - 1])
  BY <1>1 DEF IsBall
<1>3. B[n - 1] \subseteq B[n] /\ \A u, w : u \in B[n - 1] /\ <<u, w>> \in ls => w \in B[n]
  BY <1>2, SphereFacts
<1> QED  BY <1>3 DEF B

LEMMA BallGrows ==
  ASSUME NEW ls \in SUBSET (Nodes \X Nodes), NEW a \in Nodes, NEW m \in 0..C, NEW n \in 0..C, m <= n
  PROVE  Ball(ls, a)[m] \subseteq Ball(ls, a)[n]
<1> DEFINE B == Ball(ls, a)
           S == {k \in Nat : m <= k => B[m] \subseteq B[k]}
<1>1. 0 \in S
  OBVIOUS
<1>2. ASSUME NEW k \in 1..C, k - 1 \in S PROVE k \in S
  <2>1. CASE m = k
    BY <2>1
  <2>2. CASE m # k
    <3>1. B[k - 1] \subseteq B[k]
      BY BallStep
    <3> HIDE DEF B
    <3> QED  BY <1>2, <2>2, <3>1
  <2> QED  BY <2>1, <2>2
<1> HIDE DEF S
<1>3. n \in S
  BY <1>1, <1>2, SizeNat, InductionUpTo
<1> QED  BY <1>3 DEF S

(***************************************************************************)
(* What is n hops from a router is n + 1 from one with a link to it.       *)
(***************************************************************************)
LEMMA BallShift ==
  ASSUME NEW ls \in SUBSET (Nodes \X Nodes), NEW w \in Nodes, NEW v \in Nodes, <<w, v>> \in ls,
         NEW n \in 1..C
  PROVE  Ball(ls, v)[n - 1] \subseteq Ball(ls, w)[n]
<1> DEFINE A == Ball(ls, w)
           B == Ball(ls, v)
           S == {k \in Nat : k < C => B[k] \subseteq A[k + 1]}
<1>0. C \in Nat
  BY SizeNat
<1>b. IsBall(ls, w, A) /\ IsBall(ls, v, B)
  BY BallRec
<1> HIDE DEF A, B
<1>1. 0 \in S
  <2> SUFFICES ASSUME 0 < C PROVE B[0] \subseteq A[1]
    OBVIOUS
  <2>1. B[0] = {v} /\ A[0] = {w} /\ A[1] = Sphere(ls, A[0])
    <3>1. 1 \in 1..C /\ 1 - 1 = 0
      BY <1>0
    <3>2. A[1] = Sphere(ls, A[1 - 1])
      BY <1>b, <3>1 DEF IsBall
    <3> QED  BY <1>b, <3>1, <3>2 DEF IsBall
  <2>2. v \in A[1]
    BY <2>1, SphereFacts
  <2> QED  BY <2>1, <2>2
<1>2. ASSUME NEW k \in 1..C, k - 1 \in S PROVE k \in S
  <2> SUFFICES ASSUME k < C PROVE B[k] \subseteq A[k + 1]
    OBVIOUS
  <2>1. B[k - 1] \subseteq A[k]
    BY <1>0, <1>2
  <2>2. B[k] = Sphere(ls, B[k - 1]) /\ A[k + 1] = Sphere(ls, A[k])
    BY <1>0, <1>b DEF IsBall
  <2> QED  BY <2>1, <2>2, SphereFacts
<1> HIDE DEF S
<1>3. n - 1 \in S
  BY <1>0, <1>1, <1>2, InductionUpTo
<1>4. n - 1 \in Nat /\ n - 1 < C /\ (n - 1) + 1 = n
  BY <1>0
<1> QED  BY <1>3, <1>4 DEF S, A, B

-----------------------------------------------------------------------------
(***************************************************************************)
(* createTable.  The invariant of its main loop: the distances of the      *)
(* vertices done are final and no greater than the others', every link     *)
(* that leaves one of them has been relaxed, and a distance found was      *)
(* found over the predecessor.                                             *)
(***************************************************************************)
States == [done : SUBSET Nodes, distance : [Nodes -> Nat], predecessor : [Nodes -> Nodes]]

LoopInv(ls, s, t) ==
  /\ t.distance[s] = 0
  /\ \A u \in t.done, x \in Nodes \ t.done : t.distance[u] <= t.distance[x]
  /\ \A u \in t.done, w \in Nodes : <<u, w>> \in ls => t.distance[w] <= t.distance[u] + 1
  /\ \A v \in Nodes \ {s} : t.distance[v] # INFINITY =>
       /\ t.predecessor[v] \in t.done
       /\ <<t.predecessor[v], v>> \in ls
       /\ t.distance[v] = t.distance[t.predecessor[v]] + 1

LEMMA VisitNearest ==
  ASSUME NEW t \in States, t.done # Nodes
  PROVE  /\ Visit(t) \in Nodes \ t.done
         /\ \A w \in Nodes \ t.done : t.distance[Visit(t)] <= t.distance[w]
<1> DEFINE R == Nodes \ t.done
           dist == t.distance
           M == {dist[v] : v \in R}
<1>1. R # {} /\ R \in SUBSET Nat /\ \A v \in R : dist[v] \in Nat
  BY RouterAssumption DEF States
<1>2. PICK m \in M : \A k \in M : m <= k
  <2>1. M # {} /\ M \in SUBSET Nat
    BY <1>1
  <2> HIDE DEF M
  <2> QED  BY <2>1, LeastOf
<1> DEFINE F == {v \in R : dist[v] = m}
<1>3. PICK f \in F : \A k \in F : f <= k
  <2>1. F # {} /\ F \in SUBSET Nat
    BY <1>1, <1>2
  <2> HIDE DEF F
  <2> QED  BY <2>1, LeastOf
<1> DEFINE Nearest(v) == \A w \in R : dist[v] < dist[w] \/ (dist[v] = dist[w] /\ v <= w)
<1>4. f \in R /\ Nearest(f)
  <2>1. f \in R /\ dist[f] = m
    BY <1>3
  <2>2. ASSUME NEW w \in R, ~(dist[f] < dist[w]) PROVE dist[f] = dist[w] /\ f <= w
    <3>1. dist[w] \in M /\ m <= dist[w] /\ m \in Nat /\ dist[w] \in Nat
      BY <1>1, <1>2
    <3>2. dist[w] = m
      BY <2>1, <2>2, <3>1
    <3> QED  BY <1>3, <2>1, <3>2
  <2> QED  BY <2>1, <2>2
<1> DEFINE x == CHOOSE v \in R : Nearest(v)
<1>5. x \in R /\ Nearest(x)
  <2> HIDE DEF Nearest, R
  <2> QED  BY <1>4
<1>6. Visit(t) = x
  BY DEF Visit
<1> HIDE DEF x
<1>7. \A w \in R : dist[x] <= dist[w]
  BY <1>1, <1>5
<1> QED  BY <1>5, <1>6, <1>7
LEMMA RelaxKeeps ==
  ASSUME NEW ls, NEW s \in Nodes, NEW t \in States, LoopInv(ls, s, t),
         NEW next \in Nodes \ t.done, \A w \in Nodes \ t.done : t.distance[next] <= t.distance[w]
  PROVE  Relax(ls, t, next) \in States /\ LoopInv(ls, s, Relax(ls, t, next))
<1> DEFINE dist == t.distance
           pred == t.predecessor
           nearer == {w \in Nodes : <<next, w>> \in ls /\ dist[w] > dist[next] + 1}
           done2 == t.done \cup {next}
           dist2 == [w \in Nodes |-> IF w \in nearer THEN dist[next] + 1 ELSE dist[w]]
           pred2 == [w \in Nodes |-> IF w \in nearer THEN next ELSE pred[w]]
           r == Relax(ls, t, next)
<1>1. dist \in [Nodes -> Nat] /\ pred \in [Nodes -> Nodes] /\ t.done \subseteq Nodes
  BY DEF States
<1>2. r = [done |-> done2, distance |-> dist2, predecessor |-> pred2]
  BY DEF Relax
<1>3. /\ dist[s] = 0
      /\ \A u \in t.done, x \in Nodes \ t.done : dist[u] <= dist[x]
      /\ \A u \in t.done, w \in Nodes : <<u, w>> \in ls => dist[w] <= dist[u] + 1
      /\ \A v \in Nodes \ {s} : dist[v] # INFINITY =>
           pred[v] \in t.done /\ <<pred[v], v>> \in ls /\ dist[v] = dist[pred[v]] + 1
  BY DEF LoopInv
<1>4. \A w \in Nodes : dist[w] \in Nat
  BY <1>1
<1>5. \A w \in Nodes \ t.done : dist[next] <= dist[w]
  OBVIOUS
<1> HIDE DEF dist, pred
<1>6. dist2 \in [Nodes -> Nat] /\ pred2 \in [Nodes -> Nodes] /\ done2 \subseteq Nodes
  BY <1>1, <1>4
<1>7. r \in States
  BY <1>2, <1>6 DEF States
<1>8. \A w \in Nodes : dist2[w] = IF w \in nearer THEN dist[next] + 1 ELSE dist[w]
  OBVIOUS
<1>9. \A w \in Nodes : pred2[w] = IF w \in nearer THEN next ELSE pred[w]
  OBVIOUS
<1>10. /\ \A w \in Nodes : w \in nearer => <<next, w>> \in ls /\ dist[w] > dist[next] + 1
       /\ \A w \in Nodes : <<next, w>> \in ls /\ dist[w] > dist[next] + 1 => w \in nearer
  OBVIOUS
<1> HIDE DEF nearer, dist2, pred2, r
<1>11. \A u \in done2 : dist2[u] = dist[u] /\ dist[u] <= dist[next]
  <2> SUFFICES ASSUME NEW u \in done2 PROVE dist2[u] = dist[u] /\ dist[u] <= dist[next]
    OBVIOUS
  <2>1. u \in Nodes /\ dist[u] <= dist[next]
    BY <1>1, <1>3, <1>4
  <2>2. u \notin nearer
    <3>1. dist[u] \in Nat /\ dist[next] \in Nat /\ ~(dist[u] > dist[next] + 1)
      BY <1>4, <2>1
    <3> QED  BY <1>10, <2>1, <3>1
  <2> QED  BY <1>8, <2>1, <2>2
<1>12. dist2[s] = 0
  <2>1. s \notin nearer
    <3>1. dist[s] = 0 /\ dist[next] \in Nat /\ ~(dist[s] > dist[next] + 1)
      BY <1>3, <1>4
    <3> QED  BY <1>10, <3>1
  <2> QED  BY <1>3, <1>8, <2>1
<1>13. ASSUME NEW u \in done2, NEW x \in Nodes \ done2 PROVE dist2[u] <= dist2[x]
  <2>1. dist2[u] <= dist[next] /\ dist[next] \in Nat /\ dist2[u] \in Nat
    BY <1>1, <1>4, <1>11
  <2>2. dist[next] <= dist[x] /\ dist[x] \in Nat
    BY <1>4, <1>5
  <2>3. dist[next] <= dist2[x] /\ dist2[x] \in Nat
    BY <1>8, <2>1, <2>2
  <2> QED  BY <2>1, <2>3
<1>14. ASSUME NEW u \in done2, NEW w \in Nodes, <<u, w>> \in ls PROVE dist2[w] <= dist2[u] + 1
  <2>1. dist2[u] = dist[u] /\ u \in Nodes
    BY <1>1, <1>11
  <2>2. CASE u = next
    BY <1>4, <1>8, <1>10, <1>14, <2>1, <2>2
  <2>3. CASE u # next
    <3>1. dist[w] <= dist[u] + 1
      BY <1>3, <1>14, <2>3
    <3>2. dist2[w] <= dist[w]
      <4>1. dist[w] \in Nat /\ dist[next] \in Nat
        BY <1>4
      <4>2. CASE w \in nearer
        <5>1. dist[w] > dist[next] + 1 /\ dist2[w] = dist[next] + 1
          BY <1>8, <1>10, <4>2
        <5> QED  BY <4>1, <5>1
      <4>3. CASE w \notin nearer
        BY <1>8, <4>1, <4>3
      <4> QED  BY <4>2, <4>3
    <3>3. dist2[w] \in Nat
      BY <1>6
    <3> QED  BY <1>4, <2>1, <3>1, <3>2, <3>3
  <2> QED  BY <2>2, <2>3
<1>15. ASSUME NEW v \in Nodes \ {s}, dist2[v] # INFINITY
       PROVE  pred2[v] \in done2 /\ <<pred2[v], v>> \in ls /\ dist2[v] = dist2[pred2[v]] + 1
  <2>1. CASE v \in nearer
    <3>1. pred2[v] = next /\ dist2[v] = dist[next] + 1 /\ dist2[next] = dist[next]
      BY <1>8, <1>9, <1>11, <2>1
    <3> QED  BY <1>10, <2>1, <3>1
  <2>2. CASE v \notin nearer
    <3>1. pred2[v] = pred[v] /\ dist2[v] = dist[v]
      BY <1>8, <1>9, <2>2
    <3>2. pred[v] \in t.done /\ <<pred[v], v>> \in ls /\ dist[v] = dist[pred[v]] + 1
      BY <1>3, <1>15, <3>1
    <3> QED  BY <1>11, <3>1, <3>2
  <2> QED  BY <2>1, <2>2
<1>16. r.done = done2 /\ r.distance = dist2 /\ r.predecessor = pred2
  BY <1>2
<1>17. LoopInv(ls, s, r)
  BY <1>12, <1>13, <1>14, <1>15, <1>16 DEF LoopInv
<1> QED  BY <1>7, <1>17 DEF r

(***************************************************************************)
(* The loop runs once for each router, and so ends with all of them done.  *)
(***************************************************************************)
LEMMA DijkstraResult ==
  ASSUME NEW ls, NEW s \in Nodes
  PROVE  /\ Dijkstra(ls, s) \in States
         /\ LoopInv(ls, s, Dijkstra(ls, s))
         /\ Dijkstra(ls, s).done = Nodes
<1> DEFINE start == [done        |-> {},
                     distance    |-> [v \in Nodes |-> IF v = s THEN 0 ELSE INFINITY],
                     predecessor |-> [v \in Nodes |-> v]]
           D == {t \in States : LoopInv(ls, s, t)}
           Unfolds(T) == T = [n \in 0..C |->
                                IF n = 0
                                THEN [done        |-> {},
                                      distance    |-> [v \in Nodes |-> IF v = s THEN 0 ELSE INFINITY],
                                      predecessor |-> [v \in Nodes |-> v]]
                                ELSE Relax(ls, T[n - 1], Visit(T[n - 1]))]
           T == CHOOSE x : Unfolds(x)
           Step(t) == Relax(ls, t, Visit(t))
           g == [t \in D |-> IF t.done = Nodes THEN t ELSE Step(t)]
<1>1. Dijkstra(ls, s) = T[C]
  BY DEF Dijkstra, C
<1>2. start \in D /\ start.done = {}
  <2>1. start \in States
    BY DEF States, INFINITY
  <2>2. LoopInv(ls, s, start)
    BY DEF LoopInv
  <2> QED  BY <2>1, <2>2
<1>3. \A t \in D : t.done # Nodes =>
         /\ Step(t) \in D
         /\ Step(t).done = t.done \cup {Visit(t)}
         /\ Visit(t) \notin t.done
  <2> SUFFICES ASSUME NEW t \in D, t.done # Nodes
               PROVE  Step(t) \in D /\ Step(t).done = t.done \cup {Visit(t)} /\ Visit(t) \notin t.done
    OBVIOUS
  <2>1. t \in States /\ LoopInv(ls, s, t)
    OBVIOUS
  <2>2. /\ Visit(t) \in Nodes \ t.done
        /\ \A w \in Nodes \ t.done : t.distance[Visit(t)] <= t.distance[w]
    BY <2>1, VisitNearest
  <2>3. Step(t) \in States /\ LoopInv(ls, s, Step(t))
    BY <2>1, <2>2, RelaxKeeps
  <2>4. Step(t).done = t.done \cup {Visit(t)}
    BY DEF Relax
  <2> QED  BY <2>2, <2>3, <2>4
<1>4. g \in [D -> D]
  BY <1>3
<1>5. \A t \in D : t.done # Nodes => g[t] = Step(t)
  OBVIOUS
<1>6. \A t \in D : t.done \subseteq Nodes
  BY DEF States
<1> HIDE DEF g, D, start
<1>7. CanIterate(D, start, g, C)
  BY <1>2, <1>4, SizeNat, IterateExists
<1>8. PICK f \in [0..C -> D] : f[0] = start /\ \A n \in 1..C : f[n] = g[f[n - 1]]
  BY <1>7 DEF CanIterate
<1>9. \A n \in 1..C : n \in 0..C /\ n - 1 \in 0..C /\ f[n] \in D /\ f[n - 1] \in D
  BY <1>8, SizeNat
<1> HIDE DEF Step
<1>10. \A n \in 0..C : Cardinality(f[n].done) = n /\ IsFiniteSet(f[n].done)
  <2> DEFINE S == {n \in Nat : Cardinality(f[n].done) = n /\ IsFiniteSet(f[n].done)}
  <2>1. 0 \in S
    BY <1>2, <1>8, FS_EmptySet
  <2>2. ASSUME NEW n \in 1..C, n - 1 \in S PROVE n \in S
    <3> DEFINE t == f[n - 1]
    <3>1. t \in D /\ f[n] = g[t]
      BY <1>8, <1>9
    <3>2. Cardinality(t.done) = n - 1 /\ IsFiniteSet(t.done) /\ C \in Nat
      BY <2>2, SizeNat
    <3>3. t.done # Nodes
      BY <3>2 DEF C
    <3>4. f[n].done = t.done \cup {Visit(t)} /\ Visit(t) \notin t.done
      BY <1>3, <1>5, <3>1, <3>3
    <3> HIDE DEF t
    <3>5. Cardinality(f[n].done) = (n - 1) + 1 /\ IsFiniteSet(f[n].done)
      BY <3>2, <3>4, FS_AddElement
    <3> QED  BY <3>5
  <2> HIDE DEF S
  <2>3. \A n \in 0..C : n \in S
    BY <2>1, <2>2, SizeNat, InductionUpTo
  <2> QED  BY <2>3 DEF S
<1>11. \A n \in 1..C : f[n] = Step(f[n - 1])
  <2> SUFFICES ASSUME NEW n \in 1..C PROVE f[n] = Step(f[n - 1])
    OBVIOUS
  <2>1. Cardinality(f[n - 1].done) = n - 1 /\ n - 1 < C
    BY <1>9, <1>10, SizeNat
  <2>2. f[n - 1].done # Nodes
    BY <2>1, SizeNat DEF C
  <2> QED  BY <1>5, <1>8, <1>9, <2>2
<1>12. Unfolds(f)
  <2>1. ASSUME NEW n \in 0..C PROVE f[n] = IF n = 0 THEN start ELSE Step(f[n - 1])
    <3>1. CASE n = 0
      BY <1>8, <3>1
    <3>2. CASE n # 0
      <4>1. n \in 1..C
        BY <3>2, SizeNat
      <4> QED  BY <1>11, <3>2, <4>1
    <3> QED  BY <3>1, <3>2
  <2>2. f = [n \in 0..C |-> f[n]]
    OBVIOUS
  <2> QED  BY <2>1, <2>2 DEF Step, start
<1>13. Unfolds(T)
  <2> HIDE DEF Unfolds
  <2> QED  BY <1>12
<1>14. /\ T[0] = start
       /\ \A n \in 1..C : T[n] = Step(T[n - 1])
  <2>1. 0 \in 0..C /\ \A n \in 1..C : n \in 0..C /\ n # 0
    BY SizeNat
  <2> HIDE DEF T
  <2> QED  BY <1>13, <2>1 DEF Step, start
<1> HIDE DEF T
<1>15. \A n \in 0..C : T[n] = f[n]
  <2> DEFINE S == {n \in Nat : T[n] = f[n]}
  <2>1. 0 \in S
    BY <1>8, <1>14
  <2>2. \A n \in 1..C : n - 1 \in S => n \in S
    BY <1>11, <1>14
  <2> HIDE DEF S
  <2>3. \A n \in 0..C : n \in S
    BY <2>1, <2>2, SizeNat, InductionUpTo
  <2> QED  BY <2>3 DEF S
<1>16. T[C] \in D /\ Cardinality(T[C].done) = C
  BY <1>8, <1>10, <1>15, SizeNat
<1>17. T[C].done = Nodes
  <2>1. T[C].done \subseteq Nodes
    BY <1>6, <1>16
  <2> QED  BY <1>16, <2>1, RouterAssumption, FS_Subset DEF C
<1> QED  BY <1>1, <1>16, <1>17 DEF D
(***************************************************************************)
(* Nobody further than n hops away is given a distance above n.            *)
(***************************************************************************)
LEMMA DistanceBound ==
  ASSUME NEW ls \in SUBSET (Nodes \X Nodes), NEW s \in Nodes, NEW t \in States,
         LoopInv(ls, s, t), t.done = Nodes, NEW n \in 0..C, NEW v \in Ball(ls, s)[n]
  PROVE  t.distance[v] <= n
<1> DEFINE B == Ball(ls, s)
           dist == t.distance
           S == {k \in Nat : \A x \in B[k] : dist[x] <= k}
<1>1. IsBall(ls, s, B)
  BY BallRec
<1>2. \A w \in Nodes : dist[w] \in Nat
  BY DEF States
<1>3. dist[s] = 0 /\ \A u \in Nodes, w \in Nodes : <<u, w>> \in ls => dist[w] <= dist[u] + 1
  BY DEF LoopInv
<1> HIDE DEF B, dist
<1>4. 0 \in S
  BY <1>1, <1>3 DEF IsBall
<1>5. ASSUME NEW k \in 1..C, k - 1 \in S PROVE k \in S
  <2>1. B[k] = Sphere(ls, B[k - 1]) /\ B[k - 1] \subseteq Nodes
    <3>1. k - 1 \in 0..C
      BY SizeNat
    <3> QED  BY <1>1, <3>1 DEF IsBall
  <2>2. SUFFICES ASSUME NEW x \in Sphere(ls, B[k - 1]) PROVE dist[x] <= k
    BY <2>1
  <2>3. CASE x \in B[k - 1]
    BY <1>2, <1>5, <2>1, <2>3
  <2>4. CASE x \notin B[k - 1]
    <3>1. PICK l \in ls : l[1] \in B[k - 1] /\ x = l[2]
      BY <2>2, <2>4 DEF Sphere
    <3>2. l = <<l[1], l[2]>> /\ l[1] \in Nodes /\ l[2] \in Nodes
      OBVIOUS
    <3>3. dist[x] <= dist[l[1]] + 1
      BY <1>3, <3>1, <3>2
    <3>4. dist[l[1]] <= k - 1
      BY <1>5, <3>1
    <3> QED  BY <1>2, <3>1, <3>2, <3>3, <3>4
  <2> QED  BY <2>3, <2>4
<1> HIDE DEF S
<1>6. n \in S
  BY <1>4, <1>5, SizeNat, InductionUpTo
<1> QED  BY <1>6 DEF S, B, dist

(***************************************************************************)
(* The walk back of createTable, unfolded.                                 *)
(***************************************************************************)
IsWalk(pred, s, d, W) ==
  /\ W \in [0..C -> Nodes]
  /\ W[0] = d
  /\ \A n \in 1..C : W[n] = IF pred[W[n - 1]] = s THEN W[n - 1] ELSE pred[W[n - 1]]

LEMMA WalkRec ==
  ASSUME NEW pred \in [Nodes -> Nodes], NEW s \in Nodes, NEW d \in Nodes
  PROVE  \E W : IsWalk(pred, s, d, W) /\ StartRoute(pred, s, d) = W[C]
<1> DEFINE g == [v \in Nodes |-> IF pred[v] = s THEN v ELSE pred[v]]
           Unfolds(W) == W = [n \in 0..C |->
             IF n = 0 THEN d ELSE IF pred[W[n - 1]] = s THEN W[n - 1] ELSE pred[W[n - 1]]]
           W == CHOOSE x : Unfolds(x)
<1>1. StartRoute(pred, s, d) = W[C]
  BY DEF StartRoute, C
<1>2. g \in [Nodes -> Nodes] /\ \A v \in Nodes : g[v] = IF pred[v] = s THEN v ELSE pred[v]
  OBVIOUS
<1> HIDE DEF g
<1>3. CanIterate(Nodes, d, g, C)
  BY <1>2, SizeNat, IterateExists
<1>4. PICK f \in [0..C -> Nodes] : f[0] = d /\ \A n \in 1..C : f[n] = g[f[n - 1]]
  BY <1>3 DEF CanIterate
<1>5. \A n \in 1..C : f[n] = IF pred[f[n - 1]] = s THEN f[n - 1] ELSE pred[f[n - 1]]
  <2>1. \A n \in 1..C : f[n - 1] \in Nodes
    BY SizeNat
  <2> QED  BY <1>2, <1>4, <2>1
<1>6. Unfolds(f)
  <2>1. ASSUME NEW n \in 0..C
        PROVE  f[n] = IF n = 0 THEN d ELSE IF pred[f[n - 1]] = s THEN f[n - 1] ELSE pred[f[n - 1]]
    <3>1. CASE n = 0
      BY <1>4, <3>1
    <3>2. CASE n # 0
      <4>1. n \in 1..C
        BY <3>2, SizeNat
      <4> QED  BY <1>5, <3>2, <4>1
    <3> QED  BY <3>1, <3>2
  <2>2. f = [n \in 0..C |-> f[n]]
    OBVIOUS
  <2> QED  BY <2>1, <2>2
<1>7. Unfolds(W)
  <2> HIDE DEF Unfolds
  <2> QED  BY <1>6
<1> HIDE DEF W
<1>8. /\ W[0] = d
      /\ \A n \in 1..C : W[n] = IF pred[W[n - 1]] = s THEN W[n - 1] ELSE pred[W[n - 1]]
  <2>1. 0 \in 0..C /\ \A n \in 1..C : n \in 0..C /\ n # 0
    BY SizeNat
  <2> QED  BY <1>7, <2>1
<1>9. W \in [0..C -> Nodes]
  <2> DEFINE S == {n \in Nat : W[n] \in Nodes}
  <2>1. 0 \in S /\ \A n \in 1..C : n - 1 \in S => n \in S
    BY <1>8
  <2> HIDE DEF S
  <2>2. \A n \in 0..C : n \in S
    BY <2>1, SizeNat, InductionUpTo
  <2>3. W = [n \in 0..C |-> W[n]]
    BY <1>7
  <2> QED  BY <2>2, <2>3 DEF S
<1> QED  BY <1>1, <1>8, <1>9 DEF IsWalk

(***************************************************************************)
(* createTable names the neighbour a shortest way starts with.  The walk   *)
(* goes from d towards s over predecessors, one nearer at each step, and   *)
(* so d stays as many hops away from where it is as steps were made.       *)
(***************************************************************************)
LEMMA TableShortest ==
  ASSUME NEW ls \in SUBSET (Nodes \X Nodes), NEW s \in Nodes, NEW d \in Nodes \ {s},
         Ball(ls, s)[C] = Nodes
  PROVE  /\ CreateTable(ls, s)[d] \in Nodes
         /\ <<s, CreateTable(ls, s)[d]>> \in ls
         /\ \A n \in 0..(C - 1) :
              d \in Ball(ls, s)[n + 1] => d \in Ball(ls, CreateTable(ls, s)[d])[n]
<1> DEFINE t == Dijkstra(ls, s)
           dist == t.distance
           pred == t.predecessor
<1>1. t \in States /\ LoopInv(ls, s, t) /\ t.done = Nodes
  BY DijkstraResult
<1>2. CreateTable(ls, s)[d] = StartRoute(pred, s, d)
  BY DEF CreateTable
<1> HIDE DEF t
<1>3. pred \in [Nodes -> Nodes] /\ \A v \in Nodes : dist[v] \in Nat
  BY <1>1 DEF States
<1>4. \A v \in Nodes : dist[v] <= C
  <2>1. C \in 0..C
    BY SizeNat
  <2>2. ASSUME NEW v \in Ball(ls, s)[C] PROVE dist[v] <= C
    BY <1>1, <2>1, DistanceBound
  <2> QED  BY <2>2
<1>5. \A n \in 0..C : d \in Ball(ls, s)[n] => dist[d] <= n
  BY <1>1, DistanceBound
<1>6. dist[s] = 0 /\ \A v \in Nodes \ {s} : <<pred[v], v>> \in ls /\ dist[v] = dist[pred[v]] + 1
  <2>1. \A v \in Nodes : dist[v] # INFINITY
    BY <1>3, <1>4, SizeNat, SizeAssumption DEF C, INFINITY
  <2> QED  BY <1>1, <2>1 DEF LoopInv
<1>7. PICK W : IsWalk(pred, s, d, W) /\ StartRoute(pred, s, d) = W[C]
  BY <1>3, WalkRec
<1> HIDE DEF dist, pred
<1> DEFINE Behind(v) == d \in Ball(ls, v)[dist[d] - dist[v]] /\ dist[v] <= dist[d]
           At(n) == /\ W[n] \in Nodes \ {s}
                    /\ Behind(W[n])
                    /\ pred[W[n]] = s \/ dist[W[n]] + n = dist[d]
           S == {n \in Nat : At(n)}
<1>8. 0 \in S
  <2>1. W[0] = d /\ dist[d] \in Nat
    BY <1>3, <1>7 DEF IsWalk
  <2>2. IsBall(ls, d, Ball(ls, d))
    BY BallRec
  <2>3. d \in Ball(ls, d)[0] /\ dist[d] - dist[d] = 0
    BY <2>1, <2>2 DEF IsBall
  <2> QED  BY <2>1, <2>3
<1>9. ASSUME NEW n \in 1..C, n - 1 \in S PROVE n \in S
  <2> DEFINE v == W[n - 1]
  <2>1. At(n - 1) /\ v \in Nodes \ {s}
    BY <1>9
  <2>2. W[n] = IF pred[v] = s THEN v ELSE pred[v]
    BY <1>7 DEF IsWalk
  <2>3. CASE pred[v] = s
    BY <2>1, <2>2, <2>3
  <2>4. CASE pred[v] # s
    <3> DEFINE w == pred[v]
               k == dist[d] - dist[w]
    <3>1. W[n] = w /\ w \in Nodes \ {s}
      BY <1>3, <2>1, <2>2, <2>4
    <3>2. <<w, v>> \in ls /\ dist[v] = dist[w] + 1 /\ dist[v] + (n - 1) = dist[d]
          /\ d \in Ball(ls, v)[dist[d] - dist[v]] /\ dist[v] <= dist[d]
      BY <1>6, <2>1, <2>4
    <3>3. dist[v] \in Nat /\ dist[w] \in Nat /\ dist[d] \in Nat /\ dist[d] <= C /\ v \in Nodes
      BY <1>3, <1>4, <2>1, <3>1
    <3> HIDE DEF v, w
    <3>4. k \in 1..C /\ k - 1 = dist[d] - dist[v] /\ dist[w] <= dist[d] /\ dist[w] + n = dist[d]
      BY <3>2, <3>3, SizeNat
    <3> HIDE DEF k
    <3>5. Ball(ls, v)[k - 1] \subseteq Ball(ls, w)[k]
      BY <3>1, <3>2, <3>3, <3>4, BallShift
    <3>6. d \in Ball(ls, w)[k]
      BY <3>2, <3>4, <3>5
    <3> QED  BY <3>1, <3>4, <3>6 DEF k
  <2> QED  BY <2>3, <2>4
<1> HIDE DEF S
<1>10. C \in S
  BY <1>8, <1>9, SizeNat, InductionUpTo
<1> DEFINE h == W[C]
<1>11. At(C)
  BY <1>10 DEF S
<1> HIDE DEF h
<1>12. h \in Nodes \ {s} /\ Behind(h) /\ (pred[h] = s \/ dist[h] + C = dist[d])
  BY <1>11 DEF h
<1>13. pred[h] = s
  <2>1. dist[h] = dist[pred[h]] + 1 /\ dist[pred[h]] \in Nat /\ pred[h] \in Nodes
    BY <1>3, <1>6, <1>12
  <2>2. dist[h] + C # dist[d]
    BY <1>3, <1>4, <2>1, SizeNat
  <2> QED  BY <1>12, <2>2
<1>14. <<s, h>> \in ls /\ dist[h] = 1
  BY <1>6, <1>12, <1>13
<1>15. ASSUME NEW n \in 0..(C - 1), d \in Ball(ls, s)[n + 1] PROVE d \in Ball(ls, h)[n]
  <2> DEFINE k == dist[d] - dist[h]
  <2>1. dist[d] <= n + 1
    BY <1>5, <1>15, SizeNat
  <2>2. d \in Ball(ls, h)[k] /\ dist[h] <= dist[d] /\ dist[d] \in Nat
    BY <1>3, <1>12
  <2>3. k \in 0..C /\ n \in 0..C /\ k <= n
    BY <1>14, <2>1, <2>2, SizeNat
  <2> HIDE DEF k
  <2>4. Ball(ls, h)[k] \subseteq Ball(ls, h)[n]
    BY <1>12, <2>3, BallGrows
  <2> QED  BY <2>2, <2>4
<1>16. CreateTable(ls, s)[d] = h
  BY <1>2, <1>7 DEF h, pred
<1> QED  BY <1>12, <1>14, <1>15, <1>16
(***************************************************************************)
(* The tables are the ones createTable made of the links there are.        *)
(***************************************************************************)
TableInv ==
  /\ links \in Topologies
  /\ table = [s \in Nodes |-> CreateTable(links, s)]

LEMMA TableInvariance == Spec => []TableInv
<1>1. Init => TableInv
  BY DEF Init, TableInv
<1>2. TableInv /\ [Next]_vars => TableInv'
  BY DEF TableInv, Next, Send, Run, Tick, vars
<1> QED  BY <1>1, <1>2, PTL DEF Spec

LEMMA TableRoutes ==
  ASSUME TableInv, NEW s \in Nodes, NEW d \in Nodes \ {s}
  PROVE  /\ table[s] \in [Nodes \ {s} -> Nodes]
         /\ <<s, table[s][d]>> \in links
         /\ \A n \in 0..(C - 1) :
              d \in Ball(links, s)[n + 1] => d \in Ball(links, table[s][d])[n]
<1>1. /\ links \in SUBSET (Nodes \X Nodes)
      /\ Ball(links, s)[C] = Nodes
  BY RouterAssumption, MapsAssumption DEF TableInv, C
<1>2. table[s] = CreateTable(links, s)
  BY DEF TableInv
<1>3. \A e \in Nodes \ {s} : CreateTable(links, s)[e] \in Nodes
  BY <1>1, TableShortest
<1>4. CreateTable(links, s) = [e \in Nodes \ {s} |-> CreateTable(links, s)[e]]
  BY DEF CreateTable
<1>5. table[s] \in [Nodes \ {s} -> Nodes]
  BY <1>2, <1>3, <1>4
<1>6. /\ <<s, CreateTable(links, s)[d]>> \in links
      /\ \A n \in 0..(C - 1) :
           d \in Ball(links, s)[n + 1] => d \in Ball(links, CreateTable(links, s)[d])[n]
  BY <1>1, TableShortest
<1> QED  BY <1>2, <1>5, <1>6

(***************************************************************************)
(* createTable finds shortest ways, in every connected network of fewer    *)
(* routers than its INFINITY.                                              *)
(***************************************************************************)
THEOREM TablesShortest == Spec => []RoutesShortest
<1>1. TableInv => RoutesShortest
  BY TableRoutes DEF RoutesShortest, C
<1> QED  BY <1>1, TableInvariance, PTL
-----------------------------------------------------------------------------
(***************************************************************************)
(* Order of packets.  The routers on the way from n to d: those that are   *)
(* in every set that holds n and is closed under the routes to d.          *)
(***************************************************************************)
Way(d, n) ==
  {m \in Nodes : \A S \in SUBSET Nodes :
     n \in S /\ (\A x \in S \ {d} : table[x][d] \in S) => m \in S}

PktAt(ls, l, x) == ls[l].queue[x].pkt

SameFlow(p, r) == p.id = r.id /\ Dest(p) = Dest(r)

(***************************************************************************)
(* A packet waits at a link on the way to its destination from the peer    *)
(* that sent it.                                                           *)
(***************************************************************************)
Placed(l, p) ==
  /\ Dest(p) \in Nodes \ {l[1]}
  /\ l[2] = table[l[1]][Dest(p)]
  /\ l[1] \in Way(Dest(p), p.id)

InFlight(ls, c) ==
  \A l \in links : \A x \in 1..Len(ls[l].queue) :
    PktAt(ls, l, x).num \in 1..c /\ Placed(l, PktAt(ls, l, x))

(***************************************************************************)
(* Of two packets of a flow that wait, the earlier one is further on: at a *)
(* router on the way the later one has still to go, or in the same queue   *)
(* and nearer its head.                                                    *)
(***************************************************************************)
NoOvertaking(ls) ==
  \A l, m \in links : \A x \in 1..Len(ls[l].queue), y \in 1..Len(ls[m].queue) :
    /\ l # m \/ x # y
    /\ SameFlow(PktAt(ls, l, x), PktAt(ls, m, y))
    /\ PktAt(ls, l, x).num <= PktAt(ls, m, y).num
    => l[1] \in Way(Dest(PktAt(ls, l, x)), m[2]) \/ (l = m /\ x < y)

(***************************************************************************)
(* What has been delivered is earlier than all that waits.                 *)
(***************************************************************************)
Delivered(pkt, ib) ==
  \A p \in DOMAIN ib : \A i \in 1..Len(ib[p]) :
    ib[p][i].pkt.id = pkt.id /\ Dest(pkt) = p => ib[p][i].pkt.num < pkt.num

BehindDelivered(ls, ib) ==
  \A l \in links : \A x \in 1..Len(ls[l].queue) : Delivered(PktAt(ls, l, x), ib)

Arrivals == [pkt : Packets, from : Nodes \cup {NoPeer}]

Inboxes(c) ==
  {ib \in [IdsOf(NodesMap) -> Seq(Arrivals)] :
     \A p \in IdsOf(NodesMap) : \A i \in 1..Len(ib[p]) : ib[p][i].pkt.num \in 1..c}

(***************************************************************************)
(* Ways: they start where they start, end at d, and go on by the table.    *)
(***************************************************************************)
LEMMA WayFacts ==
  ASSUME TableInv, NEW d \in Nodes, NEW n \in Nodes
  PROVE  /\ n \in Way(d, n)
         /\ Way(d, d) = {d}
         /\ \A m \in Way(d, n) \ {d} : table[m][d] \in Way(d, n)
         /\ n # d => \A m \in Way(d, n) : m = n \/ m \in Way(d, table[n][d])
<1> DEFINE next(x) == table[x][d]
           Closed(S) == \A x \in S \ {d} : next(x) \in S
           W(a) == {m \in Nodes : \A S \in SUBSET Nodes : a \in S /\ Closed(S) => m \in S}
<1>1. \A x \in Nodes \ {d} : next(x) \in Nodes
  BY TableRoutes
<1>2. \A a : Way(d, a) = W(a)
  BY DEF Way
<1> HIDE DEF next
<1>3. n \in W(n)
  OBVIOUS
<1>4. W(d) = {d}
  <2>1. {d} \in SUBSET Nodes /\ Closed({d})
    OBVIOUS
  <2>2. d \in W(d)
    OBVIOUS
  <2>3. \A m \in W(d) : m \in {d}
    <3> HIDE DEF Closed
    <3> QED  BY <2>1
  <2> HIDE DEF W
  <2> QED  BY <2>2, <2>3
<1>5. ASSUME NEW a, NEW m \in W(a) \ {d} PROVE next(m) \in W(a)
  <2>1. ASSUME NEW S \in SUBSET Nodes, a \in S, Closed(S) PROVE next(m) \in S
    <3>1. m \in S
      BY <2>1
    <3> QED  BY <2>1, <3>1
  <2>2. next(m) \in Nodes
    BY <1>1
  <2> HIDE DEF Closed
  <2> QED  BY <2>1, <2>2
<1>6. ASSUME n # d, NEW m \in W(n), m # n PROVE m \in W(next(n))
  <2> DEFINE S == {n} \cup W(next(n))
  <2>1. next(n) \in W(next(n))
    BY <1>1, <1>6
  <2>2. S \in SUBSET Nodes /\ n \in S
    OBVIOUS
  <2>3. Closed(S)
    <3> SUFFICES ASSUME NEW x \in S \ {d} PROVE next(x) \in S
      OBVIOUS
    <3>1. CASE x = n
      BY <2>1, <3>1
    <3>2. CASE x # n
      <4>1. x \in W(next(n)) \ {d}
        BY <3>2
      <4>2. next(x) \in W(next(n))
        <5> HIDE DEF W
        <5> QED  BY <1>5, <4>1
      <4> QED  BY <4>2
    <3> QED  BY <3>1, <3>2
  <2> HIDE DEF S, Closed
  <2>4. m \in S
    BY <2>2, <2>3
  <2> QED  BY <1>6, <2>4 DEF S
<1> HIDE DEF W
<1> QED  BY <1>2, <1>3, <1>4, <1>5, <1>6 DEF next
(***************************************************************************)
(* A look-up in a peer list finds a router or nothing.                     *)
(***************************************************************************)
LEMMA LocateType ==
  ASSUME NEW list \in Seq(PeerLines), NEW ip, NEW port
  PROVE  Locate(list, ip, port) \in Nodes \cup {NoPeer}
<1> DEFINE fits == {j \in DOMAIN list : list[j].ip = ip /\ list[j].port = port}
           n == Len(list)
           K == {n - i : i \in fits}
<1>1. n \in Nat /\ fits \subseteq 1..n
  OBVIOUS
<1>2. CASE fits = {}
  BY <1>2 DEF Locate
<1>3. CASE fits # {}
  <2>1. K \in SUBSET Nat /\ K # {}
    BY <1>1, <1>3
  <2>2. PICK k \in K : \A i \in K : k <= i
    <3> HIDE DEF K
    <3> QED  BY <2>1, LeastOf
  <2>3. PICK i \in fits : k = n - i
    BY <2>2
  <2>4. i \in Last(fits)
    <3> SUFFICES ASSUME NEW j \in fits PROVE j <= i
      BY DEF Last
    <3>1. n - i <= n - j /\ i \in 1..n /\ j \in 1..n
      BY <1>1, <2>2, <2>3
    <3> QED  BY <1>1, <3>1
  <2> DEFINE j == CHOOSE x \in Last(fits) : TRUE
  <2>5. j \in fits
    <3>1. j \in Last(fits)
      BY <2>4
    <3> QED  BY <3>1 DEF Last
  <2>6. Locate(list, ip, port) = list[j].id
    BY <1>3 DEF Locate
  <2> HIDE DEF j
  <2>7. list[j] \in PeerLines
    BY <2>5
  <2> QED  BY <2>6, <2>7 DEF PeerLines
<1> QED  BY <1>2, <1>3

(***************************************************************************)
(* Where the packets are after one has joined a queue, or left its head.   *)
(***************************************************************************)
Joined(ls, ls2, m, pkt) ==
  \A l \in links : \A x \in 1..Len(ls2[l].queue) :
    \/ l = m /\ x = Len(ls[m].queue) + 1 /\ PktAt(ls2, l, x) = pkt
    \/ x \in 1..Len(ls[l].queue) /\ PktAt(ls2, l, x) = PktAt(ls, l, x)

Left(ls, ls2, m) ==
  \A l \in links : \A x \in 1..Len(ls2[l].queue) :
    LET y == IF l = m THEN x + 1 ELSE x IN
    y \in 1..Len(ls[l].queue) /\ PktAt(ls2, l, x) = PktAt(ls, l, y)

LEMMA EnQSlots ==
  ASSUME NEW ls \in [links -> Queues], NEW m \in links, NEW pkt, NEW ls2,
         ls2 = [ls EXCEPT ![m] = EnQ(m, ls[m], pkt, now)]
  PROVE  Joined(ls, ls2, m, pkt)
<1> SUFFICES ASSUME NEW l \in links, NEW x \in 1..Len(ls2[l].queue)
             PROVE  \/ l = m /\ x = Len(ls[m].queue) + 1 /\ PktAt(ls2, l, x) = pkt
                    \/ x \in 1..Len(ls[l].queue) /\ PktAt(ls2, l, x) = PktAt(ls, l, x)
  BY DEF Joined
<1>1. CASE l = m
  <2> DEFINE q == ls[m].queue
             e == [pkt |-> pkt, tx |-> TxTime(m, ls[m], pkt, now),
                   upto |-> ls[m].sent + ls[m].size + pkt.len]
  <2>1. q \in Seq(Entries) /\ ls[m] \in Queues
    BY DEF Queues, Entries
  <2>2. ls2[l] = EnQ(m, ls[m], pkt, now)
    BY <1>1
  <2>3. ls2[l].queue = Append(q, e)
    BY <2>1, <2>2 DEF EnQ, Queues
  <2>4. e.pkt = pkt
    OBVIOUS
  <2> HIDE DEF q, e
  <2>5. /\ Len(ls2[l].queue) = Len(q) + 1 /\ Len(q) \in Nat
        /\ ls2[l].queue[Len(q) + 1] = e
        /\ \A k \in 1..Len(q) : ls2[l].queue[k] = q[k]
    BY <2>1, <2>3
  <2>6. x = Len(q) + 1 \/ x \in 1..Len(q)
    BY <2>5
  <2> QED  BY <1>1, <2>4, <2>5, <2>6 DEF PktAt, q
<1>2. CASE l # m
  BY <1>2 DEF PktAt
<1> QED  BY <1>1, <1>2

LEMMA DeQSlots ==
  ASSUME NEW ls \in [links -> Queues], NEW m \in links, ls[m].queue # << >>, NEW ls2,
         ls2 = [ls EXCEPT ![m] = DeQ(ls[m])]
  PROVE  Left(ls, ls2, m)
<1> SUFFICES ASSUME NEW l \in links, NEW x \in 1..Len(ls2[l].queue)
             PROVE  LET y == IF l = m THEN x + 1 ELSE x IN
                    y \in 1..Len(ls[l].queue) /\ PktAt(ls2, l, x) = PktAt(ls, l, y)
  BY DEF Left
<1>1. CASE l = m
  <2> DEFINE q == ls[m].queue
  <2>1. q \in Seq(Entries) /\ q # << >>
    BY DEF Queues, Entries
  <2>2. ls2[l].queue = Tail(q)
    BY <1>1 DEF DeQ
  <2> HIDE DEF q
  <2>3. x + 1 \in 1..Len(q) /\ ls2[l].queue[x] = q[x + 1]
    BY <2>1, <2>2
  <2> QED  BY <1>1, <2>3 DEF PktAt, q
<1>2. CASE l # m
  BY <1>2 DEF PktAt
<1> QED  BY <1>1, <1>2
(***************************************************************************)
(* A packet in the hands of recv at router n: it is on its way there, all  *)
(* of its flow that are as early or earlier wait further on, and all as    *)
(* late or later wait further back.                                        *)
(***************************************************************************)
InHand(n, pkt, ls) ==
  /\ Dest(pkt) \in Nodes => n \in Way(Dest(pkt), pkt.id)
  /\ \A l \in links : \A x \in 1..Len(ls[l].queue) :
       SameFlow(PktAt(ls, l, x), pkt) =>
         /\ PktAt(ls, l, x).num <= pkt.num => l[1] \in Way(Dest(pkt), n)
         /\ pkt.num <= PktAt(ls, l, x).num => n \in Way(Dest(pkt), l[2])

Orderly(ls, ib, c) ==
  /\ InFlight(ls, c)
  /\ NoOvertaking(ls)
  /\ BehindDelivered(ls, ib)
  /\ ib \in Inboxes(c)
  /\ \A p \in DOMAIN ib : \A i, j \in DOMAIN ib[p] :
       i < j /\ ib[p][i].pkt.id = ib[p][j].pkt.id => ib[p][i].pkt.num < ib[p][j].pkt.num

LEMMA ForwardOrder ==
  ASSUME TableInv, NEW n \in Nodes, NEW pkt \in Packets, NEW c \in Nat,
         NEW ls \in [links -> Queues], Orderly(ls, inbox, c),
         pkt.num \in 1..c, Delivered(pkt, inbox), InHand(n, pkt, ls),
         Dest(pkt) \in Nodes \ {n}, <<n, table[n][Dest(pkt)]>> \in links,
         Forward(<<n, table[n][Dest(pkt)]>>, pkt, ls)
  PROVE  Orderly(link', inbox', c)
<1> DEFINE d == Dest(pkt)
           m == <<n, table[n][d]>>
<1>1. CASE link' = ls /\ inbox' = inbox
  BY <1>1
<1>2. CASE link' = [ls EXCEPT ![m] = EnQ(m, ls[m], pkt, now)] /\ inbox' = inbox
  <2>1. m \in links /\ m[1] = n /\ m[2] = table[n][d] /\ d \in Nodes /\ n # d
    OBVIOUS
  <2>2. Len(ls[m].queue) \in Nat
    BY <2>1 DEF Queues
  <2> DEFINE L == Len(ls[m].queue) + 1
             New(l, x) == l = m /\ x = L /\ PktAt(link', l, x) = pkt
             Old(l, x) == x \in 1..Len(ls[l].queue) /\ PktAt(link', l, x) = PktAt(ls, l, x)
  <2>3. \A l \in links : \A x \in 1..Len(link'[l].queue) : New(l, x) \/ Old(l, x)
    <3> HIDE DEF m
    <3>1. Joined(ls, link', m, pkt)
      BY <1>2, <2>1, EnQSlots
    <3> QED  BY <3>1 DEF Joined
  <2>4. n \in Way(d, pkt.id) /\ \A w \in Way(d, n) : w = n \/ w \in Way(d, m[2])
    BY <2>1, WayFacts DEF InHand
  <2>5. \A l \in links : \A x \in 1..Len(ls[l].queue) :
          /\ PktAt(ls, l, x).num \in 1..c /\ Placed(l, PktAt(ls, l, x))
          /\ Delivered(PktAt(ls, l, x), inbox)
    BY DEF Orderly, InFlight, BehindDelivered
  <2>6. Placed(m, pkt)
    BY <2>1, <2>4 DEF Placed
  <2> HIDE DEF m
  <2>7. InFlight(link', c)
    <3> SUFFICES ASSUME NEW l \in links, NEW x \in 1..Len(link'[l].queue)
                 PROVE  PktAt(link', l, x).num \in 1..c /\ Placed(l, PktAt(link', l, x))
      BY DEF InFlight
    <3>1. New(l, x) \/ Old(l, x)
      BY <2>3
    <3> QED  BY <2>5, <2>6, <3>1
  <2>8. BehindDelivered(link', inbox)
    <3> SUFFICES ASSUME NEW l \in links, NEW x \in 1..Len(link'[l].queue)
                 PROVE  Delivered(PktAt(link', l, x), inbox)
      BY DEF BehindDelivered
    <3>1. New(l, x) \/ Old(l, x)
      BY <2>3
    <3> QED  BY <2>5, <3>1
  <2>9. NoOvertaking(link')
    <3> SUFFICES ASSUME NEW l \in links, NEW k \in links,
                        NEW x \in 1..Len(link'[l].queue), NEW y \in 1..Len(link'[k].queue),
                        l # k \/ x # y,
                        SameFlow(PktAt(link', l, x), PktAt(link', k, y)),
                        PktAt(link', l, x).num <= PktAt(link', k, y).num
                 PROVE  l[1] \in Way(Dest(PktAt(link', l, x)), k[2]) \/ (l = k /\ x < y)
      BY DEF NoOvertaking
    <3>1. (New(l, x) \/ Old(l, x)) /\ (New(k, y) \/ Old(k, y))
      BY <2>3
    <3>2. CASE Old(l, x) /\ Old(k, y)
      BY <3>2 DEF Orderly, NoOvertaking
    <3>3. CASE New(l, x) /\ Old(k, y)
      <4>1. SameFlow(PktAt(ls, k, y), pkt) /\ pkt.num <= PktAt(ls, k, y).num
        BY <3>3 DEF SameFlow
      <4>2. n \in Way(d, k[2])
        BY <3>3, <4>1 DEF InHand
      <4> QED  BY <2>1, <3>3, <4>2
    <3>4. CASE Old(l, x) /\ New(k, y)
      <4>1. SameFlow(PktAt(ls, l, x), pkt) /\ PktAt(ls, l, x).num <= pkt.num
        BY <3>4
      <4>2. l[1] \in Way(d, n) /\ Dest(PktAt(ls, l, x)) = d
        BY <3>4, <4>1 DEF InHand, SameFlow
      <4>3. CASE l[1] \in Way(d, m[2])
        BY <3>4, <4>2, <4>3
      <4>4. CASE l[1] = n
        <5>1. l[2] = table[n][d]
          BY <2>5, <3>4, <4>2, <4>4 DEF Placed
        <5>2. l = <<l[1], l[2]>>
          <6>1. l \in Pairs
            BY LinkPairs DEF TableInv
          <6> QED  BY <6>1 DEF Pairs
        <5>3. l = m
          BY <4>4, <5>1, <5>2 DEF m
        <5>4. x < L
          BY <2>2, <3>4, <5>3
        <5> QED  BY <3>4, <5>3, <5>4
      <4> QED  BY <2>4, <4>2, <4>3, <4>4
    <3>5. ~(New(l, x) /\ New(k, y))
      OBVIOUS
    <3> QED  BY <3>1, <3>2, <3>3, <3>4, <3>5
  <2> QED  BY <1>2, <2>7, <2>8, <2>9 DEF Orderly
<1>3. \/ link' = ls /\ inbox' = inbox
      \/ link' = [ls EXCEPT ![m] = EnQ(m, ls[m], pkt, now)] /\ inbox' = inbox
  BY DEF Forward, Drop
<1> QED  BY <1>1, <1>2, <1>3

LEMMA DeliverOrder ==
  ASSUME TableInv, NEW n \in Nodes, NEW pkt \in Packets, NEW c \in Nat,
         NEW ls \in [links -> Queues], Orderly(ls, inbox, c),
         pkt.num \in 1..c, Delivered(pkt, inbox), InHand(n, pkt, ls),
         Dest(pkt) = n, Deliver(n, pkt, ls)
  PROVE  Orderly(link', inbox', c)
<1> DEFINE a == [pkt |-> pkt, from |-> TargetId(pkt)]
           ids == IdsOf(NodesMap)
<1>1. /\ inbox \in [ids -> Seq(Arrivals)]
      /\ \A p \in ids : \A i \in 1..Len(inbox[p]) : inbox[p][i].pkt.num \in 1..c
      /\ \A p \in ids : \A i, j \in 1..Len(inbox[p]) :
           i < j /\ inbox[p][i].pkt.id = inbox[p][j].pkt.id => inbox[p][i].pkt.num < inbox[p][j].pkt.num
  BY DEF Orderly, Inboxes
<1>2. a \in Arrivals /\ a.pkt = pkt
  BY LocateType, MapsAssumption DEF Arrivals, TargetId
<1>3. link' = ls /\ inbox' = [inbox EXCEPT ![n] = Append(@, a)]
  BY DEF Deliver
<1> HIDE DEF a
<1>4. CASE n \notin ids
  <2>1. inbox' = inbox
    BY <1>1, <1>3, <1>4
  <2> QED  BY <1>3, <2>1
<1>5. CASE n \in ids
  <2> DEFINE L == Len(inbox[n])
  <2>1. /\ inbox' \in [ids -> Seq(Arrivals)]
        /\ \A p \in ids \ {n} : inbox'[p] = inbox[p]
        /\ inbox'[n] = Append(inbox[n], a)
    BY <1>1, <1>2, <1>3, <1>5
  <2>2. /\ Len(inbox'[n]) = L + 1 /\ L \in Nat
        /\ inbox'[n][L + 1] = a
        /\ \A i \in 1..L : inbox'[n][i] = inbox[n][i]
    BY <1>1, <1>2, <1>5, <2>1
  <2>3. \A p \in ids : \A i \in 1..Len(inbox'[p]) :
          \/ i \in 1..Len(inbox[p]) /\ inbox'[p][i] = inbox[p][i]
          \/ p = n /\ i = L + 1 /\ inbox'[p][i] = a
    <3> SUFFICES ASSUME NEW p \in ids, NEW i \in 1..Len(inbox'[p])
                 PROVE  \/ i \in 1..Len(inbox[p]) /\ inbox'[p][i] = inbox[p][i]
                        \/ p = n /\ i = L + 1 /\ inbox'[p][i] = a
      OBVIOUS
    <3>1. CASE p # n
      BY <2>1, <3>1
    <3>2. CASE p = n
      <4> HIDE DEF L
      <4>1. i \in 1..L \/ i = L + 1
        BY <2>2, <3>2
      <4>2. CASE i = L + 1
        BY <2>2, <3>2, <4>2
      <4>3. CASE i \in 1..L
        BY <2>2, <3>2, <4>3 DEF L
      <4>4. QED  BY <4>1, <4>2, <4>3
    <3>3. QED  BY <3>1, <3>2
  <2> HIDE DEF L
  <2>4. inbox' \in Inboxes(c)
    <3>1. \A p \in ids : \A i \in 1..Len(inbox'[p]) : inbox'[p][i].pkt.num \in 1..c
      BY <1>1, <1>2, <2>3
    <3> QED  BY <2>1, <3>1 DEF Inboxes
  <2>5. ASSUME NEW p \in ids, NEW i \in DOMAIN inbox'[p], NEW j \in DOMAIN inbox'[p],
               i < j, inbox'[p][i].pkt.id = inbox'[p][j].pkt.id
        PROVE  inbox'[p][i].pkt.num < inbox'[p][j].pkt.num
    <3>1. i \in 1..Len(inbox'[p]) /\ j \in 1..Len(inbox'[p])
      BY <2>1
    <3>2. i \in 1..Len(inbox[p]) /\ inbox'[p][i] = inbox[p][i]
      BY <2>2, <2>3, <2>5, <3>1 DEF L
    <3>3. CASE j \in 1..Len(inbox[p]) /\ inbox'[p][j] = inbox[p][j]
      BY <1>1, <2>5, <3>2, <3>3
    <3>4. CASE p = n /\ inbox'[p][j] = a
      <4>1. inbox[p][i].pkt.id = pkt.id /\ Dest(pkt) = p /\ p \in DOMAIN inbox
        BY <1>1, <1>2, <2>5, <3>2, <3>4
      <4>2. inbox[p][i].pkt.num < pkt.num
        BY <3>2, <4>1 DEF Delivered
      <4> QED  BY <1>2, <3>2, <3>4, <4>2
    <3> QED  BY <2>3, <3>1, <3>3, <3>4
  <2>6. BehindDelivered(link', inbox')
    <3> SUFFICES ASSUME NEW l \in links, NEW x \in 1..Len(ls[l].queue),
                        NEW p \in DOMAIN inbox', NEW i \in 1..Len(inbox'[p]),
                        inbox'[p][i].pkt.id = PktAt(ls, l, x).id, Dest(PktAt(ls, l, x)) = p
                 PROVE  inbox'[p][i].pkt.num < PktAt(ls, l, x).num
      BY <1>3 DEF BehindDelivered, Delivered
    <3>1. p \in ids /\ p \in DOMAIN inbox
      BY <1>1, <2>1
    <3>2. CASE i \in 1..Len(inbox[p]) /\ inbox'[p][i] = inbox[p][i]
      <4>1. Delivered(PktAt(ls, l, x), inbox)
        BY DEF Orderly, BehindDelivered
      <4> QED  BY <3>1, <3>2, <4>1 DEF Delivered
    <3>3. CASE p = n /\ inbox'[p][i] = a
      <4>1. SameFlow(PktAt(ls, l, x), pkt)
        BY <1>2, <3>3 DEF SameFlow
      <4>2. PktAt(ls, l, x).num \in 1..c /\ l[1] # n
        BY <3>3 DEF Orderly, InFlight, Placed
      <4>3. Way(n, n) = {n}
        BY WayFacts
      <4>4. ~(PktAt(ls, l, x).num <= pkt.num)
        BY <4>1, <4>2, <4>3 DEF InHand
      <4>5. inbox'[p][i].pkt.num = pkt.num
        BY <1>2, <3>3
      <4> QED  BY <4>2, <4>4, <4>5
    <3> QED  BY <2>3, <3>1, <3>2, <3>3
  <2>7. InFlight(link', c) /\ NoOvertaking(link') /\ DOMAIN inbox' = ids
    BY <1>3, <2>1 DEF Orderly
  <2> QED  BY <2>4, <2>5, <2>6, <2>7 DEF Orderly
<1> QED  BY <1>4, <1>5

LEMMA RecvOrder ==
  ASSUME TableInv, NEW n \in Nodes, NEW pkt \in Packets, NEW c \in Nat,
         NEW ls \in [links -> Queues], Orderly(ls, inbox, c),
         pkt.num \in 1..c, Delivered(pkt, inbox), InHand(n, pkt, ls),
         Recv(n, pkt, ls)
  PROVE  Orderly(link', inbox', c)
<1>1. CASE Discard(pkt, ls)
  BY <1>1 DEF Discard
<1>2. CASE Dest(pkt) = n /\ Deliver(n, pkt, ls)
  BY <1>2, DeliverOrder
<1>3. CASE /\ Dest(pkt) \in Nodes \ {n}
           /\ <<n, table[n][Dest(pkt)]>> \in links
           /\ Forward(<<n, table[n][Dest(pkt)]>>, pkt, ls)
  BY <1>3, ForwardOrder
<1> QED  BY <1>1, <1>2, <1>3 DEF Recv
(***************************************************************************)
(* The numbers of the packets gone so far, and of the last one sent.       *)
(***************************************************************************)
CountInv ==
  count \in 0..MaxPackets /\ dropped \subseteq 1..count /\ strays \subseteq 1..count

OrderInv == TableInv /\ BInv /\ CountInv /\ Orderly(link, inbox, count)

LEMMA RecvDrops ==
  ASSUME NEW n, NEW pkt, NEW ls, NEW c, pkt.num \in 1..c,
         dropped \subseteq 1..c, strays \subseteq 1..c, Recv(n, pkt, ls)
  PROVE  dropped' \subseteq 1..c /\ strays' \subseteq 1..c
BY DEF Recv, Discard, Drop, Deliver, Forward

(***************************************************************************)
(* A packet just sent is behind all of its flow.                           *)
(***************************************************************************)
LEMMA SendOrder ==
  ASSUME OrderInv, NEW a \in IdsOf(PeerList), NEW b \in IdsOf(PeerList), NEW len \in Lengths,
         Send(a, b, len)
  PROVE  Orderly(link', inbox', count') /\ CountInv'
<1> DEFINE pkt == Packet(count', a, b, len)
           c == count + 1
<1>1. count \in Nat /\ count' = c /\ c \in Nat /\ count < MaxPackets /\ MaxPackets \in Nat
  BY RouterAssumption DEF OrderInv, BInv, Send
<1>2. pkt \in Packets /\ pkt.num = c /\ pkt.id = a
  BY <1>1 DEF Packet, SpiffyInit, Packets, Ports, Ips
<1>3. a \in Nodes
  <2>1. \A i \in DOMAIN PeerList : PeerList[i] \in PeerLines
    BY MapsAssumption
  <2> QED  BY <2>1 DEF IdsOf, PeerLines
<1>4. Recv(a, pkt, link)
  BY DEF Send
<1>5. link \in [links -> Queues] /\ TableInv
  BY DEF OrderInv, BInv
<1>6. Orderly(link, inbox, count)
  BY DEF OrderInv
<1> HIDE DEF pkt
<1>7. \A k \in 1..count : k \in 1..c /\ k < c
  BY <1>1
<1>8. Orderly(link, inbox, c)
  <2>1. InFlight(link, c)
    BY <1>6, <1>7 DEF Orderly, InFlight
  <2>2. inbox \in Inboxes(c)
    BY <1>6, <1>7 DEF Orderly, Inboxes
  <2> QED  BY <1>6, <2>1, <2>2 DEF Orderly
<1>9. Delivered(pkt, inbox)
  BY <1>2, <1>6, <1>7 DEF Delivered, Orderly, Inboxes
<1>10. InHand(a, pkt, link)
  <2>1. Dest(pkt) \in Nodes => a \in Way(Dest(pkt), a)
    BY <1>3, <1>5, WayFacts
  <2>2. ASSUME NEW l \in links, NEW x \in 1..Len(link[l].queue), SameFlow(PktAt(link, l, x), pkt)
        PROVE  /\ l[1] \in Way(Dest(pkt), a)
               /\ ~(pkt.num <= PktAt(link, l, x).num)
    <3>1. PktAt(link, l, x).num \in 1..count /\ Placed(l, PktAt(link, l, x))
      BY <1>6 DEF Orderly, InFlight
    <3>2. ~(pkt.num <= PktAt(link, l, x).num)
      BY <1>1, <1>2, <3>1
    <3> QED  BY <1>2, <2>2, <3>1, <3>2 DEF Placed, SameFlow
  <2> QED  BY <1>2, <2>1, <2>2 DEF InHand
<1>11. pkt.num \in 1..c
  BY <1>1, <1>2
<1>12. Orderly(link', inbox', c)
  BY <1>1, <1>2, <1>3, <1>4, <1>5, <1>8, <1>9, <1>10, <1>11, RecvOrder
<1>13. dropped' \subseteq 1..c /\ strays' \subseteq 1..c
  <2>1. dropped \subseteq 1..c /\ strays \subseteq 1..c
    BY <1>7 DEF OrderInv, CountInv
  <2> QED  BY <1>4, <1>11, <2>1, RecvDrops
<1>14. count' \in 0..MaxPackets
  BY <1>1
<1> QED  BY <1>1, <1>12, <1>13, <1>14 DEF CountInv

(***************************************************************************)
(* The head of a queue, once taken off, is ahead of what is behind it.     *)
(***************************************************************************)
LEMMA RunOrder ==
  ASSUME OrderInv, NEW m \in links, Run(m)
  PROVE  Orderly(link', inbox', count) /\ CountInv'
<1> DEFINE ls == [link EXCEPT ![m] = DeQ(link[m])]
           pkt == PktAt(link, m, 1)
           n == m[2]
           d == Dest(pkt)
<1>1. TableInv /\ link \in [links -> Queues] /\ count \in Nat /\ Orderly(link, inbox, count)
  BY DEF OrderInv, BInv
<1>2. link[m].queue # << >> /\ link[m].queue \in Seq(Entries) /\ link[m] \in Queues
  BY <1>1 DEF Run, Due, Queues, Entries
<1>3. pkt = Head(link[m].queue).pkt /\ pkt \in Packets /\ 1 \in 1..Len(link[m].queue)
  <2>1. Head(link[m].queue) = link[m].queue[1] /\ 1 \in 1..Len(link[m].queue)
    BY <1>2
  <2>2. link[m].queue[1] \in Entries
    BY <1>2, <2>1
  <2> QED  BY <2>1, <2>2 DEF PktAt, Entries
<1>4. Recv(n, pkt, ls)
  BY <1>3 DEF Run
<1>5. ls \in [links -> Queues]
  <2>1. Good(m, DeQ(link[m]), now)
    <3>1. m \in Pairs /\ now \in Nat /\ Good(m, link[m], now)
      BY LinkPairs DEF OrderInv, BInv
    <3>2. Head(link[m].queue).tx <= Rate[m] * now
      BY DEF Run, Due
    <3> QED  BY <1>2, <3>1, <3>2, DeQGood
  <2> QED  BY <1>1, <2>1 DEF Good
<1>6. Left(link, ls, m)
  BY <1>1, <1>2, DeQSlots
<1> HIDE DEF ls
<1> DEFINE At(l, x) == IF l = m THEN x + 1 ELSE x
<1>7. \A l \in links : \A x \in 1..Len(ls[l].queue) :
        At(l, x) \in 1..Len(link[l].queue) /\ PktAt(ls, l, x) = PktAt(link, l, At(l, x))
  BY <1>6 DEF Left
<1>8. \A l \in links : \A x, y \in 1..Len(ls[l].queue) :
        /\ x < y <=> At(l, x) < At(l, y)
        /\ x = y <=> At(l, x) = At(l, y)
        /\ ~(l = m /\ At(l, x) = 1)
        /\ ~(At(l, x) < 1)
  OBVIOUS
<1> HIDE DEF At
<1>9. InFlight(ls, count)
  BY <1>1, <1>7 DEF Orderly, InFlight
<1>10. NoOvertaking(ls)
  <2> SUFFICES ASSUME NEW l \in links, NEW k \in links,
                      NEW x \in 1..Len(ls[l].queue), NEW y \in 1..Len(ls[k].queue),
                      l # k \/ x # y,
                      SameFlow(PktAt(ls, l, x), PktAt(ls, k, y)),
                      PktAt(ls, l, x).num <= PktAt(ls, k, y).num
               PROVE  l[1] \in Way(Dest(PktAt(ls, l, x)), k[2]) \/ (l = k /\ x < y)
    BY DEF NoOvertaking
  <2>1. l # k \/ At(l, x) # At(k, y)
    BY <1>8
  <2>2. l[1] \in Way(Dest(PktAt(ls, l, x)), k[2]) \/ (l = k /\ At(l, x) < At(k, y))
    BY <1>1, <1>7, <2>1 DEF Orderly, NoOvertaking
  <2> QED  BY <1>8, <2>2
<1>11. Orderly(ls, inbox, count)
  <2>1. BehindDelivered(ls, inbox)
    BY <1>1, <1>7 DEF Orderly, BehindDelivered
  <2> QED  BY <1>1, <1>9, <1>10, <2>1 DEF Orderly
<1>12. pkt.num \in 1..count /\ Placed(m, pkt) /\ Delivered(pkt, inbox)
  BY <1>1, <1>3 DEF Orderly, InFlight, BehindDelivered
<1>13. m[1] \in Nodes /\ n \in Nodes /\ d \in Nodes /\ m[1] # d /\ n = table[m[1]][d]
  <2>1. m \in Pairs
    BY <1>1, LinkPairs DEF TableInv
  <2> QED  BY <1>12, <2>1 DEF Pairs, Placed
<1>14. pkt.id \in Nodes
  <2>1. \A i \in DOMAIN PeerList : PeerList[i] \in PeerLines
    BY MapsAssumption
  <2> QED  BY <1>3, <2>1 DEF Packets, IdsOf, PeerLines
<1>15. \A w \in Nodes : m[1] \in Way(d, w) => n \in Way(d, w)
  BY <1>1, <1>13, WayFacts
<1> HIDE DEF pkt, n, d
<1>16. InHand(n, pkt, ls)
  <2>1. n \in Way(d, pkt.id)
    BY <1>12, <1>14, <1>15 DEF Placed, d
  <2>2. ASSUME NEW l \in links, NEW x \in 1..Len(ls[l].queue), SameFlow(PktAt(ls, l, x), pkt)
        PROVE  /\ PktAt(ls, l, x).num <= pkt.num => l[1] \in Way(d, n)
               /\ pkt.num <= PktAt(ls, l, x).num => n \in Way(d, l[2])
    <3> DEFINE y == At(l, x)
    <3>1. y \in 1..Len(link[l].queue) /\ PktAt(ls, l, x) = PktAt(link, l, y)
          /\ (l # m \/ y # 1) /\ ~(y < 1)
      BY <1>7, <1>8
    <3>2. Dest(PktAt(link, l, y)) = d /\ SameFlow(PktAt(link, l, y), pkt)
          /\ SameFlow(pkt, PktAt(link, l, y))
      BY <2>2, <3>1 DEF SameFlow, d
    <3> HIDE DEF y
    <3>3. PktAt(link, l, y).num <= pkt.num => l[1] \in Way(d, n)
      <4>1. PktAt(link, l, y).num <= pkt.num => l[1] \in Way(d, m[2]) \/ (l = m /\ y < 1)
        BY <1>1, <1>3, <3>1, <3>2 DEF Orderly, NoOvertaking, pkt
      <4> QED  BY <3>1, <4>1 DEF n
    <3>4. pkt.num <= PktAt(link, l, y).num => n \in Way(d, l[2])
      <4>1. pkt.num <= PktAt(link, l, y).num => m[1] \in Way(d, l[2]) \/ (m = l /\ 1 < y)
        BY <1>1, <1>3, <3>1, <3>2 DEF Orderly, NoOvertaking, pkt, d
      <4>2. l[2] \in Nodes
        <5>1. l \in Pairs
          BY <1>1, LinkPairs DEF TableInv
        <5> QED  BY <5>1 DEF Pairs
      <4>3. n \in Way(d, n)
        BY <1>1, <1>13, WayFacts
      <4> QED  BY <1>15, <4>1, <4>2, <4>3 DEF n
    <3> QED  BY <3>1, <3>3, <3>4
  <2> QED  BY <2>1, <2>2 DEF InHand, d
<1>17. Orderly(link', inbox', count)
  BY <1>1, <1>3, <1>4, <1>5, <1>11, <1>12, <1>13, <1>16, RecvOrder
<1>18. CountInv'
  <2>1. /\ dropped \subseteq 1..count /\ strays \subseteq 1..count
        /\ count' = count /\ count \in 0..MaxPackets
    BY DEF OrderInv, CountInv, Run
  <2>2. dropped' \subseteq 1..count /\ strays' \subseteq 1..count
    BY <1>4, <1>12, <2>1, RecvDrops
  <2> QED  BY <2>1, <2>2 DEF CountInv
<1> QED  BY <1>17, <1>18
THEOREM OrderInvariance == Spec => []OrderInv
<1>1. Init => OrderInv
  <2> SUFFICES ASSUME Init PROVE OrderInv
    OBVIOUS
  <2>1. TableInv /\ BInv
    BY BandwidthInit DEF Init, TableInv
  <2>2. CountInv
    BY RouterAssumption DEF Init, CountInv
  <2>3. \A l \in links : Len(link[l].queue) = 0
    BY DEF Init, NewQueue
  <2>4. \A p \in DOMAIN inbox : Len(inbox[p]) = 0 /\ DOMAIN inbox[p] = {}
    BY DEF Init
  <2>5. inbox \in Inboxes(count)
    <3> DEFINE e == << >>
    <3>1. e \in Seq(Arrivals) /\ Len(e) = 0
      OBVIOUS
    <3>2. inbox = [p \in IdsOf(NodesMap) |-> e]
      BY DEF Init
    <3> HIDE DEF e
    <3> QED  BY <3>1, <3>2 DEF Inboxes
  <2>6. InFlight(link, count) /\ NoOvertaking(link) /\ BehindDelivered(link, inbox)
    BY <2>3 DEF InFlight, NoOvertaking, BehindDelivered
  <2> QED  BY <2>1, <2>2, <2>4, <2>5, <2>6 DEF OrderInv, Orderly
<1>2. OrderInv /\ [Next]_vars => OrderInv'
  <2> SUFFICES ASSUME OrderInv, [Next]_vars PROVE OrderInv'
    OBVIOUS
  <2>1. BInv' /\ TableInv'
    <3>1. TableInv'
      BY DEF OrderInv, TableInv, Next, Send, Run, Tick, vars
    <3> QED  BY <3>1, BandwidthNext DEF OrderInv
  <2>2. Orderly(link', inbox', count') /\ CountInv' /\ UNCHANGED <<links, table>>
    <3>1. CASE \E f \in Flows, len \in Lengths : Send(f[1], f[2], len)
      <4>1. PICK f \in Flows, len \in Lengths : Send(f[1], f[2], len)
        BY <3>1
      <4>2. f[1] \in IdsOf(PeerList) /\ f[2] \in IdsOf(PeerList)
        BY MapsAssumption
      <4> QED  BY <4>1, <4>2, SendOrder DEF Send
    <3>2. CASE \E m \in links : Run(m)
      <4>1. PICK m \in links : Run(m)
        BY <3>2
      <4>2. Orderly(link', inbox', count) /\ CountInv'
        BY <4>1, RunOrder
      <4> QED  BY <4>1, <4>2 DEF Run
    <3>3. CASE Tick
      BY <3>3 DEF Tick, OrderInv, CountInv
    <3>4. CASE UNCHANGED vars
      BY <3>4 DEF vars, OrderInv, CountInv
    <3> QED  BY <3>1, <3>2, <3>3, <3>4 DEF Next
  <2>3. Orderly(link, inbox, count)'
    <3>1. \A d, n : Way(d, n)' = Way(d, n)
      BY <2>2 DEF Way
    <3> QED  BY <2>2, <3>1 DEF Orderly, InFlight, Placed, NoOvertaking, BehindDelivered
  <2> QED  BY <2>1, <2>2, <2>3 DEF OrderInv
<1> QED  BY <1>1, <1>2, PTL DEF Spec

(***************************************************************************)
(* Packets of one peer to another never overtake each other, whatever the  *)
(* network, the rates, the queues and the drops: they all go the one way   *)
(* the tables give, and every queue on it is first in, first out.          *)
(***************************************************************************)
THEOREM PacketsInOrder == Spec => []InOrder
<1>1. OrderInv => InOrder
  BY DEF OrderInv, Orderly, InOrder
<1> QED  BY <1>1, OrderInvariance, PTL

(***************************************************************************)
(* Every variable has the type of the simulator's data.                    *)
(***************************************************************************)
THEOREM RouterTyped == Spec => []TypeOK
<1>1. OrderInv => TypeOK
  <2> SUFFICES ASSUME OrderInv PROVE TypeOK
    OBVIOUS
  <2>1. links \subseteq Nodes \X Nodes
    BY RouterAssumption DEF OrderInv, TableInv
  <2>2. \A s \in Nodes : table[s] \in [Nodes \ {s} -> Nodes]
    <3> SUFFICES ASSUME NEW s \in Nodes PROVE table[s] \in [Nodes \ {s} -> Nodes]
      OBVIOUS
    <3>1. CASE \E d \in Nodes : d # s
      BY <3>1, TableRoutes DEF OrderInv
    <3>2. CASE Nodes = {s}
      <4>1. table[s] = CreateTable(links, s)
        BY DEF OrderInv, TableInv
      <4>2. Nodes \ {s} = {}
        BY <3>2
      <4> QED  BY <4>1, <4>2 DEF CreateTable
    <3> QED  BY <3>1, <3>2
  <2>3. link \in [links -> Queues] /\ now \in Nat
    BY DEF OrderInv, BInv
  <2>4. /\ count \in 0..MaxPackets
        /\ dropped \subseteq 1..MaxPackets /\ strays \subseteq 1..MaxPackets
    BY RouterAssumption DEF OrderInv, CountInv
  <2>5. inbox \in [IdsOf(NodesMap) -> Seq([pkt : Packets, from : Nodes \cup {NoPeer}])]
    BY DEF OrderInv, Orderly, Inboxes, Arrivals
  <2> QED  BY <2>1, <2>2, <2>3, <2>4, <2>5 DEF TypeOK
<1> QED  BY <1>1, OrderInvariance, PTL
=============================================================================
