------------------------------ MODULE Transfer ------------------------------
(***************************************************************************)
(* One chunk on its way from one peer to another: the sender's window,     *)
(* congestion control and packet tracker, the receiver's buffer, and a UDP *)
(* network between them that loses, reorders and (MaxDup times) duplicates *)
(* packets.                                                                *)
(*                                                                         *)
(* A behaviour starts when the sender has handled the GET.  Each action is *)
(* one pass through process_inbound_udp or one expired entry of peer_run's *)
(* timeout loop.  The duplicate check before spiffy_sendto                 *)
(* (peer.c:173-182) never suppresses a data packet: tracked packets hold   *)
(* their sequence number in network byte order and the new packet in host  *)
(* order.                                                                  *)
(***************************************************************************)
EXTENDS SendWindow, RecvBuffer

CONSTANTS
  Receiver,     \* the peer that asked for the chunk
  Chunk,        \* the chunk
  MaxDup,       \* bound: DATA and ACK packets delivered a second time
  MaxGets       \* bound: times the GET is delivered again

ASSUME TransferAssumption ==
  /\ Receiver \in Peers
  /\ Chunk \in Offsets
  /\ MaxDup \in Nat
  /\ MaxGets \in Nat

VARIABLES
  data,         \* the sender's data_t for Receiver
  tracker,      \* the sender's p_tracker
  buffer,       \* the receiver's recv_buffer_t
  gets,         \* repeated deliveries of the GET so far
  dataNet,      \* sequence numbers of the DATA packets in flight
  ackNet,       \* ack numbers of the ACK packets in flight
  dups          \* duplicate deliveries so far

vars == <<data, tracker, buffer, gets, dataNet, ackNet, dups>>

(***************************************************************************)
(* spiffy_recvfrom: a packet is taken from the network, or delivered while *)
(* a second copy stays in flight.                                          *)
(***************************************************************************)
Consume(net, rest, m) ==
  /\ m \in net
  /\ \/ rest = net \ {m} /\ dups' = dups
     \/ rest = net /\ dups < MaxDup /\ dups' = dups + 1

Init ==
  /\ \E g \in Garbage :
       LET d == InitDatalist(Chunk, g) IN
       /\ data = SendData(d)
       /\ tracker = CreateTimer({}, Receiver, Chunk, SentSeqs(d))
       /\ dataNet = SentSeqs(d)
  /\ buffer = NewBuffer(Chunk, Receiver)
  /\ gets = 0
  /\ ackNet = {}
  /\ dups = 0

(***************************************************************************)
(* Another copy of the GET: handle_packet type 2 builds a new data_t,     *)
(* which hides the old one, and sends the first packet again.              *)
(***************************************************************************)
RecvGet ==
  /\ gets < MaxGets
  /\ gets' = gets + 1
  /\ \E g \in Garbage :
       LET d == InitDatalist(Chunk, g) IN
       /\ data' = SendData(d)
       /\ tracker' = CreateTimer(tracker, Receiver, Chunk, SentSeqs(d))
       /\ dataNet' = dataNet \cup SentSeqs(d)
  /\ UNCHANGED <<buffer, ackNet, dups>>

(***************************************************************************)
(* An ACK reaches the sender: handle_ack, then the packets it returned are *)
(* given a timer and sent.                                                 *)
(***************************************************************************)
RecvAck(n) ==
  /\ Consume(ackNet, ackNet', n)
  /\ \E h \in {HandleAck(data, Receiver, n - 1)} :
       /\ data' = h.data
       /\ tracker' = CreateTimer(RemoveFromTracker(tracker, Receiver, h.done),
                                 Receiver, h.data.offset, h.out)
       /\ dataNet' = dataNet \cup h.out
  /\ UNCHANGED <<buffer, gets>>

(***************************************************************************)
(* A DATA packet reaches the receiver: recv_data stores it and ACKs.       *)
(***************************************************************************)
RecvDataPkt(q) ==
  /\ Consume(dataNet, dataNet', q)
  /\ buffer' = RecvData(buffer, q, Chunk)
  /\ ackNet' = ackNet \cup {buffer'.expected}
  /\ UNCHANGED <<data, tracker, gets>>

(***************************************************************************)
(* An entry of the tracker has been waiting for TIMEOUT: peer_run sends    *)
(* its packet again and calls process_packet_loss with the packet's        *)
(* ack_num, which is 0 in every data packet.                               *)
(***************************************************************************)
DataAckNum == 0

Timeout(e) ==
  /\ e \in tracker
  /\ dataNet' = dataNet \cup {e.seq}
  /\ data' = ProcessPacketLoss(data, Receiver, DataAckNum)
  /\ UNCHANGED <<tracker, buffer, gets, ackNet, dups>>

(***************************************************************************)
(* The network drops a packet.                                             *)
(***************************************************************************)
Lose ==
  /\ \/ \E q \in dataNet : dataNet' = dataNet \ {q} /\ UNCHANGED ackNet
     \/ \E n \in ackNet : ackNet' = ackNet \ {n} /\ UNCHANGED dataNet
  /\ UNCHANGED <<data, tracker, buffer, gets, dups>>

Next ==
  \/ RecvGet
  \/ \E n \in Seqs : RecvAck(n)
  \/ \E q \in Seqs : RecvDataPkt(q)
  \/ \E e \in tracker : Timeout(e)
  \/ Lose

Spec == Init /\ [][Next]_vars

(***************************************************************************)
(* peer_run polls the socket and the tracker in every turn of its loop, so *)
(* an entry that stays is resent; the link is fair-lossy: a packet sent    *)
(* again and again is delivered in the end.                                *)
(***************************************************************************)
Fairness ==
  /\ \A q \in Seqs : []<>(q \in dataNet) => []<><<RecvDataPkt(q)>>_vars
  /\ \A n \in Seqs : []<>(n \in ackNet) => []<><<RecvAck(n)>>_vars
  /\ \A q \in Seqs : WF_vars(\E e \in tracker : e.seq = q /\ Timeout(e))

FairSpec == Spec /\ Fairness
-----------------------------------------------------------------------------
TypeOK ==
  /\ data \in Data
  /\ tracker \subseteq Trackers
  /\ buffer \in Buffers
  /\ gets \in 0..MaxGets
  /\ dataNet \subseteq Seqs
  /\ ackNet \subseteq Seqs
  /\ dups \in 0..MaxDup

(***************************************************************************)
(* An ACK covers only packets the receiver holds, although recv_data never *)
(* looks at packet 0 when it computes the number: the sender's first       *)
(* window holds packet 0 alone, so nothing else can arrive before it.      *)
(***************************************************************************)
HoldsFirst(n) == \A i \in Idx : i < n => i \in Recved(buffer)

AckHonest == \A n \in ackNet : HoldsFirst(n)

(***************************************************************************)
(* The window never moves over a packet the receiver lacks: everything at  *)
(* or below start, and everything marked ACKED, has been stored there.     *)
(***************************************************************************)
AckedIsReceived ==
  \A i \in Idx : (i <= data.start \/ data.state[i] = "ACKED")
                    => i \in Recved(buffer)

(***************************************************************************)
(* A packet sent and not acknowledged is on the tracker, so peer_run will  *)
(* send it again until its ACK arrives.                                    *)
(***************************************************************************)
UnackedIsTracked ==
  \A i \in Idx : data.state[i] = "UNACKED" =>
     \E e \in tracker : e.sock = Receiver /\ e.seq = i + 1 /\ e.offset = data.offset

(***************************************************************************)
(* start and end delimit the window whatever order ACKs arrive in, and the *)
(* packets past end are exactly the ones never sent by send_data.          *)
(***************************************************************************)
WindowShape ==
  /\ data.start <= data.end
  /\ data.send_window >= 1
  /\ \A i \in Idx : data.state[i] = "UNSEND" <=> i > data.end

(***************************************************************************)
(* A packet that had no timer goes out at most one congestion window       *)
(* beyond what the receiver holds in order.  That binds fast retransmit    *)
(* too, which may send a packet send_data never sent, and holds although   *)
(* ACKs are lost, overtaken and answered in a window that was reset by a   *)
(* second GET in the meantime.                                             *)
(***************************************************************************)
NeverFarAhead ==
  [][\A e \in tracker' \ tracker :
       \E n \in 0..N : HoldsFirst(n) /\ e.seq <= n + data'.send_window]_vars

(***************************************************************************)
(* The transfer implements ChunkDelivery.                                  *)
(***************************************************************************)
Delivery ==
  INSTANCE ChunkDelivery WITH
    Packets   <- Idx,
    delivered <- Recved(buffer),
    acked     <- {i \in Idx : data.state[i] = "ACKED"}

ImplementsDelivery == Delivery!Spec

(***************************************************************************)
(* Reliability: every packet of the chunk reaches the receiver.            *)
(***************************************************************************)
EventuallyComplete == <>(Full(buffer))
=============================================================================
