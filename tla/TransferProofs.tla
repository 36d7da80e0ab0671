--------------------------- MODULE TransferProofs ---------------------------
(***************************************************************************)
(* Proofs about Transfer, for every chunk size, every initial ssthresh and *)
(* any number of lost, reordered and repeated packets.                     *)
(***************************************************************************)
EXTENDS Transfer, SendWindowProofs, RecvBufferProofs, TLAPS

-----------------------------------------------------------------------------
(***************************************************************************)
(* The inductive invariant.                                                *)
(*                                                                         *)
(* One chunk, one receiver: every timer is for them.                       *)
(***************************************************************************)
OneUpload ==
  /\ data.offset = Chunk
  /\ \A e \in tracker : e.sock = Receiver /\ e.offset = Chunk

(***************************************************************************)
(* Packets 1..expected-1 are in the buffer; packet 0 is not looked at.     *)
(***************************************************************************)
ReceivedPrefix ==
  \A i \in Idx : 1 <= i /\ i < buffer.expected => i \in Recved(buffer)

(***************************************************************************)
(* Until packet 0 is in the buffer the sender has nothing else to offer:   *)
(* its window is one packet wide and no ACK can open it.                   *)
(***************************************************************************)
ZeroFirst ==
  0 \notin Recved(buffer) =>
    /\ dataNet \subseteq {1}
    /\ ackNet = {}
    /\ \A e \in tracker : e.seq = 1

IInv ==
  /\ TypeOK
  /\ OneUpload
  /\ ReceivedPrefix
  /\ ZeroFirst
  /\ AckHonest
  /\ AckedIsReceived
  /\ WindowShape
  /\ UnackedIsTracked

-----------------------------------------------------------------------------
(***************************************************************************)
(* A timeout changes nothing but the network: the key it hands to          *)
(* process_packet_loss is 0, which is no peer.                             *)
(***************************************************************************)
LEMMA TimeoutKeepsData ==
  ASSUME NEW d  PROVE  ProcessPacketLoss(d, Receiver, DataAckNum) = d
<1>1. Receiver # DataAckNum
  BY ProtocolAssumption, TransferAssumption DEF DataAckNum
<1>2. QED  BY <1>1 DEF ProcessPacketLoss

(***************************************************************************)
(* The invariant holds once the GET has been handled.                      *)
(***************************************************************************)
LEMMA InitIInv == Init => IInv
<1>. SUFFICES ASSUME Init PROVE IInv
  OBVIOUS
<1>1. PICK g \in Garbage :
        /\ data = SendData(InitDatalist(Chunk, g))
        /\ tracker = CreateTimer({}, Receiver, Chunk, SentSeqs(InitDatalist(Chunk, g)))
        /\ dataNet = SentSeqs(InitDatalist(Chunk, g))
  BY DEF Init
<1>2. /\ N \in Nat \ {0} /\ Chunk \in Offsets /\ Receiver \in Peers
      /\ NoData \notin Offsets /\ MaxDup \in Nat /\ MaxGets \in Nat
  BY ProtocolAssumption, TransferAssumption, RecvBufferAssumption
<1>3. /\ data \in Data /\ Shape(data) /\ data.offset = Chunk
      /\ data.start = -1
      /\ \A i \in Idx : data.state[i] = IF i = 0 THEN "UNACKED" ELSE "UNSEND"
  BY <1>1, FirstSend, TransferAssumption
<1>4. /\ dataNet = {1}
      /\ tracker = {[sock |-> Receiver, seq |-> 1, offset |-> Chunk]}
  BY <1>1, FirstSend, TransferAssumption DEF CreateTimer
<1>5. /\ buffer \in Buffers /\ buffer.expected = 1 /\ Recved(buffer) = {}
  BY <1>2 DEF Init, NewBuffer, Buffers, Recved
<1>6. TypeOK
  BY <1>2, <1>3, <1>4, <1>5 DEF Init, TypeOK, Trackers, Seqs
<1>7. OneUpload /\ ReceivedPrefix /\ ZeroFirst /\ AckHonest
  BY <1>2, <1>3, <1>4, <1>5 DEF Init, OneUpload, ReceivedPrefix, ZeroFirst, AckHonest, HoldsFirst, Idx
<1>8. AckedIsReceived /\ WindowShape
  BY <1>2, <1>3 DEF AckedIsReceived, WindowShape, Shape, Idx
<1>9. UnackedIsTracked
  <2>1. \A i \in Idx : data.state[i] = "UNACKED" => i + 1 = 1
    BY <1>2, <1>3 DEF Idx
  <2>2. QED  BY <1>3, <1>4, <2>1 DEF UnackedIsTracked
<1>10. QED  BY <1>6, <1>7, <1>8, <1>9 DEF IInv

(***************************************************************************)
(* create_timer: after it every packet in out has a timer, and the timers  *)
(* that were there stay.                                                   *)
(***************************************************************************)
LEMMA CreateTimerFacts ==
  ASSUME NEW t \in SUBSET Trackers, NEW out \in SUBSET Seqs,
         \A e \in t : e.sock = Receiver /\ e.offset = Chunk
  PROVE  /\ CreateTimer(t, Receiver, Chunk, out) \in SUBSET Trackers
         /\ t \subseteq CreateTimer(t, Receiver, Chunk, out)
         /\ \A e \in CreateTimer(t, Receiver, Chunk, out) :
              e.sock = Receiver /\ e.offset = Chunk /\ (e \in t \/ e.seq \in out)
         /\ \A q \in out : \E e \in CreateTimer(t, Receiver, Chunk, out) : e.seq = q
<1>. DEFINE New(q) == [sock |-> Receiver, seq |-> q, offset |-> Chunk]
            fresh  == {q \in out : \A e \in t : e.seq # q}
            T      == CreateTimer(t, Receiver, Chunk, out)
<1>1. T = t \cup {New(q) : q \in fresh}
  BY DEF CreateTimer
<1>2. \A q \in fresh : /\ New(q) \in Trackers /\ New(q).sock = Receiver
                       /\ New(q).offset = Chunk /\ New(q).seq = q /\ q \in out
  BY TransferAssumption DEF Trackers
<1>3. \A q \in out : q \in fresh \/ \E e \in t : e.seq = q
  OBVIOUS
<1>. HIDE DEF New, fresh, T
<1>4. \A q \in out : \E e \in T : e.seq = q
  <2>. SUFFICES ASSUME NEW q \in out PROVE \E e \in T : e.seq = q
    OBVIOUS
  <2>1. CASE q \in fresh
    BY <1>1, <1>2, <2>1
  <2>2. CASE \E e \in t : e.seq = q
    BY <1>1, <2>2
  <2>3. QED  BY <1>3, <2>1, <2>2
<1>5. /\ T \in SUBSET Trackers /\ t \subseteq T
      /\ \A e \in T : e.sock = Receiver /\ e.offset = Chunk
                       /\ (e \in t \/ e.seq \in out)
  BY <1>1, <1>2
<1>6. QED  BY <1>4, <1>5 DEF T

(***************************************************************************)
(* Every action preserves the invariant.                                   *)
(***************************************************************************)
LEMMA GetStep == IInv /\ RecvGet => IInv'
<1>. SUFFICES ASSUME IInv, RecvGet PROVE IInv'
  OBVIOUS
<1>. USE DEF IInv
<1>1. PICK g \in Garbage :
        /\ data' = SendData(InitDatalist(Chunk, g))
        /\ tracker' = CreateTimer(tracker, Receiver, Chunk,
                                  SentSeqs(InitDatalist(Chunk, g)))
        /\ dataNet' = dataNet \cup SentSeqs(InitDatalist(Chunk, g))
  BY DEF RecvGet
<1>2. /\ N \in Nat \ {0} /\ MaxGets \in Nat
  BY ProtocolAssumption, TransferAssumption
<1>3. /\ data' \in Data /\ Shape(data') /\ data'.offset = Chunk
      /\ data'.start = -1
      /\ \A i \in Idx : data'.state[i] = IF i = 0 THEN "UNACKED" ELSE "UNSEND"
      /\ tracker' = CreateTimer(tracker, Receiver, Chunk, {1})
      /\ dataNet' = dataNet \cup {1}
  BY <1>1, FirstSend, TransferAssumption
<1>4. /\ buffer' = buffer /\ ackNet' = ackNet /\ dups' = dups
      /\ gets' \in 0..MaxGets
  BY <1>2 DEF RecvGet, TypeOK
<1>5. {1} \subseteq Seqs
  BY <1>2 DEF Seqs
<1>6. /\ tracker' \in SUBSET Trackers
      /\ \A e \in tracker' : e.sock = Receiver /\ e.offset = Chunk
                             /\ (e \in tracker \/ e.seq = 1)
      /\ \E e \in tracker' : e.seq = 1
  BY <1>3, <1>5, CreateTimerFacts DEF TypeOK, OneUpload
<1>7. TypeOK'
  BY <1>3, <1>4, <1>5, <1>6 DEF TypeOK
<1>8. OneUpload' /\ ReceivedPrefix' /\ ZeroFirst' /\ AckHonest'
  BY <1>3, <1>4, <1>6
     DEF OneUpload, ReceivedPrefix, ZeroFirst, AckHonest, HoldsFirst, Recved
<1>9. AckedIsReceived' /\ WindowShape'
  BY <1>2, <1>3 DEF AckedIsReceived, WindowShape, Shape, Idx
<1>10. UnackedIsTracked'
  <2>1. \A i \in Idx : data'.state[i] = "UNACKED" => i + 1 = 1
    BY <1>2, <1>3 DEF Idx
  <2>2. QED  BY <1>3, <1>6, <2>1 DEF UnackedIsTracked
<1>11. QED  BY <1>7, <1>8, <1>9, <1>10

(***************************************************************************)
(* handle_ack: what it acknowledges the receiver holds, what it sends gets *)
(* a timer, and it takes timers only off packets it marks ACKED.           *)
(***************************************************************************)
LEMMA AckStep ==
  ASSUME NEW n \in Seqs  PROVE IInv /\ RecvAck(n) => IInv'
<1>. SUFFICES ASSUME IInv, RecvAck(n) PROVE IInv'
  OBVIOUS
<1>. USE DEF IInv
<1>. DEFINE h == HandleAck(data, Receiver, n - 1)
<1>1. /\ data' = h.data
      /\ tracker' = CreateTimer(RemoveFromTracker(tracker, Receiver, h.done),
                                Receiver, h.data.offset, h.out)
      /\ dataNet' = dataNet \cup h.out
      /\ buffer' = buffer /\ gets' = gets
  BY DEF RecvAck
<1>2. n \in ackNet /\ ackNet' \subseteq ackNet /\ dups' \in 0..MaxDup
  BY TransferAssumption DEF RecvAck, Consume, TypeOK
<1>3. N \in Nat \ {0} /\ n - 1 \in Idx /\ n - 1 \in AckIndices /\ n - 1 < N
  BY ProtocolAssumption DEF Idx, Seqs, AckIndices
<1>4. AckOutcome(h, data, n - 1)
  BY <1>3, HandleAckFacts DEF TypeOK, WindowShape, Shape
<1>. HIDE DEF h
<1>5. \A i \in Idx : i <= n - 1 => i \in Recved(buffer)
  BY <1>2, <1>3 DEF AckHonest, HoldsFirst, Idx, Seqs
<1>. DEFINE t == RemoveFromTracker(tracker, Receiver, h.done)
<1>6. /\ t \subseteq tracker
      /\ \A e \in tracker : e.seq - 1 \notin h.done => e \in t
  BY DEF RemoveFromTracker
<1>7. tracker' = CreateTimer(t, Receiver, Chunk, h.out)
  BY <1>1, <1>4 DEF OneUpload, AckOutcome
<1>. HIDE DEF t
<1>8. /\ tracker' \in SUBSET Trackers
      /\ t \subseteq tracker'
      /\ \A e \in tracker' : e.sock = Receiver /\ e.offset = Chunk
      /\ \A q \in h.out : \E e \in tracker' : e.seq = q
  BY <1>4, <1>6, <1>7, CreateTimerFacts DEF TypeOK, OneUpload, AckOutcome
<1>9. 0 \in Recved(buffer)
  BY <1>2 DEF ZeroFirst
<1>10. TypeOK'
  BY <1>1, <1>2, <1>4, <1>8 DEF TypeOK, AckOutcome
<1>11. OneUpload'
  BY <1>1, <1>4, <1>8 DEF OneUpload, AckOutcome
<1>12. ReceivedPrefix' /\ ZeroFirst' /\ AckHonest'
  BY <1>1, <1>2, <1>9 DEF ReceivedPrefix, ZeroFirst, AckHonest, HoldsFirst, Recved
<1>13. AckedIsReceived'
  <2>1. SUFFICES ASSUME NEW i \in Idx, i <= h.data.start \/ h.data.state[i] = "ACKED"
                 PROVE  i \in Recved(buffer)
    BY <1>1 DEF AckedIsReceived, Recved
  <2>2. i <= data.start \/ data.state[i] = "ACKED" \/ i <= n - 1
    BY <1>4, <2>1 DEF AckOutcome
  <2>3. QED  BY <1>5, <2>2 DEF AckedIsReceived
<1>14. WindowShape'
  BY <1>1, <1>3, <1>4 DEF WindowShape, Shape, AckOutcome
<1>15. UnackedIsTracked'
  <2>1. SUFFICES ASSUME NEW i \in Idx, h.data.state[i] = "UNACKED"
                 PROVE  \E e \in tracker' : e.seq = i + 1
    BY <1>1, <1>4, <1>8 DEF UnackedIsTracked, OneUpload, AckOutcome
  <2>2. CASE i + 1 \in h.out
    BY <1>8, <2>2
  <2>3. CASE data.state[i] = "UNACKED" /\ i \notin h.done
    <3>1. PICK e \in tracker : e.seq = i + 1
      BY <2>3 DEF UnackedIsTracked
    <3>2. e.seq - 1 = i
      BY <1>3, <3>1 DEF Idx
    <3>3. QED  BY <1>6, <1>8, <2>3, <3>1, <3>2
  <2>4. QED  BY <1>4, <2>1, <2>2, <2>3 DEF AckOutcome
<1>16. QED  BY <1>10, <1>11, <1>12, <1>13, <1>14, <1>15

(***************************************************************************)
(* recv_data: the buffer grows by one packet, and the ACK it answers with  *)
(* covers only packets that are now in.                                    *)
(***************************************************************************)
LEMMA DataStep ==
  ASSUME NEW q \in Seqs  PROVE IInv /\ RecvDataPkt(q) => IInv'
<1>. SUFFICES ASSUME IInv, RecvDataPkt(q) PROVE IInv'
  OBVIOUS
<1>. USE DEF IInv
<1>1. /\ buffer' = RecvData(buffer, q, Chunk)
      /\ ackNet' = ackNet \cup {buffer'.expected}
      /\ data' = data /\ tracker' = tracker /\ gets' = gets
  BY DEF RecvDataPkt
<1>2. q \in dataNet /\ dataNet' \subseteq dataNet /\ dups' \in 0..MaxDup
  BY TransferAssumption DEF RecvDataPkt, Consume, TypeOK
<1>3. /\ N \in Nat \ {0} /\ buffer.expected \in 1..N
  BY ProtocolAssumption DEF TypeOK, Buffers
<1>4. /\ buffer' \in Buffers
      /\ Recved(buffer') = Recved(buffer) \cup {q - 1}
      /\ \A j \in Idx : buffer.expected <= j /\ j < buffer'.expected
                          => j \in Recved(buffer')
  BY <1>1, RecvDataFacts, TransferAssumption DEF TypeOK
<1>5. buffer'.expected \in 1..N
  BY <1>4 DEF Buffers
<1>6. 0 \in Recved(buffer')
  <2>1. CASE 0 \in Recved(buffer)
    BY <1>4, <2>1
  <2>2. CASE 0 \notin Recved(buffer)
    <3>1. q = 1
      BY <1>2, <2>2 DEF ZeroFirst
    <3>2. QED  BY <1>4, <3>1
  <2>3. QED  BY <2>1, <2>2
<1>7. TypeOK'
  BY <1>1, <1>2, <1>4, <1>5 DEF TypeOK, Seqs
<1>8. OneUpload' /\ WindowShape' /\ UnackedIsTracked'
  BY <1>1 DEF OneUpload, WindowShape, UnackedIsTracked
<1>9. ZeroFirst'
  BY <1>6 DEF ZeroFirst, Recved
<1>10. ASSUME NEW i \in Idx, 1 <= i, i < buffer'.expected
       PROVE  i \in Recved(buffer')
  <2>1. CASE i < buffer.expected
    BY <1>4, <1>10, <2>1 DEF ReceivedPrefix
  <2>2. CASE buffer.expected <= i
    BY <1>4, <1>10, <2>2
  <2>3. QED  BY <1>3, <2>1, <2>2 DEF Idx
<1>11. ReceivedPrefix'
  BY <1>10 DEF ReceivedPrefix, Recved
<1>12. AckHonest'
  <2>1. SUFFICES ASSUME NEW n \in ackNet', NEW i \in Idx, i < n
                 PROVE  i \in Recved(buffer')
    BY DEF AckHonest, HoldsFirst, Recved
  <2>2. CASE n \in ackNet
    BY <1>4, <2>1, <2>2 DEF AckHonest, HoldsFirst
  <2>3. CASE n = buffer'.expected
    <3>1. i = 0 \/ 1 <= i
      BY <1>3 DEF Idx
    <3>2. QED  BY <1>6, <1>10, <2>1, <2>3, <3>1
  <2>4. QED  BY <1>1, <2>2, <2>3
<1>13. AckedIsReceived'
  <2>1. SUFFICES ASSUME NEW i \in Idx, i <= data.start \/ data.state[i] = "ACKED"
                 PROVE  i \in Recved(buffer')
    BY <1>1 DEF AckedIsReceived, Recved
  <2>2. QED  BY <1>4, <2>1 DEF AckedIsReceived
<1>14. QED  BY <1>7, <1>8, <1>9, <1>11, <1>12, <1>13

(***************************************************************************)
(* The timeout loop of peer_run resends a tracked packet.                  *)
(***************************************************************************)
LEMMA TimeoutStep ==
  ASSUME NEW e \in tracker  PROVE IInv /\ Timeout(e) => IInv'
<1>. SUFFICES ASSUME IInv, Timeout(e) PROVE IInv'
  OBVIOUS
<1>. USE DEF IInv
<1>1. /\ data' = data /\ tracker' = tracker /\ buffer' = buffer
      /\ gets' = gets /\ ackNet' = ackNet /\ dups' = dups
      /\ dataNet' = dataNet \cup {e.seq}
  BY TimeoutKeepsData DEF Timeout
<1>2. e.seq \in Seqs
  BY DEF TypeOK, Trackers
<1>3. TypeOK' /\ ZeroFirst'
  BY <1>1, <1>2 DEF TypeOK, ZeroFirst, Recved
<1>4. /\ OneUpload' /\ ReceivedPrefix' /\ AckHonest' /\ AckedIsReceived'
      /\ WindowShape' /\ UnackedIsTracked'
  BY <1>1 DEF OneUpload, ReceivedPrefix, AckHonest, HoldsFirst, AckedIsReceived,
              WindowShape, UnackedIsTracked, Recved
<1>5. QED  BY <1>3, <1>4

(***************************************************************************)
(* Losing a packet only makes the network smaller.                         *)
(***************************************************************************)
LEMMA LoseStep == IInv /\ (Lose \/ UNCHANGED vars) => IInv'
<1>. SUFFICES ASSUME IInv, Lose \/ UNCHANGED vars PROVE IInv'
  OBVIOUS
<1>. USE DEF IInv
<1>1. /\ data' = data /\ tracker' = tracker /\ buffer' = buffer
      /\ gets' = gets /\ dups' = dups
      /\ dataNet' \subseteq dataNet /\ ackNet' \subseteq ackNet
  BY DEF Lose, vars
<1>2. TypeOK' /\ ZeroFirst' /\ AckHonest'
  BY <1>1 DEF TypeOK, ZeroFirst, AckHonest, HoldsFirst, Recved
<1>3. /\ OneUpload' /\ ReceivedPrefix' /\ AckedIsReceived'
      /\ WindowShape' /\ UnackedIsTracked'
  BY <1>1 DEF OneUpload, ReceivedPrefix, AckedIsReceived,
              WindowShape, UnackedIsTracked, Recved
<1>4. QED  BY <1>2, <1>3

(***************************************************************************)
(* The invariant is inductive, so it holds in every reachable state of a   *)
(* transfer.                                                               *)
(***************************************************************************)
THEOREM Invariance == Spec => []IInv
<1>1. IInv /\ [Next]_vars => IInv'
  <2>. SUFFICES ASSUME IInv, [Next]_vars PROVE IInv'
    OBVIOUS
  <2>1. CASE RecvGet  BY <2>1, GetStep
  <2>2. CASE \E n \in Seqs : RecvAck(n)  BY <2>2, AckStep
  <2>3. CASE \E q \in Seqs : RecvDataPkt(q)  BY <2>3, DataStep
  <2>4. CASE \E e \in tracker : Timeout(e)  BY <2>4, TimeoutStep
  <2>5. CASE Lose \/ UNCHANGED vars  BY <2>5, LoseStep
  <2>6. QED  BY <2>1, <2>2, <2>3, <2>4, <2>5 DEF Next
<1>2. QED  BY <1>1, InitIInv, PTL DEF Spec

(***************************************************************************)
(* data_t, tracker, buffer and the packets in flight keep their types: in  *)
(* particular no index a handler computes leaves 0..N-1.                   *)
(***************************************************************************)
THEOREM TypeCorrect == Spec => []TypeOK
<1>1. IInv => TypeOK
  BY DEF IInv
<1>2. QED  BY <1>1, Invariance, PTL

(***************************************************************************)
(* recv_data ACKs only packets it holds, though it never looks at packet 0.*)
(***************************************************************************)
THEOREM AckHonesty == Spec => []AckHonest
<1>1. IInv => AckHonest
  BY DEF IInv
<1>2. QED  BY <1>1, Invariance, PTL

(***************************************************************************)
(* handle_ack never slides the window over, or marks ACKED, a packet the   *)
(* receiver does not hold.                                                 *)
(***************************************************************************)
THEOREM AckedReceived == Spec => []AckedIsReceived
<1>1. IInv => AckedIsReceived
  BY DEF IInv
<1>2. QED  BY <1>1, Invariance, PTL

(***************************************************************************)
(* Whatever order ACKs arrive in, start <= end and UNSEND means past end.  *)
(***************************************************************************)
THEOREM WindowShapeKept == Spec => []WindowShape
<1>1. IInv => WindowShape
  BY DEF IInv
<1>2. QED  BY <1>1, Invariance, PTL

(***************************************************************************)
(* With one receiver, every packet waiting for its ACK has a timer.        *)
(***************************************************************************)
THEOREM UnackedTracked == Spec => []UnackedIsTracked
<1>1. IInv => UnackedIsTracked
  BY DEF IInv
<1>2. QED  BY <1>1, Invariance, PTL

(***************************************************************************)
(* Whatever send_data and fast retransmit send for the first time lies at  *)
(* most a window beyond the packet number of an ACK, and by AckHonest the  *)
(* receiver holds all that ACK covers.                                     *)
(***************************************************************************)
THEOREM AheadByWindow == Spec => NeverFarAhead
<1>. DEFINE Within == \A e \in tracker' \ tracker :
                        \E n \in 0..N : HoldsFirst(n) /\ e.seq <= n + data'.send_window
<1>1. IInv /\ [Next]_vars => [Within]_vars
  <2>. SUFFICES ASSUME IInv, [Next]_vars PROVE Within
    OBVIOUS
  <2>1. /\ data \in Data /\ Shape(data) /\ tracker \in SUBSET Trackers
        /\ \A e \in tracker : e.sock = Receiver /\ e.offset = Chunk
        /\ N \in Nat \ {0}
    BY ProtocolAssumption DEF IInv, TypeOK, WindowShape, Shape, OneUpload
  <2>2. CASE RecvGet
    <3>1. PICK g \in Garbage :
            /\ data' = SendData(InitDatalist(Chunk, g))
            /\ tracker' = CreateTimer(tracker, Receiver, Chunk,
                                      SentSeqs(InitDatalist(Chunk, g)))
      BY <2>2 DEF RecvGet
    <3>2. data'.send_window = 1 /\ tracker' = CreateTimer(tracker, Receiver, Chunk, {1})
      BY <3>1, FirstSend, TransferAssumption
    <3>3. {1} \in SUBSET Seqs
      BY <2>1 DEF Seqs
    <3>4. \A e \in tracker' : e \in tracker \/ e.seq = 1
      BY <2>1, <3>2, <3>3, CreateTimerFacts
    <3>5. 0 \in 0..N /\ HoldsFirst(0)
      BY <2>1 DEF HoldsFirst, Idx
    <3>6. 1 <= 0 + data'.send_window
      BY <3>2
    <3>7. QED  BY <3>4, <3>5, <3>6
  <2>3. ASSUME NEW n \in Seqs, RecvAck(n) PROVE Within
    <3>. DEFINE h == HandleAck(data, Receiver, n - 1)
                t == RemoveFromTracker(tracker, Receiver, h.done)
    <3>1. n - 1 \in AckIndices /\ n \in 0..N
      BY <2>1 DEF AckIndices, Seqs
    <3>2. AckOutcome(h, data, n - 1)
      BY <2>1, <3>1, HandleAckFacts
    <3>3. n \in ackNet /\ data' = h.data /\ tracker' = CreateTimer(t, Receiver, h.data.offset, h.out)
      BY <2>3 DEF RecvAck, Consume
    <3>4. t \subseteq tracker
      BY DEF RemoveFromTracker
    <3>. HIDE DEF h, t
    <3>5. h.data.offset = Chunk /\ h.out \in SUBSET Seqs
      BY <3>2 DEF AckOutcome, IInv, OneUpload
    <3>6. \A e \in tracker' : e \in tracker \/ e.seq \in h.out
      BY <2>1, <3>3, <3>4, <3>5, CreateTimerFacts
    <3>7. HoldsFirst(n)
      BY <3>3 DEF IInv, AckHonest
    <3>8. \A q \in h.out : q <= n + data'.send_window
      BY <3>1, <3>2, <3>3 DEF AckOutcome
    <3>9. QED  BY <3>1, <3>6, <3>7, <3>8
  <2>4. CASE \E q \in Seqs : RecvDataPkt(q)
    BY <2>4 DEF RecvDataPkt
  <2>5. CASE \E e \in tracker : Timeout(e)
    BY <2>5 DEF Timeout
  <2>6. CASE Lose \/ UNCHANGED vars
    BY <2>6 DEF Lose, vars
  <2>7. QED  BY <2>2, <2>3, <2>4, <2>5, <2>6 DEF Next
<1>2. QED  BY <1>1, Invariance, PTL DEF Spec, NeverFarAhead

(***************************************************************************)
(* The transfer implements ChunkDelivery: the receiver's packets only      *)
(* grow, and the sender's ACKED packets are always among them.             *)
(***************************************************************************)
THEOREM DeliveryImplemented == Spec => ImplementsDelivery
<1>. DEFINE ackedSet == {i \in Idx : data.state[i] = "ACKED"}
<1>1. Init => Delivery!Init
  <2>. SUFFICES ASSUME Init PROVE Recved(buffer) = {} /\ ackedSet = {}
    BY DEF Delivery!Init
  <2>1. PICK g \in Garbage : data = SendData(InitDatalist(Chunk, g))
    BY DEF Init
  <2>2. ackedSet = {}
    BY <2>1, FirstSend, TransferAssumption
  <2>3. QED  BY <2>2 DEF Init, NewBuffer, Recved
<1>2. IInv /\ IInv' /\ [Next]_vars => [Delivery!Next]_(Delivery!vars)
  <2>. SUFFICES ASSUME IInv, IInv', [Next]_vars
                PROVE  Delivery!Next \/ (Recved(buffer)' = Recved(buffer) /\ ackedSet' = ackedSet)
    BY DEF Delivery!vars
  <2>1. CASE RecvGet
    <3>1. PICK g \in Garbage : data' = SendData(InitDatalist(Chunk, g))
      BY <2>1 DEF RecvGet
    <3>2. ackedSet' = {}
      BY <3>1, FirstSend, TransferAssumption
    <3>3. Recved(buffer)' = Recved(buffer)
      BY <2>1 DEF RecvGet, Recved
    <3>4. QED  BY <3>2, <3>3 DEF Delivery!Next, Delivery!Restart
  <2>2. ASSUME NEW n \in Seqs, RecvAck(n) PROVE Delivery!Next
    <3>1. n - 1 \in AckIndices /\ data \in Data /\ Shape(data)
      BY ProtocolAssumption DEF AckIndices, Seqs, IInv, TypeOK, WindowShape, Shape
    <3>2. AckOutcome(HandleAck(data, Receiver, n - 1), data, n - 1)
      BY <3>1, HandleAckFacts
    <3>3. data' = HandleAck(data, Receiver, n - 1).data
      BY <2>2 DEF RecvAck
    <3>4. ackedSet \subseteq ackedSet'
      BY <3>2, <3>3 DEF AckOutcome
    <3>5. Recved(buffer)' = Recved(buffer)
      BY <2>2 DEF RecvAck, Recved
    <3>6. ackedSet' \subseteq Recved(buffer)
      BY <3>5 DEF IInv, AckedIsReceived
    <3>7. QED  BY <3>4, <3>5, <3>6 DEF Delivery!Next, Delivery!Acknowledge
  <2>3. ASSUME NEW q \in Seqs, RecvDataPkt(q)
        PROVE  Delivery!Next \/ (Recved(buffer)' = Recved(buffer) /\ ackedSet' = ackedSet)
    <3>1. ackedSet' = ackedSet /\ buffer' = RecvData(buffer, q, Chunk)
      BY <2>3 DEF RecvDataPkt
    <3>2. q - 1 \in Idx
      BY ProtocolAssumption DEF Idx, Seqs
    <3>3. Recved(buffer)' = Recved(buffer) \cup {q - 1}
      BY <3>1, RecvDataFacts, TransferAssumption DEF IInv, TypeOK, Recved
    <3>4. QED
      BY <3>1, <3>2, <3>3 DEF Delivery!Next, Delivery!Deliver
  <2>4. CASE \E e \in tracker : Timeout(e)
    BY <2>4, TimeoutKeepsData DEF Timeout, Recved
  <2>5. CASE Lose \/ UNCHANGED vars
    BY <2>5 DEF Lose, vars, Recved
  <2>6. QED  BY <2>1, <2>2, <2>3, <2>4, <2>5 DEF Next
<1>3. QED  BY <1>1, <1>2, Invariance, PTL DEF Spec, ImplementsDelivery, Delivery!Spec
=============================================================================
