---------------------------- MODULE UploadProofs ----------------------------
(***************************************************************************)
(* The serving side for any number of clients and any chunk length: what   *)
(* module Upload checks on two clients, proved.                            *)
(***************************************************************************)
EXTENDS Upload, SendWindowProofs, TLAPS

UInv == TypeOK /\ WindowsInShape /\ OneTimerPerPacket

(***************************************************************************)
(* The upload of a client, when there is one, is a data_t in shape.        *)
(***************************************************************************)
LEMMA ClientUpload ==
  ASSUME UInv, NEW p \in Peers, data[p] # NoUpload
  PROVE  data[p] \in Data /\ Shape(data[p]) /\ AckedUpTo(data[p])
BY DEF UInv, TypeOK, WindowsInShape, Window, Shape, AckedUpTo

(***************************************************************************)
(* Changing the upload of one client to another data_t in shape keeps all  *)
(* uploads in shape.                                                       *)
(***************************************************************************)
LEMMA ReplaceUpload ==
  ASSUME UInv, NEW p \in Peers, NEW d \in Data, Shape(d), AckedUpTo(d),
         data' = [data EXCEPT ![p] = d]
  PROVE  /\ data' \in [Peers -> Data \cup {NoUpload}]
         /\ WindowsInShape'
BY DEF UInv, TypeOK, WindowsInShape, Window, Shape, AckedUpTo

(***************************************************************************)
(* create_timer adds timers of this client for numbers that had none, so   *)
(* it cannot add a second one.                                             *)
(***************************************************************************)
LEMMA TimersAdded ==
  ASSUME NEW t \in SUBSET Trackers, NEW p \in Peers, NEW c \in Offsets,
         NEW q \in SUBSET Seqs,
         \A e, f \in t : e.sock = f.sock /\ e.seq = f.seq => e = f
  PROVE  /\ CreateTimer(t, p, c, q) \in SUBSET Trackers
         /\ t \subseteq CreateTimer(t, p, c, q)
         /\ \A e, f \in CreateTimer(t, p, c, q) :
               e.sock = f.sock /\ e.seq = f.seq => e = f
<1>. DEFINE New(s) == [sock |-> p, seq |-> s, offset |-> c]
            fresh  == {s \in q : \A e \in t : e.seq # s}
            T      == CreateTimer(t, p, c, q)
<1>1. T = t \cup {New(s) : s \in fresh}
  BY DEF CreateTimer
<1>2. \A s \in fresh : New(s) \in Trackers /\ New(s).seq = s
  BY DEF Trackers
<1>3. \A s \in fresh : \A e \in t : e.seq # s
  OBVIOUS
<1>. HIDE DEF New, fresh
<1>4. \A e, f \in T : e.sock = f.sock /\ e.seq = f.seq => e = f
  <2>. SUFFICES ASSUME NEW e \in T, NEW f \in T, e.sock = f.sock, e.seq = f.seq
                PROVE  e = f
    OBVIOUS
  <2>1. CASE e \in t /\ f \in t
    BY <2>1
  <2>2. CASE e \in t /\ f \notin t
    BY <1>1, <1>2, <1>3, <2>2
  <2>3. CASE e \notin t /\ f \in t
    BY <1>1, <1>2, <1>3, <2>3
  <2>4. CASE e \notin t /\ f \notin t
    BY <1>1, <1>2, <2>4
  <2>5. QED  BY <2>1, <2>2, <2>3, <2>4
<1>5. T \in SUBSET Trackers /\ t \subseteq T
  BY <1>1, <1>2
<1>6. QED  BY <1>4, <1>5

(***************************************************************************)
(* A GET keeps the invariant and takes no timer away.                      *)
(***************************************************************************)
LEMMA UploadGet ==
  ASSUME UInv, NEW p \in Peers, NEW c \in Offsets, RecvGet(p, c)
  PROVE  UInv' /\ tracker \subseteq tracker'
<1>1. PICK g \in Garbage :
        LET d == InitDatalist(c, g) IN
        /\ data' = [data EXCEPT ![p] = SendData(d)]
        /\ tracker' = CreateTimer(tracker, p, c, SentSeqs(d))
        /\ out' = {Packet(p, q, c) : q \in SentSeqs(d)}
  BY DEF RecvGet
<1>. DEFINE d == InitDatalist(c, g)
<1>2. /\ SendData(d) \in Data /\ Shape(SendData(d)) /\ SentSeqs(d) = {1}
      /\ SendData(d).start = -1
  BY FirstSend
<1>3. 1 \in Seqs /\ AckedUpTo(SendData(d))
  BY <1>2, ProtocolAssumption DEF Seqs, AckedUpTo, Idx
<1>. HIDE DEF d
<1>4. data' \in [Peers -> Data \cup {NoUpload}] /\ WindowsInShape'
  BY <1>1, <1>2, <1>3, ReplaceUpload DEF d
<1>5. /\ tracker' \in SUBSET Trackers /\ tracker \subseteq tracker'
      /\ OneTimerPerPacket'
  BY <1>1, <1>2, <1>3, TimersAdded DEF d, UInv, TypeOK, OneTimerPerPacket
<1>6. out' \subseteq Trackers
  BY <1>1, <1>2, <1>3 DEF d, Packet, Trackers
<1>7. QED  BY <1>4, <1>5, <1>6 DEF UInv, TypeOK

(***************************************************************************)
(* An ACK keeps the invariant; a timer it takes off belonged to the client *)
(* that sent it and to a packet it has just marked ACKED.                  *)
(***************************************************************************)
LEMMA UploadAck ==
  ASSUME UInv, NEW p \in Peers, NEW n \in AckNums, RecvAck(p, n)
  PROVE  /\ UInv'
         /\ \A e \in tracker : e \notin tracker' =>
              /\ data[e.sock] # NoUpload
              /\ data[e.sock].state[e.seq - 1] = "UNACKED"
              /\ data'[e.sock].state[e.seq - 1] = "ACKED"
<1>. DEFINE h == HandleAck(data[p], p, n - 1)
            t == RemoveFromTracker(tracker, p, h.done)
<1>1. /\ data[p] # NoUpload
      /\ data' = [data EXCEPT ![p] = h.data]
      /\ tracker' = CreateTimer(t, p, h.data.offset, h.out)
      /\ out' = {Packet(p, q, h.data.offset) : q \in h.out}
  BY DEF RecvAck
<1>2. n - 1 \in AckIndices
  BY ProtocolAssumption DEF AckIndices, AckNums
<1>3. AckOutcome(h, data[p], n - 1)
  BY <1>1, <1>2, ClientUpload, HandleAckFacts
<1>4. t \subseteq tracker
  BY DEF RemoveFromTracker
<1>5. \A e \in tracker : e \notin t => e.sock = p /\ e.seq - 1 \in h.done
  BY DEF RemoveFromTracker
<1>. HIDE DEF h, t
<1>6. /\ h.data \in Data /\ Shape(h.data) /\ AckedUpTo(h.data) /\ h.out \subseteq Seqs
      /\ h.data.offset \in Offsets
      /\ \A i \in h.done : /\ data[p].state[i] = "UNACKED"
                           /\ h.data.state[i] = "ACKED"
  BY <1>1, <1>3, ClientUpload DEF AckOutcome, Data
<1>7. data' \in [Peers -> Data \cup {NoUpload}] /\ WindowsInShape'
  BY <1>1, <1>6, ReplaceUpload
<1>8. /\ tracker' \in SUBSET Trackers /\ t \subseteq tracker'
      /\ OneTimerPerPacket'
  BY <1>1, <1>4, <1>6, TimersAdded DEF UInv, TypeOK, OneTimerPerPacket
<1>9. out' \subseteq Trackers
  BY <1>1, <1>6 DEF Packet, Trackers
<1>10. data'[p] = h.data
  BY <1>1 DEF UInv, TypeOK
<1>11. QED  BY <1>1, <1>5, <1>6, <1>7, <1>8, <1>9, <1>10 DEF UInv, TypeOK

(***************************************************************************)
(* A timeout changes neither the uploads nor the tracker: 0 is no client.  *)
(***************************************************************************)
LEMMA UploadTimeout ==
  ASSUME UInv, NEW e \in tracker, Timeout(e)
  PROVE  UInv' /\ tracker' = tracker
<1>1. \A p \in Peers : p # 0
  BY ProtocolAssumption
<1>2. \A p \in Peers : ProcessPacketLoss(data[p], p, 0) = data[p]
  BY <1>1 DEF ProcessPacketLoss
<1>3. data' = data
  BY <1>2 DEF Timeout, UInv, TypeOK
<1>4. out' \subseteq Trackers /\ tracker' = tracker
  BY DEF Timeout, UInv, TypeOK
<1>5. QED  BY <1>3, <1>4 DEF UInv, TypeOK, WindowsInShape, OneTimerPerPacket

-----------------------------------------------------------------------------
(***************************************************************************)
(* Whatever GETs and ACKs arrive from however many clients, every window   *)
(* stays in one piece and no packet has two timers.                        *)
(***************************************************************************)
THEOREM UploadInvariance == Spec => []UInv
<1>1. Init => UInv
  BY DEF Init, UInv, TypeOK, WindowsInShape, OneTimerPerPacket
<1>2. UInv /\ [Next]_vars => UInv'
  <2>. SUFFICES ASSUME UInv, [Next]_vars PROVE UInv'
    OBVIOUS
  <2>1. CASE \E p \in Peers, c \in Offsets : RecvGet(p, c)
    BY <2>1, UploadGet
  <2>2. CASE \E p \in Peers, n \in AckNums : RecvAck(p, n)
    BY <2>2, UploadAck
  <2>3. CASE \E e \in tracker : Timeout(e)
    BY <2>3, UploadTimeout
  <2>4. CASE UNCHANGED vars
    BY <2>4 DEF vars, UInv, TypeOK, WindowsInShape, OneTimerPerPacket
  <2>5. QED  BY <2>1, <2>2, <2>3, <2>4 DEF Next
<1>3. QED  BY <1>1, <1>2, PTL DEF Spec

(***************************************************************************)
(* Every window keeps its shape under any stream of ACKs, old, early and   *)
(* out of range: what lies before it has been acknowledged, what lies in   *)
(* it has been sent, and start passes end only when nothing is left.       *)
(***************************************************************************)
THEOREM UploadWindows == Spec => []WindowsInShape
<1>1. UInv => WindowsInShape
  BY DEF UInv
<1>2. QED  BY <1>1, UploadInvariance, PTL

(***************************************************************************)
(* remove_from_tracker never leaves a second timer of a packet behind.     *)
(***************************************************************************)
THEOREM UploadTimers == Spec => []OneTimerPerPacket
<1>1. UInv => OneTimerPerPacket
  BY DEF UInv
<1>2. QED  BY <1>1, UploadInvariance, PTL

(***************************************************************************)
(* A timer ends only with an ACK of its own client that covers its packet. *)
(***************************************************************************)
THEOREM TimersUntilAcked == Spec => TimerUntilAcked
<1>. DEFINE Ends == \A e \in tracker : e \notin tracker' =>
                      /\ data[e.sock] # NoUpload
                      /\ data[e.sock].state[e.seq - 1] = "UNACKED"
                      /\ data'[e.sock].state[e.seq - 1] = "ACKED"
<1>1. UInv /\ [Next]_vars => [Ends]_vars
  <2>. SUFFICES ASSUME UInv, Next PROVE Ends
    OBVIOUS
  <2>1. CASE \E p \in Peers, c \in Offsets : RecvGet(p, c)
    BY <2>1, UploadGet
  <2>2. CASE \E p \in Peers, n \in AckNums : RecvAck(p, n)
    BY <2>2, UploadAck
  <2>3. CASE \E e \in tracker : Timeout(e)
    BY <2>3, UploadTimeout
  <2>4. QED  BY <2>1, <2>2, <2>3 DEF Next
<1>2. QED  BY <1>1, UploadInvariance, PTL DEF Spec, TimerUntilAcked

(***************************************************************************)
(* Every reachable state of the serving side is well typed; no window ever *)
(* reaches past the last packet of its chunk.                              *)
(***************************************************************************)
THEOREM UploadTyped == Spec => []TypeOK
<1>1. UInv => TypeOK
  BY DEF UInv
<1>2. QED  BY <1>1, UploadInvariance, PTL

-----------------------------------------------------------------------------
(***************************************************************************)
(* Slow start.  Below(d) is what SlowStartBounded says of one upload; each *)
(* piece of handle_ack keeps it.                                           *)
(***************************************************************************)
Below(d) ==
  d.congestion_control_state = "SLOWSTART" /\ d.ssthresh > 0 => d.send_window <= d.ssthresh

SameRates(d, e) ==
  /\ e.congestion_control_state = d.congestion_control_state
  /\ e.ssthresh = d.ssthresh
  /\ e.send_window = d.send_window

LEMMA SameRatesBelow ==
  ASSUME NEW d, NEW e, Below(d), SameRates(d, e)
  PROVE  Below(e)
BY DEF Below, SameRates

LEMMA SendDataRates ==
  ASSUME NEW d \in Data
  PROVE  SameRates(d, SendData(d))
BY DEF SendData, SameRates, Data

LEMMA CongestionControlType ==
  ASSUME NEW d \in Data
  PROVE  CongestionControl(d) \in Data
<1>1. d.send_window + 1 \in Nat /\ d.increase_rate + 1 \in Nat
  BY DEF Data
<1>2. CongestionControl(d) \in
        {[d EXCEPT !.congestion_control_state = "CON_AVOID", !.increase_rate = 0],
         [d EXCEPT !.send_window = d.send_window + 1],
         [d EXCEPT !.send_window = d.send_window + 1, !.increase_rate = 0],
         [d EXCEPT !.increase_rate = d.increase_rate + 1]}
  BY DEF CongestionControl
<1>3. /\ [d EXCEPT !.congestion_control_state = "CON_AVOID", !.increase_rate = 0] \in Data
      /\ [d EXCEPT !.send_window = d.send_window + 1] \in Data
      /\ [d EXCEPT !.send_window = d.send_window + 1, !.increase_rate = 0] \in Data
      /\ [d EXCEPT !.increase_rate = d.increase_rate + 1] \in Data
  BY <1>1 DEF Data
<1>4. QED  BY <1>2, <1>3

LEMMA CongestionBelow ==
  ASSUME NEW d \in Data, Below(d)
  PROVE  Below(CongestionControl(d))
<1>1. d.send_window \in Nat /\ d.ssthresh \in Nat
  BY DEF Data
<1>2. CASE d.congestion_control_state = "SLOWSTART" /\ d.ssthresh = d.send_window
  <2>1. CongestionControl(d) =
          [d EXCEPT !.congestion_control_state = "CON_AVOID", !.increase_rate = 0]
    BY <1>2 DEF CongestionControl
  <2>2. CongestionControl(d).congestion_control_state = "CON_AVOID"
    BY <2>1 DEF Data
  <2>3. QED  BY <2>2 DEF Below
<1>3. CASE d.congestion_control_state = "SLOWSTART" /\ d.ssthresh # d.send_window
  <2>1. CongestionControl(d) = [d EXCEPT !.send_window = d.send_window + 1]
    BY <1>3 DEF CongestionControl
  <2>2. /\ CongestionControl(d).ssthresh = d.ssthresh
        /\ CongestionControl(d).send_window = d.send_window + 1
    BY <2>1 DEF Data
  <2>3. d.ssthresh > 0 => d.send_window + 1 <= d.ssthresh
    BY <1>1, <1>3 DEF Below
  <2>4. QED  BY <2>2, <2>3 DEF Below
<1>4. CASE d.congestion_control_state # "SLOWSTART"
  <2>1. CongestionControl(d).congestion_control_state = d.congestion_control_state
    BY <1>4 DEF CongestionControl, Data
  <2>2. QED  BY <1>4, <2>1 DEF Below
<1>5. QED  BY <1>2, <1>3, <1>4

LEMMA LossBelow ==
  ASSUME NEW d \in Data, NEW p
  PROVE  Below(ProcessPacketLoss(d, p, p))
<1>1. ProcessPacketLoss(d, p, p) =
        [d EXCEPT !.ssthresh = d.send_window \div 2, !.send_window = 1,
                  !.congestion_control_state = "SLOWSTART", !.increase_rate = 1]
  BY DEF ProcessPacketLoss
<1>2. /\ ProcessPacketLoss(d, p, p).ssthresh = d.send_window \div 2
      /\ ProcessPacketLoss(d, p, p).send_window = 1
  BY <1>1 DEF Data
<1>3. d.send_window \div 2 \in Int
  BY DEF Data
<1>4. QED  BY <1>2, <1>3 DEF Below

LEMMA AckBelow ==
  ASSUME NEW d \in Data, Shape(d), Below(d), NEW p \in Peers, NEW ack \in AckIndices
  PROVE  Below(HandleAck(d, p, ack).data)
<1>. DEFINE c == CheckReturnAck(d, ack)
            s == [Acknowledge(c, ack) EXCEPT !.start = ack]
<1>0. ack \in -1..(N + 1) /\ N \in Nat \ {0}
  BY ProtocolAssumption DEF AckIndices
<1>1. c \in Data /\ SameRates(d, c)
  <2>1. c \in Data
    BY CheckReturnAckFacts DEF SameWindow
  <2>2. QED  BY <2>1 DEF CheckReturnAck, SameRates, Data
<1>2. Acknowledge(c, ack) \in Data /\ SameRates(c, Acknowledge(c, ack))
  BY <1>1 DEF Acknowledge, SameRates, Data
<1>3. ack <= N => s \in Data /\ SameRates(Acknowledge(c, ack), s)
  BY <1>2, <1>0 DEF SameRates, Data
<1>. HIDE DEF c, s
<1>4. Below(c) /\ Below(Acknowledge(c, ack)) /\ (ack <= N => Below(s))
  BY <1>1, <1>2, <1>3, SameRatesBelow
<1>5. CASE IsDupAck(d, ack) /\ ack < N - 1
  <2>1. HandleAck(d, p, ack) = [data |-> ProcessPacketLoss(c, p, p), out |-> {ack + 2}, done |-> {}]
    BY <1>0, <1>5 DEF HandleAck, FastRetransmit, c
  <2>2. QED  BY <1>1, <2>1, LossBelow
<1>6. CASE IsDupAck(d, ack) /\ ack \in {N - 1, N}
  <2>1. HandleAck(d, p, ack).data = c
    BY <1>0, <1>6 DEF HandleAck, c
  <2>2. QED  BY <1>4, <2>1
<1>7. CASE ack <= N /\ ~IsDupAck(d, ack) /\ Overrun(c, ack)
  <2>1. HandleAck(d, p, ack).data = Acknowledge(c, ack)
    BY <1>0, <1>7 DEF HandleAck, c
  <2>2. QED  BY <1>4, <2>1
<1>8. CASE ack <= N /\ ~IsDupAck(d, ack) /\ ~Overrun(c, ack)
  <2>1. HandleAck(d, p, ack).data = SendData(CongestionControl(s))
    BY <1>0, <1>8 DEF HandleAck, Slide, c, s
  <2>2. CongestionControl(s) \in Data
    BY <1>3, <1>8, CongestionControlType
  <2>3. Below(SendData(CongestionControl(s)))
    BY <1>3, <1>4, <1>8, <2>2, CongestionBelow, SendDataRates, SameRatesBelow
  <2>4. QED  BY <2>1, <2>3
<1>9. CASE ack > N
  <2>1. HandleAck(d, p, ack).data = d
    BY <1>0, <1>9 DEF HandleAck
  <2>2. QED  BY <2>1
<1>10. QED  BY <1>0, <1>5, <1>6, <1>7, <1>8, <1>9

SInv == UInv /\ SlowStartBounded

LEMMA SlowStartNext ==
  ASSUME SInv, [Next]_vars
  PROVE  SlowStartBounded'
<1>1. \A p \in Peers : data[p] # NoUpload => data[p] \in Data /\ Shape(data[p]) /\ Below(data[p])
  BY ClientUpload DEF SInv, SlowStartBounded, Below
<1>2. ASSUME NEW p \in Peers, NEW d, data' = [data EXCEPT ![p] = d], Below(d)
      PROVE  SlowStartBounded'
  <2>1. ASSUME NEW x \in Peers, data'[x] # NoUpload  PROVE Below(data'[x])
    BY <1>1, <1>2, <2>1 DEF SInv, UInv, TypeOK
  <2>2. QED  BY <2>1 DEF SlowStartBounded, Below
<1>3. ASSUME NEW p \in Peers, NEW c \in Offsets, RecvGet(p, c)
      PROVE  SlowStartBounded'
  <2>1. PICK g \in Garbage : data' = [data EXCEPT ![p] = SendData(InitDatalist(c, g))]
    BY <1>3 DEF RecvGet
  <2>2. Below(SendData(InitDatalist(c, g)))
    <3>1. SameRates(InitDatalist(c, g), SendData(InitDatalist(c, g)))
      BY DEF SendData, SameRates, InitDatalist
    <3>2. Below(InitDatalist(c, g))
      BY SendWindowAssumption DEF InitDatalist, Below
    <3>3. QED  BY <3>1, <3>2, SameRatesBelow
  <2>3. QED  BY <1>2, <2>1, <2>2
<1>4. ASSUME NEW p \in Peers, NEW n \in AckNums, RecvAck(p, n)
      PROVE  SlowStartBounded'
  <2>1. data[p] # NoUpload /\ data' = [data EXCEPT ![p] = HandleAck(data[p], p, n - 1).data]
    BY <1>4 DEF RecvAck
  <2>2. n - 1 \in AckIndices
    BY ProtocolAssumption DEF AckIndices, AckNums
  <2>3. Below(HandleAck(data[p], p, n - 1).data)
    BY <1>1, <2>1, <2>2, AckBelow
  <2>4. QED  BY <1>2, <2>1, <2>3
<1>5. ASSUME NEW e \in tracker, Timeout(e)
      PROVE  SlowStartBounded'
  <2>1. \A p \in Peers : ProcessPacketLoss(data[p], p, 0) = data[p]
    BY ProtocolAssumption DEF ProcessPacketLoss
  <2>2. data' = data
    BY <1>5, <2>1 DEF Timeout, SInv, UInv, TypeOK
  <2>3. QED  BY <2>2 DEF SInv, SlowStartBounded
<1>6. CASE UNCHANGED vars
  BY <1>6 DEF vars, SInv, SlowStartBounded
<1>7. QED  BY <1>3, <1>4, <1>5, <1>6 DEF Next

(***************************************************************************)
(* For any number of clients and any ACKs, congestion_control leaves slow  *)
(* start at the threshold unless a loss has made that 0.                   *)
(***************************************************************************)
THEOREM SlowStartEnds == Spec => []SlowStartBounded
<1>1. Init => SlowStartBounded
  BY DEF Init, SlowStartBounded
<1>2. UInv /\ SlowStartBounded /\ [Next]_vars => SlowStartBounded'
  BY SlowStartNext DEF SInv
<1>3. QED  BY <1>1, <1>2, UploadInvariance, PTL DEF Spec
=============================================================================
