-------------------------- MODULE SendWindowProofs --------------------------
(***************************************************************************)
(* Lemmas about the operators of SendWindow, for every chunk size and      *)
(* every acknowledgement number.                                           *)
(***************************************************************************)
EXTENDS SendWindow, TLAPS

(***************************************************************************)
(* What the operators of SendWindow do to one data_t.  An ACK one past the *)
(* last packet leaves start behind end, in a chunk that is acknowledged.   *)
(***************************************************************************)
Shape(d) ==
  /\ d.start <= d.end \/ (d.start = N /\ d.end = N - 1)
  /\ d.send_window >= 1
  /\ \A i \in Idx : d.state[i] = "UNSEND" <=> i > d.end

(***************************************************************************)
(* send_data: only packets past end are sent and become UNACKED, and end   *)
(* stays within the window it has just filled.                             *)
(***************************************************************************)
LEMMA SendDataFacts ==
  ASSUME NEW d \in Data, Shape(d)
  PROVE  /\ SendData(d) \in Data
         /\ Shape(SendData(d))
         /\ SendData(d).offset = d.offset
         /\ SendData(d).start = d.start
         /\ SendData(d).send_window = d.send_window
         /\ SentSeqs(d) \subseteq Seqs
         /\ \A i \in Idx : SendData(d).state[i] =
               IF i + 1 \in SentSeqs(d) THEN "UNACKED" ELSE d.state[i]
         /\ \A i \in Idx : i + 1 \in SentSeqs(d) => d.state[i] = "UNSEND"
         /\ SendData(d).end >= d.end
         /\ \A q \in SentSeqs(d) : q <= d.start + 1 + d.send_window
<1>1. /\ N \in Nat \ {0}
      /\ d.start \in -1..N /\ d.end \in -1..(N - 1)
      /\ d.send_window \in Nat
      /\ d.state \in [Idx -> {"UNSEND", "UNACKED", "ACKED"}]
  BY ProtocolAssumption DEF Data
<1>2. /\ NewEnd(d) \in -1..(N - 1)
      /\ NewEnd(d) >= d.end
      /\ NewEnd(d) > d.end => NewEnd(d) <= d.start + d.send_window
  BY <1>1 DEF NewEnd
<1>3. \A i \in Idx : i + 1 \in SentSeqs(d) <=> d.end < i /\ i <= NewEnd(d)
  BY <1>1, <1>2 DEF SentSeqs, Seqs, Idx
<1>. DEFINE st == [i \in Idx |-> IF d.end < i /\ i <= NewEnd(d) THEN "UNACKED"
                                ELSE d.state[i]]
<1>4. st \in [Idx -> {"UNSEND", "UNACKED", "ACKED"}]
  BY <1>1
<1>5. SendData(d) = [d EXCEPT !.end = NewEnd(d), !.state = st]
  BY DEF SendData
<1>6. /\ SendData(d) \in Data
      /\ SendData(d).offset = d.offset
      /\ SendData(d).start = d.start
      /\ SendData(d).end = NewEnd(d)
      /\ SendData(d).send_window = d.send_window
      /\ SendData(d).state = st
  <2>. HIDE DEF st
  <2>. QED  BY <1>2, <1>4, <1>5 DEF Data
<1>7. Shape(SendData(d))
  <2>1. /\ d.start <= NewEnd(d) \/ (d.start = N /\ NewEnd(d) = N - 1)
        /\ d.send_window >= 1
    BY <1>1, <1>2 DEF Shape
  <2>2. ASSUME NEW i \in Idx  PROVE  st[i] = "UNSEND" <=> i > NewEnd(d)
    BY <1>1, <1>2 DEF Shape, Idx
  <2>3. QED  BY <1>6, <2>1, <2>2 DEF Shape
<1>8. \A q \in SentSeqs(d) : q <= d.start + 1 + d.send_window
  BY <1>1, <1>2 DEF SentSeqs, Seqs
<1>9. QED  BY <1>1, <1>2, <1>3, <1>6, <1>7, <1>8 DEF SentSeqs, Shape, Idx

(***************************************************************************)
(* A new upload sends packet 0 and nothing else.                           *)
(***************************************************************************)
LEMMA FirstSend ==
  ASSUME NEW g \in Garbage, NEW c \in Offsets
  PROVE  /\ SendData(InitDatalist(c, g)) \in Data
         /\ Shape(SendData(InitDatalist(c, g)))
         /\ SendData(InitDatalist(c, g)).offset = c
         /\ SendData(InitDatalist(c, g)).start = -1
         /\ SendData(InitDatalist(c, g)).end = 0
         /\ SendData(InitDatalist(c, g)).send_window = 1
         /\ \A i \in Idx : SendData(InitDatalist(c, g)).state[i] =
               IF i = 0 THEN "UNACKED" ELSE "UNSEND"
         /\ SentSeqs(InitDatalist(c, g)) = {1}
<1>. DEFINE d == InitDatalist(c, g)
<1>1. /\ N \in Nat \ {0} /\ Ssthresh0 \in Nat
      /\ g \in [prev : AckIndices, count : 0..DupLimit]
  BY ProtocolAssumption, SendWindowAssumption
<1>2. d \in Data
  BY <1>1 DEF InitDatalist, Data, DupLimit
<1>3. /\ d.start = -1 /\ d.end = -1 /\ d.send_window = 1
      /\ d.offset = c /\ \A i \in Idx : d.state[i] = "UNSEND"
  BY DEF InitDatalist
<1>4. Shape(d)
  BY <1>1, <1>3 DEF Shape, Idx
<1>5. NewEnd(d) = 0
  BY <1>1, <1>3 DEF NewEnd
<1>6. SentSeqs(d) = {1}
  BY <1>1, <1>3, <1>5 DEF SentSeqs, Seqs
<1>7. SendData(d).end = 0
  BY <1>2, <1>5 DEF SendData, Data
<1>8. \A i \in Idx : i + 1 \in {1} <=> i = 0
  BY <1>1 DEF Idx
<1>9. QED  BY <1>2, <1>3, <1>4, <1>6, <1>7, <1>8, SendDataFacts

(***************************************************************************)
(* check_return_ack, process_packet_loss and congestion_control do not     *)
(* touch the window's bounds or the packet states.                         *)
(***************************************************************************)
SameWindow(c, d) ==
  /\ c \in Data
  /\ c.offset = d.offset
  /\ c.start = d.start
  /\ c.end = d.end
  /\ c.state = d.state
  /\ c.send_window >= 1

(***************************************************************************)
(* check_return_ack changes only the duplicate-ACK fields.                 *)
(***************************************************************************)
LEMMA CheckReturnAckFacts ==
  ASSUME NEW d \in Data, Shape(d), NEW ack \in AckIndices
  PROVE  SameWindow(CheckReturnAck(d, ack), d)
<1>. DEFINE cnt == IF d.prev_ack # ack THEN 0
                   ELSE IF d.count_ack + 1 >= DupLimit THEN DupLimit
                   ELSE d.count_ack + 1
<1>1. cnt \in 0..DupLimit
  BY DEF Data, DupLimit
<1>2. CheckReturnAck(d, ack) = [d EXCEPT !.prev_ack = ack, !.count_ack = cnt]
  BY DEF CheckReturnAck
<1>. HIDE DEF cnt
<1>3. CheckReturnAck(d, ack) \in Data
  BY <1>1, <1>2 DEF Data
<1>4. QED  BY <1>2, <1>3 DEF Data, SameWindow, Shape

Updated(d, s, w, c, r) ==
  [d EXCEPT !.ssthresh = s, !.send_window = w,
            !.congestion_control_state = c, !.increase_rate = r]

(***************************************************************************)
(* What congestion control writes leaves the window alone.                 *)
(***************************************************************************)
LEMMA CongestionUpdate ==
  ASSUME NEW d \in Data, NEW s \in Nat, NEW w \in Nat, w >= 1, NEW r \in Nat,
         NEW c \in {"SLOWSTART", "CON_AVOID"}
  PROVE  SameWindow(Updated(d, s, w, c, r), d)
BY DEF Data, SameWindow, Updated

(***************************************************************************)
(* process_packet_loss leaves the window positions and the packet states.  *)
(***************************************************************************)
LEMMA PacketLossFacts ==
  ASSUME NEW d \in Data, Shape(d), NEW sock, NEW key
  PROVE  SameWindow(ProcessPacketLoss(d, sock, key), d)
<1>1. CASE key # sock
  BY <1>1 DEF ProcessPacketLoss, SameWindow, Shape
<1>2. CASE key = sock
  <2>1. d.send_window \div 2 \in Nat
    BY DEF Data
  <2>2. ProcessPacketLoss(d, sock, key) =
          Updated(d, d.send_window \div 2, 1, "SLOWSTART", 1)
    BY <1>2 DEF ProcessPacketLoss, Updated
  <2>3. QED  BY <2>1, <2>2, CongestionUpdate
<1>3. QED  BY <1>1, <1>2

(***************************************************************************)
(* congestion_control leaves them too, and the window never shrinks to 0.  *)
(***************************************************************************)
LEMMA CongestionControlFacts ==
  ASSUME NEW d \in Data, Shape(d)
  PROVE  SameWindow(CongestionControl(d), d)
<1>1. /\ d.send_window \in Nat /\ d.send_window >= 1 /\ d.ssthresh \in Nat
      /\ d.increase_rate \in Nat
      /\ d.congestion_control_state \in {"SLOWSTART", "CON_AVOID"}
      /\ d.send_window + 1 \in Nat /\ d.send_window + 1 >= 1
      /\ d.increase_rate + 1 \in Nat
  BY DEF Data, Shape
<1>2. \/ CongestionControl(d) =
           Updated(d, d.ssthresh, d.send_window, "CON_AVOID", 0)
      \/ CongestionControl(d) =
           Updated(d, d.ssthresh, d.send_window + 1,
                   d.congestion_control_state, d.increase_rate)
      \/ CongestionControl(d) =
           Updated(d, d.ssthresh, d.send_window + 1, d.congestion_control_state, 0)
      \/ CongestionControl(d) =
           Updated(d, d.ssthresh, d.send_window,
                   d.congestion_control_state, d.increase_rate + 1)
  BY DEF CongestionControl, Data, Updated
<1>3. QED  BY <1>1, <1>2, CongestionUpdate

(***************************************************************************)
(* Two data_t with the same positions and states have the same shape.      *)
(***************************************************************************)
LEMMA ShapeOfSameWindow ==
  ASSUME NEW c, NEW d \in Data, SameWindow(c, d), Shape(d)
  PROVE  Shape(c)
BY DEF SameWindow, Shape

(***************************************************************************)
(* The marking loop of handle_ack.                                         *)
(***************************************************************************)
LEMMA AcknowledgeFacts ==
  ASSUME NEW d \in Data, Shape(d), NEW ack \in AckIndices, ack <= N
  PROVE  /\ Acknowledge(d, ack) \in Data
         /\ Acknowledge(d, ack).offset = d.offset
         /\ Acknowledge(d, ack).start = d.start
         /\ Acknowledge(d, ack).end = d.end
         /\ Acknowledge(d, ack).send_window = d.send_window
         /\ Covered(d, ack) \subseteq Idx
         /\ \A i \in Covered(d, ack) : i <= ack /\ d.state[i] # "UNSEND"
         /\ \A i \in Idx : Acknowledge(d, ack).state[i] =
               IF i \in Covered(d, ack) THEN "ACKED" ELSE d.state[i]
         /\ Shape(Acknowledge(d, ack))
         /\ ~Overrun(d, ack) =>
              /\ ack <= d.end \/ (ack = N /\ d.end = N - 1)
              /\ \A i \in Idx : d.start < i /\ i <= ack => i \in Covered(d, ack)
<1>. DEFINE st == [i \in Idx |-> IF i \in Covered(d, ack) THEN "ACKED"
                                 ELSE d.state[i]]
<1>1. /\ d.start \in -1..N /\ d.end \in -1..(N - 1) /\ ack \in -1..N
      /\ d.state \in [Idx -> {"UNSEND", "UNACKED", "ACKED"}]
      /\ N \in Nat \ {0}
  BY ProtocolAssumption DEF Data, AckIndices
<1>2. \A i \in Covered(d, ack) : i \in Idx /\ i <= ack /\ d.state[i] # "UNSEND"
  BY <1>1 DEF Covered, Idx
<1>3. st \in [Idx -> {"UNSEND", "UNACKED", "ACKED"}]
  BY <1>1
<1>4. Acknowledge(d, ack) = [d EXCEPT !.state = st]
  BY DEF Acknowledge
<1>5. /\ Acknowledge(d, ack) \in Data
      /\ Acknowledge(d, ack).offset = d.offset
      /\ Acknowledge(d, ack).start = d.start
      /\ Acknowledge(d, ack).end = d.end
      /\ Acknowledge(d, ack).send_window = d.send_window
      /\ Acknowledge(d, ack).state = st
  <2>. HIDE DEF st
  <2>. QED  BY <1>3, <1>4 DEF Data
<1>6. \A i \in Idx : st[i] = "UNSEND" <=> d.state[i] = "UNSEND"
  BY <1>2
<1>7. Shape(Acknowledge(d, ack))
  <2>. HIDE DEF st
  <2>. QED  BY <1>5, <1>6 DEF Shape
<1>8. ASSUME ~Overrun(d, ack)
      PROVE  /\ ack <= d.end \/ (ack = N /\ d.end = N - 1)
             /\ \A i \in Idx : d.start < i /\ i <= ack => i \in Covered(d, ack)
  <2>1. \A i \in Idx : d.start < i /\ i <= ack => d.state[i] # "UNSEND" /\ i <= d.end
    BY <1>1, <1>8 DEF Overrun, Shape, Idx
  <2>2. \A i \in Idx : d.start < i /\ i <= ack => i \in Covered(d, ack)
    BY <1>1, <2>1 DEF Covered, Idx
  <2>3. CASE ack \in Idx /\ d.start < ack
    BY <1>1, <2>1, <2>2, <2>3
  <2>4. CASE ack = N /\ d.start < N - 1
    <3>1. N - 1 \in Idx /\ N - 1 <= ack
      BY <1>1, <2>4 DEF Idx
    <3>2. N - 1 <= d.end
      BY <2>1, <2>4, <3>1
    <3>3. QED  BY <1>1, <2>2, <2>4, <3>2
  <2>5. CASE ack <= d.start \/ (ack = N /\ d.start >= N - 1)
    BY <1>1, <2>2, <2>5 DEF Shape
  <2>6. QED  BY <1>1, <2>3, <2>4, <2>5 DEF Idx
<1>9. QED  BY <1>2, <1>5, <1>7, <1>8

(***************************************************************************)
(* handle_ack as a whole, whichever of its five exits it takes.            *)
(***************************************************************************)
AckedUpTo(d) == \A i \in Idx : i <= d.start => d.state[i] = "ACKED"

AckOutcome(h, d, ack) ==
  /\ h.data \in Data
  /\ Shape(h.data)
  /\ h.data.offset = d.offset
  /\ h.data.start \in {d.start, ack}
  /\ h.out \subseteq Seqs
  /\ \A i \in Idx : h.data.state[i] = "ACKED" => d.state[i] = "ACKED" \/ i <= ack
  /\ \A i \in Idx : d.state[i] = "ACKED" => h.data.state[i] = "ACKED"
  /\ \A i \in Idx : h.data.state[i] = "UNACKED" =>
        i + 1 \in h.out \/ (d.state[i] = "UNACKED" /\ i \notin h.done)
  /\ \A i \in h.done : /\ i \in Idx /\ d.state[i] = "UNACKED"
                       /\ h.data.state[i] = "ACKED"
  /\ \A q \in h.out : q <= ack + 1 + h.data.send_window
  /\ AckedUpTo(d) => AckedUpTo(h.data)
  /\ d.start <= d.end /\ ack < N => h.data.start <= h.data.end

(***************************************************************************)
(* handle_ack has that outcome for any ACK number and any window.          *)
(***************************************************************************)
LEMMA HandleAckFacts ==
  ASSUME NEW d \in Data, Shape(d), NEW sock, NEW ack \in AckIndices
  PROVE  AckOutcome(HandleAck(d, sock, ack), d, ack)
<1>. DEFINE c == CheckReturnAck(d, ack)
            a == Acknowledge(c, ack)
            done == {i \in Covered(c, ack) : c.state[i] # "ACKED"}
<1>1. SameWindow(c, d) /\ Shape(c) /\ c \in Data
  BY CheckReturnAckFacts, ShapeOfSameWindow DEF SameWindow
<1>2. N \in Nat \ {0} /\ ack \in -1..(N + 1)
  BY ProtocolAssumption DEF AckIndices
<1>3. /\ d.start \in -1..N /\ d.end \in -1..(N - 1)
      /\ d.state \in [Idx -> {"UNSEND", "UNACKED", "ACKED"}]
  BY DEF Data
<1>4. \A i \in done : i \in Idx /\ i \in Covered(c, ack) /\ d.state[i] = "UNACKED"
  <2>. HIDE DEF c
  <2>1. c.state = d.state
    BY <1>1 DEF SameWindow
  <2>2. \A i \in done : i \in Idx /\ c.state[i] # "UNSEND" /\ c.state[i] # "ACKED"
    BY <1>2 DEF Covered, Idx
  <2>3. QED  BY <1>3, <2>1, <2>2
<1>5. CASE IsDupAck(d, ack) /\ ack < N - 1
  <2>. DEFINE p == ProcessPacketLoss(c, sock, sock)
  <2>1. HandleAck(d, sock, ack) = [data |-> p, out |-> {ack + 2}, done |-> {}]
    BY <1>2, <1>5 DEF HandleAck, FastRetransmit
  <2>. HIDE DEF c
  <2>2. SameWindow(p, c)
    BY <1>1, PacketLossFacts
  <2>3. Shape(p) /\ p \in Data
    BY <1>1, <2>2, ShapeOfSameWindow DEF SameWindow
  <2>4. ack + 2 \in Seqs
    BY <1>2, <1>5 DEF Seqs
  <2>. HIDE DEF p
  <2>5. p.send_window \in Nat /\ p.send_window >= 1
    BY <2>2, <2>3 DEF SameWindow, Data
  <2>6. ack + 2 <= ack + 1 + p.send_window
    BY <1>2, <2>5
  <2>7. QED
    BY <1>1, <1>3, <2>1, <2>2, <2>3, <2>4, <2>6 DEF AckOutcome, AckedUpTo, SameWindow
<1>6. CASE IsDupAck(d, ack) /\ ack \in {N - 1, N}
  <2>1. HandleAck(d, sock, ack) = [data |-> c, out |-> {}, done |-> {}]
    BY <1>2, <1>6 DEF HandleAck
  <2>. HIDE DEF c
  <2>2. QED  BY <1>1, <1>3, <2>1 DEF AckOutcome, AckedUpTo, SameWindow
<1>7. CASE ack <= N /\ ~IsDupAck(d, ack) /\ Overrun(c, ack)
  <2>1. HandleAck(d, sock, ack) = [data |-> a, out |-> {}, done |-> done]
    BY <1>2, <1>7 DEF HandleAck
  <2>2. \A i \in done : i \in Idx /\ i \in Covered(c, ack) /\ d.state[i] = "UNACKED"
    BY <1>4
  <2>. HIDE DEF c
  <2>3. /\ a \in Data /\ Shape(a)
        /\ a.offset = d.offset /\ a.start = d.start /\ a.end = d.end
        /\ \A i \in Covered(c, ack) : i <= ack
        /\ \A i \in Idx : a.state[i] = IF i \in Covered(c, ack) THEN "ACKED"
                                       ELSE d.state[i]
    BY <1>1, <1>7, AcknowledgeFacts DEF SameWindow
  <2>. HIDE DEF a, done
  <2>4. QED  BY <1>3, <2>1, <2>2, <2>3 DEF AckOutcome, AckedUpTo
<1>8. CASE ack <= N /\ ~IsDupAck(d, ack) /\ ~Overrun(c, ack)
  <2>. DEFINE m == [a EXCEPT !.start = ack]
              s == CongestionControl(m)
  <2>1. HandleAck(d, sock, ack) =
          [data |-> SendData(s), out |-> SentSeqs(s), done |-> done]
    BY <1>2, <1>8 DEF HandleAck, Slide
  <2>2. \A i \in done : i \in Idx /\ i \in Covered(c, ack) /\ d.state[i] = "UNACKED"
    BY <1>4
  <2>. HIDE DEF c
  <2>3. /\ a \in Data /\ Shape(a)
        /\ a.offset = d.offset /\ a.start = d.start /\ a.end = d.end
        /\ a.send_window = c.send_window
        /\ \A i \in Covered(c, ack) : i <= ack /\ d.state[i] # "UNSEND"
        /\ \A i \in Idx : a.state[i] = IF i \in Covered(c, ack) THEN "ACKED"
                                       ELSE d.state[i]
        /\ ack <= d.end \/ (ack = N /\ d.end = N - 1)
        /\ \A i \in Idx : d.start < i /\ i <= ack => i \in Covered(c, ack)
    BY <1>1, <1>8, AcknowledgeFacts DEF SameWindow
  <2>. HIDE DEF a
  <2>4. /\ m \in Data /\ m.offset = d.offset /\ m.start = ack /\ m.end = d.end
        /\ m.state = a.state /\ m.send_window = a.send_window
    BY <1>2, <1>8, <2>3 DEF Data
  <2>5. Shape(m)
    <3>. HIDE DEF m
    <3>. QED  BY <2>3, <2>4 DEF Shape
  <2>. HIDE DEF m
  <2>6. SameWindow(s, m) /\ Shape(s) /\ s \in Data
    BY <2>4, <2>5, CongestionControlFacts, ShapeOfSameWindow DEF SameWindow
  <2>7. /\ s.offset = d.offset /\ s.start = ack /\ s.end = d.end
        /\ s.state = a.state
    BY <2>4, <2>6 DEF SameWindow
  <2>. HIDE DEF s, done
  <2>8. /\ SendData(s) \in Data /\ Shape(SendData(s))
        /\ SendData(s).offset = d.offset /\ SendData(s).start = ack
        /\ SentSeqs(s) \subseteq Seqs
        /\ \A i \in Idx : SendData(s).state[i] =
              IF i + 1 \in SentSeqs(s) THEN "UNACKED" ELSE a.state[i]
        /\ \A i \in Idx : i + 1 \in SentSeqs(s) => a.state[i] = "UNSEND"
        /\ SendData(s).end >= d.end
        /\ \A q \in SentSeqs(s) : q <= ack + 1 + SendData(s).send_window
    BY <2>6, <2>7, SendDataFacts
  <2>9. ASSUME AckedUpTo(d)  PROVE  AckedUpTo(SendData(s))
    <3>1. ASSUME NEW i \in Idx, i <= ack  PROVE  a.state[i] = "ACKED"
      BY <1>2, <1>3, <2>3, <2>9, <3>1 DEF AckedUpTo, Idx
    <3>2. QED  BY <2>8, <3>1 DEF AckedUpTo
  <2>10. ack < N => ack <= SendData(s).end
    <3>1. SendData(s).end \in Int
      BY <2>8 DEF Data
    <3>2. QED  BY <1>2, <1>3, <2>3, <2>8, <3>1
  <2>11. QED  BY <1>3, <2>1, <2>2, <2>3, <2>8, <2>9, <2>10 DEF AckOutcome
<1>9. CASE ack > N
  <2>1. HandleAck(d, sock, ack) = [data |-> d, out |-> {}, done |-> {}]
    BY <1>2, <1>9 DEF HandleAck
  <2>2. QED  BY <1>3, <2>1 DEF AckOutcome
<1>10. QED  BY <1>2, <1>5, <1>6, <1>7, <1>8, <1>9
=============================================================================
