----------------------------- MODULE SendWindow -----------------------------
(***************************************************************************)
(* The sender half of flow_control.c: the data_t kept for every upload     *)
(* (sliding window, congestion control, duplicate-ACK detection) and the   *)
(* packet tracker that peer_run polls to retransmit.                       *)
(*                                                                         *)
(* The C list of data_t grows at its head and is searched from its head,   *)
(* so only the newest data_t of a peer is ever used; the models keep that  *)
(* one.  The operators here take a data_t and return the new one; the      *)
(* modules that EXTEND this one hold the variables.                        *)
(***************************************************************************)
EXTENDS Protocol

CONSTANTS
  Ssthresh0,    \* initial ssthresh (64 in the code)
  LateWindows,  \* windows w for which the float sum of w copies of 1/w is < 1
  Garbage       \* what malloc may leave in prev_ack and count_ack

(***************************************************************************)
(* count_ack is compared with 2 and never otherwise read, so it is kept    *)
(* saturated at that bound.                                                *)
(***************************************************************************)
DupLimit == 2

(***************************************************************************)
(* The numbers handle_ack works with are those of the ACK packets less 1.  *)
(* It turns away what is above CHUNK_PACKET_NUMBER, so -1..N are the ones  *)
(* it acts on.  Packets with a number above 2^31 become negative and would *)
(* index the state array below 0; no peer sends them and they are left out.*)
(*                                                                         *)
(* prev_ack and count_ack are not initialised by init_datalist.  prev_ack  *)
(* is only compared with numbers in -1..N; N + 1 stands for every other    *)
(* value.                                                                  *)
(***************************************************************************)
AckIndices == -1..(N + 1)

ASSUME SendWindowAssumption ==
  /\ Ssthresh0 \in Nat
  /\ LateWindows \subseteq Nat
  /\ Garbage \subseteq [prev : AckIndices, count : 0..DupLimit]

Data ==
  [offset                   : Offsets,
   state                    : [Idx -> {"UNSEND", "UNACKED", "ACKED"}],
   send_window              : Nat,
   ssthresh                 : Nat,
   congestion_control_state : {"SLOWSTART", "CON_AVOID"},
   start                    : -1..N,
   end                      : -1..(N - 1),
   increase_rate            : Nat,
   prev_ack                 : AckIndices,
   count_ack                : 0..DupLimit]

(***************************************************************************)
(* init_datalist: g is what malloc left in the two fields it does not set. *)
(* increase_rate counts the ACKs added up in CON_AVOID: the float holds    *)
(* increase_rate / send_window.                                            *)
(***************************************************************************)
(* Mutant: the first window holds two packets. *)
InitDatalistWide(offset, g) ==
  [offset |-> offset,
   state  |-> [i \in Idx |-> "UNSEND"],
   send_window |-> 2,
   ssthresh |-> Ssthresh0,
   congestion_control_state |-> "SLOWSTART",
   start |-> -1,
   end   |-> -1,
   increase_rate |-> 1,
   prev_ack  |-> g.prev,
   count_ack |-> g.count]

InitDatalist(offset, g) ==
  [offset |-> offset,
   state  |-> [i \in Idx |-> "UNSEND"],
   send_window |-> 1,
   ssthresh |-> Ssthresh0,
   congestion_control_state |-> "SLOWSTART",
   start |-> -1,
   end   |-> -1,
   increase_rate |-> 1,
   prev_ack  |-> g.prev,
   count_ack |-> g.count]

(***************************************************************************)
(* send_data: with room in the window, end moves up to start + send_window *)
(* but not past the last packet, and every packet it passes is sent.       *)
(***************************************************************************)
(* Mutant: the last index is off by one. *)
NewEndPast(d) ==
  LET target == d.start + d.send_window IN
  IF target <= d.end THEN d.end
  ELSE IF target <= N THEN target ELSE N

NewEnd(d) ==
  LET target == d.start + d.send_window IN
  IF target <= d.end THEN d.end
  ELSE IF target <= N - 1 THEN target ELSE N - 1

SentSeqs(d) == {q \in Seqs : d.end < q - 1 /\ q - 1 <= NewEnd(d)}

(* Mutant: the last packet sent is not marked. *)
SendDataShort(d) ==
  [d EXCEPT !.end = NewEnd(d),
            !.state = [i \in Idx |-> IF d.end < i /\ i < NewEnd(d) THEN "UNACKED"
                                     ELSE d.state[i]]]

SendData(d) ==
  [d EXCEPT !.end = NewEnd(d),
            !.state = [i \in Idx |-> IF d.end < i /\ i <= NewEnd(d) THEN "UNACKED"
                                     ELSE d.state[i]]]

(***************************************************************************)
(* check_return_ack: IsDupAck is its result, CheckReturnAck its effect.    *)
(***************************************************************************)
IsDupAck(d, ack) == d.prev_ack = ack /\ d.count_ack + 1 >= DupLimit

CheckReturnAck(d, ack) ==
  [d EXCEPT !.prev_ack = ack,
            !.count_ack = IF d.prev_ack # ack THEN 0
                          ELSE IF d.count_ack + 1 >= DupLimit THEN DupLimit
                          ELSE d.count_ack + 1]

(***************************************************************************)
(* process_packet_loss(key): acts on the upload to peer key only.          *)
(***************************************************************************)
(* Mutant: the window is left as it is. *)
ProcessPacketLossKeep(d, socket, key) ==
  IF key # socket THEN d
  ELSE [d EXCEPT !.ssthresh = d.send_window \div 2,
                 !.congestion_control_state = "SLOWSTART",
                 !.increase_rate = 1]

ProcessPacketLoss(d, socket, key) ==
  IF key # socket THEN d
  ELSE [d EXCEPT !.ssthresh = d.send_window \div 2,
                 !.send_window = 1,
                 !.congestion_control_state = "SLOWSTART",
                 !.increase_rate = 1]

(***************************************************************************)
(* congestion_control.                                                     *)
(***************************************************************************)
AvoidAcks(w) == IF w \in LateWindows THEN w + 1 ELSE w

CongestionControl(d) ==
  CASE d.congestion_control_state = "SLOWSTART" /\ d.ssthresh = d.send_window ->
         [d EXCEPT !.congestion_control_state = "CON_AVOID", !.increase_rate = 0]
    [] d.congestion_control_state = "SLOWSTART" /\ d.ssthresh # d.send_window ->
         [d EXCEPT !.send_window = @ + 1]
    [] d.congestion_control_state = "CON_AVOID"
         /\ d.increase_rate + 1 >= AvoidAcks(d.send_window) ->
         [d EXCEPT !.send_window = @ + 1, !.increase_rate = 0]
    [] OTHER -> [d EXCEPT !.increase_rate = @ + 1]

(***************************************************************************)
(* handle_ack.  Covered: the packets its loop reaches, which stops at the  *)
(* first packet never sent; Acknowledge marks them.  Overrun: the loop hit *)
(* such a packet and handle_ack returned there.                            *)
(***************************************************************************)
(* Mutant: the loop goes one packet too far. *)
CoveredPast(d, ack) ==
  {i \in Idx : /\ d.start < i /\ i <= ack + 1
               /\ \A j \in Idx : d.start < j /\ j <= i => d.state[j] # "UNSEND"}

Covered(d, ack) ==
  {i \in Idx : /\ d.start < i /\ i <= ack
               /\ \A j \in Idx : d.start < j /\ j <= i => d.state[j] # "UNSEND"}

(* Mutant: the loop is left at such a packet, handle_ack is not. *)
OverrunIgnored(d, ack) == FALSE

Overrun(d, ack) ==
  \E i \in Idx : d.start < i /\ i <= ack /\ d.state[i] = "UNSEND"

Acknowledge(d, ack) ==
  [d EXCEPT !.state = [i \in Idx |-> IF i \in Covered(d, ack) THEN "ACKED"
                                     ELSE d.state[i]]]

Slide(d, ack) ==
  CongestionControl([Acknowledge(d, ack) EXCEPT !.start = ack])

(***************************************************************************)
(* The result: the data_t after the handler, the sequence numbers it sends *)
(* and the packets it takes off the tracker.                               *)
(***************************************************************************)
(* Mutant: one packet too far. *)
FastRetransmitNext(d, socket, ack) ==
  [data |-> ProcessPacketLoss(d, socket, socket), out |-> {ack + 3}, done |-> {}]

FastRetransmit(d, socket, ack) ==
  [data |-> ProcessPacketLoss(d, socket, socket), out |-> {ack + 2}, done |-> {}]

HandleAck(d, socket, ack) ==
  LET c == CheckReturnAck(d, ack) IN
  CASE ack > N ->
         [data |-> d, out |-> {}, done |-> {}]
    [] IsDupAck(d, ack) /\ ack < N - 1 ->
         FastRetransmit(c, socket, ack)
    [] IsDupAck(d, ack) /\ ack \in {N - 1, N} ->
         [data |-> c, out |-> {}, done |-> {}]
    [] ack <= N /\ ~IsDupAck(d, ack) /\ Overrun(c, ack) ->
         [data |-> Acknowledge(c, ack), out |-> {},
          done |-> {i \in Covered(c, ack) : c.state[i] # "ACKED"}]
    [] OTHER ->
         [data |-> SendData(Slide(c, ack)), out |-> SentSeqs(Slide(c, ack)),
          done |-> {i \in Covered(c, ack) : c.state[i] # "ACKED"}]

(***************************************************************************)
(* The packet tracker, one entry per packet waiting for its ACK.  It is a  *)
(* list in the code; nothing depends on the order of its entries.          *)
(* create_timer looks for an entry with the same sequence number, whoever  *)
(* the packet was for, and adds one only if there is none.                 *)
(***************************************************************************)
Trackers == [sock : Peers, seq : Seqs, offset : Offsets]

(* Mutants: only the first packet gets a timer; no look for an old timer. *)
CreateTimerFirst(t, sock, offset, out) ==
  t \cup {[sock |-> sock, seq |-> q, offset |-> offset] :
            q \in {p \in out : p = 1 /\ \A e \in t : e.seq # p}}

CreateTimerAlways(t, sock, offset, out) ==
  t \cup {[sock |-> sock, seq |-> q, offset |-> offset] : q \in out}

CreateTimer(t, sock, offset, out) ==
  t \cup {[sock |-> sock, seq |-> q, offset |-> offset] :
            q \in {p \in out : \A e \in t : e.seq # p}}

(* Mutants: packets and sequence numbers confused; any client's timer goes. *)
RemoveFromTrackerNext(t, sock, done) ==
  {e \in t : ~(e.sock = sock /\ e.seq - 2 \in done)}

RemoveFromTrackerAny(t, sock, done) ==
  {e \in t : ~(e.seq - 1 \in done)}

RemoveFromTracker(t, sock, done) ==
  {e \in t : ~(e.sock = sock /\ e.seq - 1 \in done)}
=============================================================================
