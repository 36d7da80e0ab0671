------------------------------- MODULE Upload -------------------------------
(***************************************************************************)
(* The serving side of a peer with several clients: one upload per client  *)
(* and a single packet tracker for all of them.                            *)
(*                                                                         *)
(* The clients are the most general ones: a client may ask for any chunk   *)
(* at any time, also while another chunk is on its way to it, and any ACK  *)
(* may arrive from it: old ones, ones for an earlier chunk, ones for       *)
(* packets never sent and ones past the end of the chunk.                  *)
(***************************************************************************)
EXTENDS SendWindow

CONSTANTS
  NoUpload,     \* value of data[p] before p has asked for a chunk
  MaxWindow     \* bound: ACKs are not delivered to a wider window

ASSUME UploadAssumption ==
  /\ NoUpload \notin Data
  /\ MaxWindow \in Nat

VARIABLES
  data,         \* data[p]: the newest data_t for client p
  tracker,      \* p_tracker
  out           \* packets the last handler passed to spiffy_sendto

vars == <<data, tracker, out>>

Packet(p, q, c) == [sock |-> p, seq |-> q, offset |-> c]

Init ==
  /\ data = [p \in Peers |-> NoUpload]
  /\ tracker = {}
  /\ out = {}

(***************************************************************************)
(* handle_packet on a GET.                                                 *)
(***************************************************************************)
RecvGet(p, c) ==
  \E g \in Garbage :
    LET d == InitDatalist(c, g) IN
    /\ data' = [data EXCEPT ![p] = SendData(d)]
    /\ tracker' = CreateTimer(tracker, p, c, SentSeqs(d))
    /\ out' = {Packet(p, q, c) : q \in SentSeqs(d)}

(***************************************************************************)
(* Numbers an ACK packet may bear: N + 1 is the last handle_ack lets pass  *)
(* and N + 2 stands for all it turns away (see AckIndices).                *)
(***************************************************************************)
AckNums == 0..(N + 2)

(***************************************************************************)
(* handle_packet on an ACK from a client that has an upload; from others   *)
(* it changes nothing.                                                     *)
(***************************************************************************)
RecvAck(p, n) ==
  /\ data[p] # NoUpload
  /\ data[p].send_window <= MaxWindow
  /\ \E h \in {HandleAck(data[p], p, n - 1)} :
       /\ data' = [data EXCEPT ![p] = h.data]
       /\ tracker' = CreateTimer(RemoveFromTracker(tracker, p, h.done),
                                 p, h.data.offset, h.out)
       /\ out' = {Packet(p, q, h.data.offset) : q \in h.out}

(***************************************************************************)
(* peer_run finds the timer of e expired and sends its packet again, to    *)
(* the client and with the bytes it was made for.  process_packet_loss is  *)
(* called with 0 and changes no upload.                                    *)
(***************************************************************************)
Timeout(e) ==
  /\ e \in tracker
  /\ out' = {e}
  /\ data' = [p \in Peers |-> IF data[p] = NoUpload THEN NoUpload
                              ELSE ProcessPacketLoss(data[p], p, 0)]
  /\ UNCHANGED tracker

Next ==
  \/ \E p \in Peers, c \in Offsets : RecvGet(p, c)
  \/ \E p \in Peers, n \in AckNums : RecvAck(p, n)
  \/ \E e \in tracker : Timeout(e)

Spec == Init /\ [][Next]_vars
-----------------------------------------------------------------------------
TypeOK ==
  /\ data \in [Peers -> Data \cup {NoUpload}]
  /\ tracker \subseteq Trackers
  /\ out \subseteq Trackers

(***************************************************************************)
(* Whatever ACKs a client sends, its window stays in one piece: everything *)
(* up to start has been acknowledged, everything up to end has been sent   *)
(* and nothing else has.  handle_ack lets one number past the last packet  *)
(* through, which moves start behind end; it does so only when the chunk   *)
(* has been sent and acknowledged in full.                                 *)
(***************************************************************************)
Window(d) ==
  /\ d.start <= d.end \/ (d.start = N /\ d.end = N - 1)
  /\ d.send_window >= 1
  /\ \A i \in Idx : d.state[i] = "UNSEND" <=> i > d.end
  /\ \A i \in Idx : i <= d.start => d.state[i] = "ACKED"

WindowsInShape ==
  \A p \in Peers : data[p] # NoUpload => Window(data[p])

(***************************************************************************)
(* Slow start stops at the threshold.  congestion_control tests for        *)
(* equality only, so a window that ever got past its threshold would grow  *)
(* by one with each ACK for good; that happens exactly when a loss at      *)
(* window 1 makes the threshold 0.                                         *)
(***************************************************************************)
SlowStartBounded ==
  \A p \in Peers :
    data[p] # NoUpload /\ data[p].congestion_control_state = "SLOWSTART"
      /\ data[p].ssthresh > 0 => data[p].send_window <= data[p].ssthresh

(***************************************************************************)
(* At most one timer per client and sequence number, through any sequence  *)
(* of GETs and ACKs.  remove_from_tracker takes off the first match only,  *)
(* so a second timer would resend a packet that has been acknowledged.     *)
(***************************************************************************)
OneTimerPerPacket ==
  \A e, f \in tracker : e.sock = f.sock /\ e.seq = f.seq => e = f

(***************************************************************************)
(* A timer goes away only when an ACK of its own client has covered its    *)
(* packet; no ACK of another client and no new GET ends it.                *)
(***************************************************************************)
TimerUntilAcked ==
  [][\A e \in tracker : e \notin tracker' =>
        /\ data[e.sock] # NoUpload
        /\ data[e.sock].state[e.seq - 1] = "UNACKED"
        /\ data'[e.sock].state[e.seq - 1] = "ACKED"]_vars

(***************************************************************************)
(* Every packet that waits for an ACK has a timer that will resend it.     *)
(***************************************************************************)
UnackedIsTracked ==
  \A p \in Peers : data[p] # NoUpload =>
    \A i \in Idx : data[p].state[i] = "UNACKED" =>
       \E e \in tracker : e.sock = p /\ e.seq = i + 1
=============================================================================
