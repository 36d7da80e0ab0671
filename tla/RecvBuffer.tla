----------------------------- MODULE RecvBuffer -----------------------------
(***************************************************************************)
(* The receiver half of flow_control.c: the recv_buffer_t that collects    *)
(* one chunk from one peer.                                                *)
(*                                                                         *)
(* A data packet is told apart by the chunk its bytes came from: chunks[i] *)
(* is that offset once packet i is stored and NoData before (recved =      *)
(* FALSE).  Every data packet carries 1024 bytes, so total_recv is 1024    *)
(* times the number of packets stored.                                     *)
(***************************************************************************)
EXTENDS Protocol

CONSTANT NoData     \* content of a packet slot not received yet

ASSUME RecvBufferAssumption == NoData \notin Offsets

Buffers ==
  [socket   : Peers,
   offset   : Offsets,
   busy     : BOOLEAN,
   expected : 1..N,
   chunks   : [Idx -> Offsets \cup {NoData}]]

Recved(b) == {i \in Idx : b.chunks[i] # NoData}

(***************************************************************************)
(* is_buffer_full on one buffer: 1024*512 - total_recv = 0.                *)
(***************************************************************************)
Full(b) == Recved(b) = Idx

(***************************************************************************)
(* The buffer init_recv_buffer adds.  Note expected = 1: the search for    *)
(* the packets received without a gap starts at index 1, not 0.            *)
(***************************************************************************)
(* Mutant: the search starts at index 0. *)
NewBufferZero(offset, socket) ==
  [socket |-> socket, offset |-> offset, busy |-> TRUE, expected |-> 0,
   chunks |-> [i \in Idx |-> NoData]]

NewBuffer(offset, socket) ==
  [socket |-> socket, offset |-> offset, busy |-> TRUE, expected |-> 1,
   chunks |-> [i \in Idx |-> NoData]]

(***************************************************************************)
(* recv_data on the buffer it selected: keep the first copy of packet      *)
(* i = seq - 1, then move expected up to the first index not received.     *)
(* The C loop runs to 1024 and reads past the array once all N packets are *)
(* in; that memory is the zero-filled rest of the mmap'ed allocation, so   *)
(* the loop stops at N.  The ACK sent back carries the new expected.       *)
(*                                                                         *)
(* recv_data first turns away a seq above CHUNK_PACKET_NUMBER.  Senders    *)
(* give their packets the numbers 1..N, re-sent ones included, so seq is   *)
(* one of Seqs here and that return is never taken.                        *)
(***************************************************************************)
(* Mutant: a packet that comes again overwrites the first copy. *)
StoreAgain(b, i, content) == [b EXCEPT !.chunks[i] = content]

Store(b, i, content) ==
  IF b.chunks[i] = NoData THEN [b EXCEPT !.chunks[i] = content] ELSE b

GapEnds(b) ==
  {i \in b.expected..N :
     /\ i = N \/ (i \in Idx /\ b.chunks[i] = NoData)
     /\ \A j \in Idx : b.expected <= j /\ j < i => b.chunks[j] # NoData}

FirstGap(b) == CHOOSE i \in GapEnds(b) : TRUE

RecvData(b, seq, content) ==
  LET s == Store(b, seq - 1, content) IN [s EXCEPT !.expected = FirstGap(s)]
=============================================================================
