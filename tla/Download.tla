------------------------------ MODULE Download ------------------------------
(***************************************************************************)
(* The requesting side of a peer: the file_manager of packet.c and the     *)
(* list of receive buffers of flow_control.c, driven by the user's GET     *)
(* command, by IHAVE and DATA packets and by the 10-second chunk timer.    *)
(*                                                                         *)
(* Here the other peers are the most general ones: any peer may answer     *)
(* IHAVE, early or late, for any chunks a WHOHAS ever asked about, and may *)
(* send, in any order and as often as it likes, packets of any chunk it    *)
(* ever got a GET for.  Module Swarm replaces them by real ones.           *)
(***************************************************************************)
EXTENDS RecvBuffer, Sequences

CONSTANTS
  Jobs,         \* chunk files the user may ask for: sequences of offsets
  Malformed,    \* chunk files with a hash that is too long: lines before it
  MaxHashes,    \* hashes in a full WHOHAS (50 in the code)
  NoFile,       \* value of output before a file is written
  MaxBuffers,   \* bound: receive buffers ever allocated
  MaxJobs       \* bound: GET commands of the user

ASSUME DownloadAssumption ==
  /\ Jobs \subseteq Seq(Offsets)
  /\ Malformed \subseteq Nat \ {0}
  /\ MaxHashes \in Nat \ {0}
  /\ MaxBuffers \in Nat
  /\ MaxJobs \in Nat

VARIABLES
  recvList,     \* recv_list, newest buffer first
  manager,      \* file_manager
  wanted,       \* offsets listed in some WHOHAS so far
  asked,        \* <<peer, offset>>: GETs sent so far
  output,       \* contents of the file last written
  jobs,         \* GET commands handled so far
  corrupt       \* memory outside a live object was read or written

vars == <<recvList, manager, wanted, asked, output, jobs, corrupt>>

(***************************************************************************)
(* file_manager: offset is the list offset[0..chunk_count-1]; array is the *)
(* whole offset array as last allocated, which the timer array is as long  *)
(* as, empty before the first GET and after check_file_manager has freed   *)
(* it.  The times themselves are abstracted: a chunk timer may be found    *)
(* expired whenever its chunk is not full.  already_used is written and    *)
(* never tested: the body of the comparison in handle_packet is empty.     *)
(***************************************************************************)
Managers ==
  [init : BOOLEAN, offset : Seq(Offsets), array : Seq(Offsets)]

(***************************************************************************)
(* is_buffer_full: there is a buffer for the chunk and ALL buffers ever    *)
(* allocated for it are full, the released ones included.                  *)
(***************************************************************************)
(* Mutant: one full buffer is enough. *)
IsBufferFullAny(list, c) ==
  \E k \in DOMAIN list : list[k].offset = c /\ Full(list[k])

IsBufferFull(list, c) ==
  /\ \E k \in DOMAIN list : list[k].offset = c
  /\ \A k \in DOMAIN list : list[k].offset = c => Full(list[k])

(***************************************************************************)
(* release_buffer, for a set of chunks.                                    *)
(***************************************************************************)
ReleaseBuffers(list, cs) ==
  [k \in DOMAIN list |->
     IF list[k].offset \in cs THEN [list[k] EXCEPT !.busy = FALSE] ELSE list[k]]

(***************************************************************************)
(* init_recv_buffer succeeds.                                              *)
(***************************************************************************)
(* Mutants: only the chunk, only the peer is looked at. *)
FreeChunk(list, c, p) ==
  \A k \in DOMAIN list : list[k].busy => list[k].offset # c

FreePeer(list, c, p) ==
  \A k \in DOMAIN list : list[k].busy => list[k].socket # p

Free(list, c, p) ==
  \A k \in DOMAIN list :
     list[k].busy => list[k].socket # p /\ list[k].offset # c

(***************************************************************************)
(* The timer update after IHAVE and DATA: it writes timer[j] for the first *)
(* j with offset[j] = c, and timer[chunk_count] if there is none.          *)
(***************************************************************************)
(* Mutant: the search starts one entry too late. *)
TimerIndexLate(c) ==
  IF \E j \in DOMAIN manager.offset : j > 1 /\ manager.offset[j] = c
  THEN CHOOSE j \in DOMAIN manager.offset : j > 1 /\ manager.offset[j] = c
  ELSE Len(manager.offset) + 1

TimerIndex(c) ==
  IF \E j \in DOMAIN manager.offset : manager.offset[j] = c
  THEN CHOOSE j \in DOMAIN manager.offset :
         manager.offset[j] = c /\ \A i \in 1..(j - 1) : manager.offset[i] # c
  ELSE Len(manager.offset) + 1

TouchTimer(c) == corrupt' = (TimerIndex(c) > Len(manager.array))

(***************************************************************************)
(* The lists generate_WHOHAS cuts a chunk file into: one whenever there    *)
(* are MaxHashes, and one with the rest, which may be none.                *)
(***************************************************************************)
(* Mutant: the full lists are not sent. *)
SplitLast(job) ==
  <<SubSeq(job, (Len(job) \div MaxHashes) * MaxHashes + 1, Len(job))>>

Split(job) ==
  LET upto(k) == IF k * MaxHashes < Len(job) THEN k * MaxHashes ELSE Len(job) IN
  [k \in 1..(Len(job) \div MaxHashes + 1) |->
     SubSeq(job, (k - 1) * MaxHashes + 1, upto(k))]

Listed(lists) == UNION {{lists[k][i] : i \in DOMAIN lists[k]} : k \in DOMAIN lists}

(***************************************************************************)
(* generate_WHOHAS for a chunk file that exists.                           *)
(***************************************************************************)
UserGet(job) ==
  /\ ~corrupt /\ jobs < MaxJobs
  /\ manager' = [init |-> TRUE, offset |-> job, array |-> job]
  /\ wanted' = wanted \cup Listed(Split(job))
  /\ jobs' = jobs + 1
  /\ UNCHANGED <<recvList, asked, output, corrupt>>

(***************************************************************************)
(* generate_WHOHAS for one that cannot be opened: it returns after the     *)
(* file_manager has been marked in use with no chunks.                     *)
(***************************************************************************)
UserGetMissing ==
  /\ ~corrupt /\ jobs < MaxJobs
  /\ manager' = [manager EXCEPT !.init = TRUE, !.offset = << >>]
  /\ jobs' = jobs + 1
  /\ UNCHANGED <<recvList, wanted, asked, output, corrupt>>

(***************************************************************************)
(* generate_WHOHAS for one with a hash of more than 40 characters after k  *)
(* good lines: it returns with chunk_count = k and no new arrays.  The     *)
(* turn of the loop that reads the command goes on to re_generateWhohas,   *)
(* which looks at the first k entries of the arrays that are there.  The   *)
(* hash itself may overrun line[40].                                       *)
(***************************************************************************)
UserGetMalformed(k) ==
  /\ ~corrupt /\ jobs < MaxJobs
  /\ \/ /\ k <= Len(manager.array)
        /\ manager' = [manager EXCEPT !.init = TRUE,
                                      !.offset = SubSeq(manager.array, 1, k)]
        /\ UNCHANGED corrupt
     \/ /\ corrupt' = TRUE
        /\ UNCHANGED manager
  /\ jobs' = jobs + 1
  /\ UNCHANGED <<recvList, wanted, asked, output>>

(***************************************************************************)
(* handle_packet on an IHAVE: cs are the chunks it lists, in order.  The   *)
(* first one init_recv_buffer accepts gets a buffer and a GET; it makes    *)
(* the peer busy, so the rest are refused.                                 *)
(***************************************************************************)
Accepted(p, cs) ==
  {k \in DOMAIN cs : /\ Free(recvList, cs[k], p)
                     /\ \A i \in 1..(k - 1) : ~Free(recvList, cs[i], p)}

RecvIHave(p, cs) ==
  /\ ~corrupt
  /\ \E k \in Accepted(p, cs) :
       /\ Len(recvList) < MaxBuffers
       /\ recvList' = <<NewBuffer(cs[k], p)>> \o recvList
       /\ asked' = asked \cup {<<p, cs[k]>>}
       /\ TouchTimer(cs[k])
  /\ UNCHANGED <<manager, wanted, output, jobs>>

(***************************************************************************)
(* check_file_manager, on the list recv_data has left.  Done: the chunks   *)
(* before the first one that is not full; they are released.  When all are *)
(* full the file is written from the newest buffer of each chunk, and the  *)
(* manager closed.                                                         *)
(***************************************************************************)
Done(list) ==
  {k \in DOMAIN manager.offset :
     \A i \in 1..k : IsBufferFull(list, manager.offset[i])}

(* Mutant: the newest buffer of any chunk. *)
NewestAny(list, c) == list[1]

Newest(list, c) ==
  list[CHOOSE k \in DOMAIN list :
         list[k].offset = c /\ \A i \in 1..(k - 1) : list[i].offset # c]

Contents(list) ==
  [k \in DOMAIN manager.offset |-> Newest(list, manager.offset[k]).chunks]

CheckFileManager(list) ==
  IF ~manager.init
  THEN recvList' = list /\ UNCHANGED <<manager, output>>
  ELSE /\ recvList' = ReleaseBuffers(list, {manager.offset[k] : k \in Done(list)})
       /\ IF Done(list) = DOMAIN manager.offset
          THEN /\ output' = Contents(list)
               /\ manager' = [manager EXCEPT !.init = FALSE, !.array = << >>]
          ELSE UNCHANGED <<manager, output>>

(***************************************************************************)
(* handle_packet on a DATA packet of peer p that holds packet q of chunk   *)
(* c.  recv_data takes the newest buffer of p; the packet does not say     *)
(* which chunk it belongs to.                                              *)
(***************************************************************************)
Target(p) ==
  {k \in DOMAIN recvList : /\ recvList[k].socket = p
                           /\ \A i \in 1..(k - 1) : recvList[i].socket # p}

RecvDataPkt(p, q, c) ==
  /\ ~corrupt
  /\ \E k \in Target(p) :
       /\ CheckFileManager([recvList EXCEPT ![k] = RecvData(@, q, c)])
       /\ TouchTimer(recvList[k].offset)
  /\ UNCHANGED <<wanted, asked, jobs>>

(***************************************************************************)
(* A scan of re_generateWhohas finds the timers of the chunks in K expired *)
(* and none of these chunks full: their buffers are released and a WHOHAS  *)
(* is sent again for each.                                                 *)
(***************************************************************************)
Expirable == SUBSET DOMAIN manager.offset \ {{}}

ChunkTimeout(K) ==
  /\ ~corrupt
  /\ manager.init
  /\ \A k \in K : ~IsBufferFull(recvList, manager.offset[k])
  /\ recvList' = ReleaseBuffers(recvList, {manager.offset[k] : k \in K})
  /\ UNCHANGED <<manager, wanted, asked, output, jobs, corrupt>>

Init ==
  /\ recvList = << >>
  /\ manager = [init |-> FALSE, offset |-> << >>, array |-> << >>]
  /\ wanted = {}
  /\ asked = {}
  /\ output = NoFile
  /\ jobs = 0
  /\ corrupt = FALSE

(***************************************************************************)
(* The chunk lists of IHAVE packets.  At most one chunk of a packet is     *)
(* accepted, so lists of one and two chunks show every case.               *)
(***************************************************************************)
Lists == UNION {[1..n -> wanted] : n \in {1, 2}}

Next ==
  \/ \E job \in Jobs : UserGet(job)
  \/ UserGetMissing
  \/ \E k \in Malformed : UserGetMalformed(k)
  \/ \E p \in Peers, cs \in Lists : RecvIHave(p, cs)
  \/ \E pc \in asked, q \in Seqs : RecvDataPkt(pc[1], q, pc[2])
  \/ \E K \in Expirable : ChunkTimeout(K)

Spec == Init /\ [][Next]_vars
-----------------------------------------------------------------------------
TypeOK ==
  /\ recvList \in Seq(Buffers)
  /\ manager \in Managers
  /\ wanted \subseteq Offsets
  /\ asked \subseteq Peers \X Offsets
  /\ output = NoFile \/ output \in Seq([Idx -> Offsets \cup {NoData}])
  /\ jobs \in 0..MaxJobs
  /\ corrupt \in BOOLEAN

(***************************************************************************)
(* One transfer per peer and per chunk at a time: two busy buffers never   *)
(* share a peer or a chunk, through any sequence of GET commands, IHAVEs,  *)
(* time-outs and releases.                                                 *)
(***************************************************************************)
BusyUnique ==
  \A k, l \in DOMAIN recvList :
     recvList[k].busy /\ recvList[l].busy /\ k # l =>
        recvList[k].socket # recvList[l].socket /\ recvList[k].offset # recvList[l].offset

(***************************************************************************)
(* recv_data and copy_chunk_data take the newest buffer of a peer and of a *)
(* chunk without looking at busy.  A busy buffer is the newest one of its  *)
(* peer and of its chunk, so a transfer that is going on is the one they   *)
(* find.                                                                   *)
(***************************************************************************)
BusyIsNewest ==
  \A k \in DOMAIN recvList : recvList[k].busy =>
     \A i \in 1..(k - 1) : /\ recvList[i].socket # recvList[k].socket
                           /\ recvList[i].offset # recvList[k].offset

(***************************************************************************)
(* The file is only ever written with every packet of every chunk in it.   *)
(***************************************************************************)
OutputComplete ==
  output # NoFile =>
     \A k \in DOMAIN output : \A i \in Idx : output[k][i] # NoData

(***************************************************************************)
(* Every chunk the file manager waits for was listed in a WHOHAS, however  *)
(* the chunk file was cut into lists and whichever commands, malformed     *)
(* ones included, came after it.                                           *)
(***************************************************************************)
ChunksAskedFor ==
  manager.init => \A k \in DOMAIN manager.offset : manager.offset[k] \in wanted

(***************************************************************************)
(* A packet, once stored, stays as it was, and a buffer is never taken off *)
(* the list: position counts from the oldest buffer.                       *)
(***************************************************************************)
StoredIsKept ==
  [][/\ Len(recvList') >= Len(recvList)
     /\ \A k \in DOMAIN recvList, i \in Idx :
          recvList[k].chunks[i] # NoData =>
            recvList'[k + Len(recvList') - Len(recvList)].chunks[i]
              = recvList[k].chunks[i]]_vars
=============================================================================
