--------------------------- MODULE DownloadProofs ---------------------------
(***************************************************************************)
(* The requesting side for any number of peers, chunks, GET commands and   *)
(* buffers.                                                                *)
(*                                                                         *)
(* DInv, the buffers: at most one transfer per peer and per chunk, and it  *)
(* is the one the code finds.  FileInv, the file manager: every chunk      *)
(* waited for was listed in a WHOHAS, and only complete files are written. *)
(* OriginInv: all bytes in a buffer were asked of its peer.  TimerInv: the *)
(* chunk timers stay inside their array as long as there is one well-      *)
(* formed command.                                                         *)
(***************************************************************************)
EXTENDS Download, RecvBufferProofs, TLAPS

(***************************************************************************)
(* The inductive invariant.  asked is part of it because the packets that  *)
(* arrive are those of the GETs sent.                                      *)
(***************************************************************************)
DInv ==
  /\ recvList \in Seq(Buffers)
  /\ wanted \subseteq Offsets
  /\ asked \subseteq Peers \X Offsets
  /\ BusyIsNewest

(***************************************************************************)
(* BusyIsNewest, of any list.                                              *)
(***************************************************************************)
InOrder(list) ==
  \A k \in DOMAIN list : list[k].busy =>
     \A i \in 1..(k - 1) : list[i].socket # list[k].socket /\ list[i].offset # list[k].offset

(***************************************************************************)
(* A list whose buffers keep their peer and chunk and become busy nowhere  *)
(* stays in order.                                                         *)
(***************************************************************************)
LEMMA OrderKept ==
  ASSUME NEW l \in Seq(Buffers), NEW m \in Seq(Buffers), InOrder(l), Len(m) = Len(l),
         \A k \in 1..Len(l) : /\ m[k].socket = l[k].socket
                              /\ m[k].offset = l[k].offset
                              /\ m[k].busy => l[k].busy
  PROVE  InOrder(m)
<1>. SUFFICES ASSUME NEW k \in DOMAIN m, m[k].busy, NEW i \in 1..(k - 1)
              PROVE  m[i].socket # m[k].socket /\ m[i].offset # m[k].offset
  BY DEF InOrder
<1>1. k \in 1..Len(l) /\ i \in 1..Len(l) /\ k \in DOMAIN l
  OBVIOUS
<1>2. QED  BY <1>1 DEF InOrder

(***************************************************************************)
(* release_buffer and recv_data are such changes.                          *)
(***************************************************************************)
LEMMA Released ==
  ASSUME NEW l \in Seq(Buffers), InOrder(l), NEW cs
  PROVE  ReleaseBuffers(l, cs) \in Seq(Buffers) /\ InOrder(ReleaseBuffers(l, cs))
<1>. DEFINE m == ReleaseBuffers(l, cs)
<1>. DOMAIN l = 1..Len(l)
  OBVIOUS
<1>1. \A k \in 1..Len(l) : m[k] = IF l[k].offset \in cs
                                   THEN [l[k] EXCEPT !.busy = FALSE] ELSE l[k]
  BY DEF ReleaseBuffers
<1>2. \A k \in 1..Len(l) : l[k] \in Buffers
  OBVIOUS
<1>3. \A k \in 1..Len(l) :
         /\ m[k] \in Buffers
         /\ m[k].socket = l[k].socket /\ m[k].offset = l[k].offset
         /\ m[k].busy => l[k].busy
  BY <1>1, <1>2 DEF Buffers
<1>4. m = [k \in 1..Len(l) |-> m[k]]
  BY DEF ReleaseBuffers
<1>5. m \in Seq(Buffers) /\ Len(m) = Len(l)
  <2>. HIDE DEF m
  <2>. QED  BY <1>3, <1>4
<1>6. QED  BY <1>3, <1>5, OrderKept

(***************************************************************************)
(* What recv_data leaves of the list.                                      *)
(***************************************************************************)
LEMMA Stored ==
  ASSUME NEW l \in Seq(Buffers), InOrder(l), NEW k \in DOMAIN l,
         NEW q \in Seqs, NEW c \in Offsets
  PROVE  /\ [l EXCEPT ![k] = RecvData(@, q, c)] \in Seq(Buffers)
         /\ InOrder([l EXCEPT ![k] = RecvData(@, q, c)])
<1>. DEFINE r == RecvData(l[k], q, c)
            m == [l EXCEPT ![k] = r]
<1>1. /\ r \in Buffers /\ r.socket = l[k].socket /\ r.offset = l[k].offset
      /\ r.busy = l[k].busy
  BY RecvDataFacts
<1>. HIDE DEF r
<1>2. m \in Seq(Buffers) /\ Len(m) = Len(l)
  BY <1>1
<1>3. \A i \in 1..Len(l) : /\ m[i].socket = l[i].socket /\ m[i].offset = l[i].offset
                           /\ m[i].busy => l[i].busy
  BY <1>1
<1>4. InOrder(m)
  <2>. HIDE DEF m
  <2>. QED  BY <1>2, <1>3, OrderKept
<1>5. QED  BY <1>2, <1>4 DEF r

(***************************************************************************)
(* A buffer init_recv_buffer lets in may go to the head of the list.       *)
(***************************************************************************)
LEMMA Allocated ==
  ASSUME NEW l \in Seq(Buffers), InOrder(l), NEW p \in Peers, NEW c \in Offsets,
         Free(l, c, p)
  PROVE  /\ <<NewBuffer(c, p)>> \o l \in Seq(Buffers)
         /\ InOrder(<<NewBuffer(c, p)>> \o l)
<1>. DEFINE b == NewBuffer(c, p)
            m == <<b>> \o l
<1>1. b \in Buffers /\ b.socket = p /\ b.offset = c
  BY ProtocolAssumption DEF NewBuffer, Buffers
<1>. HIDE DEF b
<1>2. /\ m \in Seq(Buffers) /\ Len(m) = Len(l) + 1 /\ m[1] = b
      /\ \A k \in 2..Len(m) : m[k] = l[k - 1] /\ k - 1 \in DOMAIN l
  BY <1>1
<1>. HIDE DEF m
<1>3. ASSUME NEW k \in DOMAIN m, m[k].busy, NEW i \in 1..(k - 1)
      PROVE  m[i].socket # m[k].socket /\ m[i].offset # m[k].offset
  <2>1. k \in 2..Len(m)
    BY <1>2, <1>3
  <2>2. m[k] = l[k - 1] /\ k - 1 \in DOMAIN l /\ l[k - 1].busy
    BY <1>2, <1>3, <2>1
  <2>3. CASE i = 1
    BY <1>1, <1>2, <2>2, <2>3 DEF Free
  <2>4. CASE i # 1
    <3>1. m[i] = l[i - 1] /\ i - 1 \in 1..((k - 1) - 1)
      BY <1>2, <2>1, <2>4
    <3>2. QED  BY <2>2, <3>1 DEF InOrder
  <2>5. QED  BY <2>3, <2>4
<1>4. InOrder(m)
  BY <1>3 DEF InOrder
<1>5. QED  BY <1>2, <1>4 DEF b, m

(***************************************************************************)
(* An IHAVE keeps the invariant: it adds at most one buffer, for a peer    *)
(* and a chunk that are both free.                                         *)
(***************************************************************************)
LEMMA IHaveStep ==
  ASSUME DInv, NEW p \in Peers, NEW cs \in Lists, RecvIHave(p, cs)
  PROVE  DInv'
<1>1. PICK k \in Accepted(p, cs) :
        /\ recvList' = <<NewBuffer(cs[k], p)>> \o recvList
        /\ asked' = asked \cup {<<p, cs[k]>>}
  BY DEF RecvIHave
<1>2. cs[k] \in Offsets
  <2>1. PICK n \in {1, 2} : cs \in [1..n -> wanted]
    BY DEF Lists
  <2>2. QED  BY <2>1 DEF Accepted, DInv
<1>3. Free(recvList, cs[k], p)
  BY DEF Accepted
<1>4. recvList \in Seq(Buffers) /\ InOrder(recvList)
  BY DEF DInv, BusyIsNewest, InOrder
<1>5. recvList' \in Seq(Buffers) /\ InOrder(recvList')
  BY <1>1, <1>2, <1>3, <1>4, Allocated
<1>6. wanted' = wanted
  BY DEF RecvIHave
<1>7. QED  BY <1>1, <1>2, <1>5, <1>6 DEF DInv, BusyIsNewest, InOrder

(***************************************************************************)
(* A DATA packet keeps it, through recv_data and check_file_manager.       *)
(***************************************************************************)
LEMMA DataPktStep ==
  ASSUME DInv, NEW pc \in asked, NEW q \in Seqs, RecvDataPkt(pc[1], q, pc[2])
  PROVE  DInv'
<1>1. pc[2] \in Offsets
  BY DEF DInv
<1>2. PICK k \in Target(pc[1]) :
        CheckFileManager([recvList EXCEPT ![k] = RecvData(@, q, pc[2])])
  BY DEF RecvDataPkt
<1>. DEFINE l == [recvList EXCEPT ![k] = RecvData(@, q, pc[2])]
<1>3. l \in Seq(Buffers) /\ InOrder(l)
  BY <1>1, Stored DEF DInv, BusyIsNewest, InOrder, Target
<1>. HIDE DEF l
<1>. DEFINE cs == {manager.offset[i] : i \in Done(l)}
<1>4. recvList' = l \/ recvList' = ReleaseBuffers(l, cs)
  BY <1>2 DEF CheckFileManager, l
<1>. HIDE DEF cs
<1>5. recvList' \in Seq(Buffers) /\ InOrder(recvList')
  BY <1>3, <1>4, Released
<1>6. UNCHANGED <<wanted, asked>>
  BY DEF RecvDataPkt
<1>7. QED  BY <1>5, <1>6 DEF DInv, BusyIsNewest, InOrder

-----------------------------------------------------------------------------
(***************************************************************************)
(* A list generate_WHOHAS builds names chunks of the chunk file only.      *)
(***************************************************************************)
LEMMA SplitListed ==
  ASSUME NEW S, NEW job \in Seq(S)
  PROVE  Listed(Split(job)) \subseteq S
<1>. DEFINE M == MaxHashes
            upto(k) == IF k * M < Len(job) THEN k * M ELSE Len(job)
            K == 1..(Len(job) \div M + 1)
<1>1. M \in Nat \ {0} /\ Len(job) \in Nat
  BY DownloadAssumption
<1>2. SUFFICES ASSUME NEW k \in DOMAIN Split(job), NEW i \in DOMAIN (Split(job)[k])
               PROVE  Split(job)[k][i] \in S
  BY DEF Listed
<1>3. k \in K /\ Split(job)[k] = SubSeq(job, (k - 1) * M + 1, upto(k))
  BY <1>2 DEF Split
<1>. DEFINE a == (k - 1) * M + 1
            b == upto(k)
<1>4. k \in Nat /\ k >= 1
  BY <1>1, <1>3
<1>5. (k - 1) * M \in Nat /\ k * M \in Nat
  BY <1>1, <1>4
<1>6. a \in Nat /\ a >= 1 /\ b \in Nat /\ b <= Len(job)
  BY <1>1, <1>5
<1>. HIDE DEF a, b
<1>7. i \in 1..(b - a + 1) /\ Split(job)[k][i] = job[a + i - 1]
  BY <1>2, <1>3, <1>6 DEF a, b
<1>8. a + i - 1 \in 1..Len(job)
  BY <1>1, <1>6, <1>7
<1>9. QED  BY <1>7, <1>8

(***************************************************************************)
(* Every step of the requesting side keeps the invariant.                  *)
(***************************************************************************)
LEMMA DownloadStep == DInv /\ [Next]_vars => DInv'
<1>. SUFFICES ASSUME DInv, [Next]_vars PROVE DInv'
  OBVIOUS
<1>1. ASSUME NEW job \in Jobs, UserGet(job) PROVE DInv'
  <2>1. job \in Seq(Offsets)
    BY DownloadAssumption
  <2>2. Listed(Split(job)) \subseteq Offsets
    BY <2>1, SplitListed
  <2>3. QED  BY <1>1, <2>2 DEF UserGet, DInv, BusyIsNewest
<1>2. CASE UserGetMissing
  BY <1>2 DEF UserGetMissing, DInv, BusyIsNewest
<1>3. ASSUME NEW k \in Malformed, UserGetMalformed(k) PROVE DInv'
  BY <1>3 DEF UserGetMalformed, DInv, BusyIsNewest
<1>4. CASE \E p \in Peers, cs \in Lists : RecvIHave(p, cs)
  BY <1>4, IHaveStep
<1>5. CASE \E pc \in asked, q \in Seqs : RecvDataPkt(pc[1], q, pc[2])
  BY <1>5, DataPktStep
<1>6. ASSUME NEW K \in Expirable, ChunkTimeout(K) PROVE DInv'
  <2>1. recvList' \in Seq(Buffers) /\ InOrder(recvList')
    <3>1. recvList \in Seq(Buffers) /\ InOrder(recvList)
      BY DEF DInv, BusyIsNewest, InOrder
    <3>2. \E cs : recvList' = ReleaseBuffers(recvList, cs)
      BY <1>6 DEF ChunkTimeout
    <3>3. QED  BY <3>1, <3>2, Released
  <2>2. UNCHANGED <<wanted, asked>>
    BY <1>6 DEF ChunkTimeout
  <2>3. QED  BY <2>1, <2>2 DEF DInv, BusyIsNewest, InOrder
<1>7. CASE UNCHANGED vars
  BY <1>7 DEF vars, DInv, BusyIsNewest
<1>8. QED  BY <1>1, <1>2, <1>3, <1>4, <1>5, <1>6, <1>7 DEF Next

(***************************************************************************)
(* A busy buffer is the newest of its peer and of its chunk, always.       *)
(***************************************************************************)
THEOREM DownloadInvariance == Spec => []DInv
<1>1. Init => DInv
  BY DEF Init, DInv, BusyIsNewest
<1>2. QED  BY <1>1, DownloadStep, PTL DEF Spec

(***************************************************************************)
(* The transfer that is going on is the one recv_data and copy_chunk_data  *)
(* find.                                                                   *)
(***************************************************************************)
THEOREM BusyFound == Spec => []BusyIsNewest
<1>1. DInv => BusyIsNewest
  BY DEF DInv
<1>2. QED  BY <1>1, DownloadInvariance, PTL

(***************************************************************************)
(* Two busy buffers never share a peer or a chunk.                         *)
(***************************************************************************)
THEOREM OneTransferEach == Spec => []BusyUnique
<1>1. DInv => BusyUnique
  <2>. SUFFICES ASSUME DInv, NEW k \in DOMAIN recvList, NEW l \in DOMAIN recvList,
                       recvList[k].busy, recvList[l].busy, k # l
                PROVE  /\ recvList[k].socket # recvList[l].socket
                       /\ recvList[k].offset # recvList[l].offset
    BY DEF BusyUnique
  <2>1. k \in Nat /\ l \in Nat /\ k >= 1 /\ l >= 1
    BY DEF DInv
  <2>2. k \in 1..(l - 1) \/ l \in 1..(k - 1)
    BY <2>1
  <2>3. QED  BY <2>2 DEF DInv, BusyIsNewest
<1>2. QED  BY <1>1, DownloadInvariance, PTL
-----------------------------------------------------------------------------
(***************************************************************************)
(* The position of entry j of a chunk file among the WHOHAS lists: M is    *)
(* the number of hashes in a full one.                                     *)
(***************************************************************************)
LEMMA Quotient ==
  ASSUME NEW n \in Nat, NEW M \in Nat \ {0}
  PROVE  /\ n \div M \in Nat
         /\ (n \div M) * M <= n
         /\ n < (n \div M + 1) * M
  OBVIOUS

LEMMA QuotientMonotone ==
  ASSUME NEW n \in Nat, NEW m \in Nat, n <= m, NEW M \in Nat \ {0}
  PROVE  n \div M <= m \div M
<1>. DEFINE a == n \div M
            b == m \div M
<1>1. a \in Nat /\ b \in Nat /\ a * M <= n /\ m < (b + 1) * M
  BY Quotient
<1>. HIDE DEF a, b
<1>2. a * M < (b + 1) * M
  BY <1>1
<1>3. ASSUME a >= b + 1 PROVE FALSE
  <2>1. PICK d \in Nat : a = (b + 1) + d
    <3>1. a - (b + 1) \in Nat
      BY <1>1, <1>3
    <3>2. a = (b + 1) + (a - (b + 1))
      BY <1>1
    <3>3. QED  BY <3>1, <3>2
  <2>2. a * M = (b + 1) * M + d * M /\ d * M \in Nat
    BY <1>1, <2>1
  <2>3. QED  BY <1>1, <1>2, <2>2
<1>4. QED  BY <1>1, <1>3 DEF a, b

(***************************************************************************)
(* generate_WHOHAS leaves no entry of the chunk file out, whatever its     *)
(* length: each one is in the list its index divided by MaxHashes says.    *)
(***************************************************************************)
LEMMA SplitCovers ==
  ASSUME NEW job \in Seq(Offsets), NEW j \in 1..Len(job)
  PROVE  job[j] \in Listed(Split(job))
<1>. DEFINE M == MaxHashes
            h == (j - 1) \div M
            k == h + 1
            b == IF k * M < Len(job) THEN k * M ELSE Len(job)
            i == j - h * M
<1>1. M \in Nat \ {0} /\ Len(job) \in Nat /\ j \in Nat /\ j - 1 \in Nat
  BY DownloadAssumption
<1>2. h \in Nat /\ h * M <= j - 1 /\ j - 1 < k * M
  BY <1>1, Quotient
<1>3. h <= Len(job) \div M /\ Len(job) \div M \in Nat
  BY <1>1, Quotient, QuotientMonotone
<1>4. k \in DOMAIN Split(job) /\ Split(job)[k] = SubSeq(job, (k - 1) * M + 1, b)
  <2>1. k \in 1..(Len(job) \div M + 1)
    BY <1>2, <1>3
  <2>2. QED  BY <2>1 DEF Split
<1>5. h * M \in Nat /\ k * M \in Nat
  BY <1>1, <1>2
<1>6. (k - 1) * M = h * M
  BY <1>2
<1>. DEFINE a == h * M
            u == k * M
<1>7. a \in Nat /\ u \in Nat /\ a <= j - 1 /\ j - 1 < u
  BY <1>2, <1>5
<1>8. b = IF u < Len(job) THEN u ELSE Len(job)
  OBVIOUS
<1>9. Split(job)[k] = SubSeq(job, a + 1, b) /\ i = j - a
  BY <1>4, <1>6
<1>. HIDE DEF a, u, b, i, k
<1>10. b \in Nat /\ j <= b /\ b <= Len(job)
  BY <1>1, <1>7, <1>8
<1>11. i \in DOMAIN Split(job)[k] /\ Split(job)[k][i] = job[j]
  BY <1>1, <1>7, <1>9, <1>10
<1>12. k \in DOMAIN Split(job)
  BY <1>4
<1>. DEFINE of(x) == {Split(job)[x][y] : y \in DOMAIN Split(job)[x]}
<1>13. job[j] \in of(k)
  BY <1>11
<1>14. of(k) \in {of(x) : x \in DOMAIN Split(job)}
  BY <1>12
<1>15. QED  BY <1>13, <1>14, Zenon DEF Listed
-----------------------------------------------------------------------------
(***************************************************************************)
(* What is true of the file manager and of the file written.  The chunks   *)
(* of the old arrays matter beside those of offset: a malformed chunk file *)
(* brings a part of them back without asking anybody for it.               *)
(***************************************************************************)
FileInv ==
  /\ manager \in Managers
  /\ \A k \in DOMAIN manager.offset : manager.offset[k] \in wanted
  /\ \A k \in DOMAIN manager.array : manager.array[k] \in wanted
  /\ output = NoFile \/ output \in Seq([Idx -> Offsets])
  /\ jobs \in 0..MaxJobs
  /\ corrupt \in BOOLEAN

(***************************************************************************)
(* copy_chunk_data, once is_buffer_full has passed every chunk: the newest *)
(* buffer of the chunk exists and has no packet missing.                   *)
(***************************************************************************)
LEMMA NewestFound ==
  ASSUME NEW list \in Seq(Buffers), NEW c, IsBufferFull(list, c)
  PROVE  \E n \in DOMAIN list : Newest(list, c) = list[n] /\ list[n].offset = c
<1>. DEFINE S == {k \in DOMAIN list : list[k].offset = c}
            First(k) == list[k].offset = c /\ \A i \in 1..(k - 1) : list[i].offset # c
<1>1. S \in SUBSET Nat /\ S # {}
  BY DEF IsBufferFull
<1>2. PICK k \in S : \A i \in S : k <= i
  <2>. HIDE DEF S
  <2>. QED  BY <1>1, LeastElement
<1>3. k \in DOMAIN list /\ First(k)
  <2>1. k \in 1..Len(list) /\ list[k].offset = c
    BY <1>2
  <2>2. ASSUME NEW i \in 1..(k - 1), list[i].offset = c PROVE FALSE
    <3>1. i \in S /\ k <= i
      BY <1>2, <2>1, <2>2
    <3>2. QED  BY <2>1, <3>1
  <2>3. QED  BY <2>1, <2>2
<1>. DEFINE n == CHOOSE x \in DOMAIN list : First(x)
<1>4. n \in DOMAIN list /\ list[n].offset = c
  BY <1>3
<1>5. Newest(list, c) = list[n]
  BY DEF Newest
<1>. HIDE DEF n
<1>6. QED  BY <1>4, <1>5

LEMMA NewestIsComplete ==
  ASSUME NEW list \in Seq(Buffers), NEW c, IsBufferFull(list, c)
  PROVE  Newest(list, c).chunks \in [Idx -> Offsets]
<1>1. PICK n \in DOMAIN list : Newest(list, c) = list[n] /\ list[n].offset = c
  BY NewestFound
<1>2. list[n] \in Buffers /\ Full(list[n])
  BY <1>1 DEF IsBufferFull
<1>3. QED  BY <1>1, <1>2 DEF Full, Recved, Buffers

(***************************************************************************)
(* check_file_manager writes a file only when every chunk is full.         *)
(***************************************************************************)
LEMMA FileWritten ==
  ASSUME FileInv, NEW list \in Seq(Buffers), Done(list) = DOMAIN manager.offset
  PROVE  Contents(list) \in Seq([Idx -> Offsets])
<1>. DEFINE n == Len(manager.offset)
<1>1. manager.offset \in Seq(Offsets) /\ DOMAIN manager.offset = 1..n /\ n \in Nat
  BY DEF FileInv, Managers
<1>2. ASSUME NEW k \in 1..n PROVE Newest(list, manager.offset[k]).chunks \in [Idx -> Offsets]
  <2>1. k \in Done(list) /\ k \in 1..k
    BY <1>1
  <2>2. IsBufferFull(list, manager.offset[k])
    BY <2>1 DEF Done
  <2>3. QED  BY <2>2, NewestIsComplete
<1>3. Contents(list) = [k \in 1..n |-> Newest(list, manager.offset[k]).chunks]
  BY <1>1 DEF Contents
<1>4. QED  BY <1>1, <1>2, <1>3

(***************************************************************************)
(* A list of no chunks.                                                    *)
(***************************************************************************)
LEMMA NoChunks == << >> \in Seq(Offsets) /\ DOMAIN << >> = {}
  OBVIOUS

(***************************************************************************)
(* Whatever check_file_manager does, the arrays of the manager shrink.     *)
(***************************************************************************)
LEMMA CheckFileManagerStep ==
  ASSUME FileInv, NEW list \in Seq(Buffers), CheckFileManager(list),
         wanted' = wanted, jobs' = jobs, corrupt' \in BOOLEAN
  PROVE  FileInv'
<1>1. \/ UNCHANGED <<manager, output>>
      \/ /\ Done(list) = DOMAIN manager.offset
         /\ output' = Contents(list)
         /\ manager' = [manager EXCEPT !.init = FALSE, !.array = << >>]
  BY DEF CheckFileManager
<1>2. CASE UNCHANGED <<manager, output>>
  BY <1>2 DEF FileInv
<1>3. CASE /\ Done(list) = DOMAIN manager.offset
           /\ output' = Contents(list)
           /\ manager' = [manager EXCEPT !.init = FALSE, !.array = << >>]
  <2>1. output' \in Seq([Idx -> Offsets])
    BY <1>3, FileWritten
  <2>. DEFINE e == << >>
  <2>2. e \in Seq(Offsets) /\ DOMAIN e = {} /\ manager' = [manager EXCEPT !.init = FALSE, !.array = e]
    BY <1>3, NoChunks
  <2>. HIDE DEF e
  <2>3. manager' \in Managers /\ manager'.offset = manager.offset /\ manager'.array = e
    BY <2>2 DEF FileInv, Managers
  <2>4. QED  BY <2>1, <2>2, <2>3 DEF FileInv
<1>4. QED  BY <1>1, <1>2, <1>3

(***************************************************************************)
(* It holds at the start and is kept by every step.                        *)
(***************************************************************************)
LEMMA FileInit == Init => FileInv
<1>. SUFFICES ASSUME Init PROVE FileInv
  OBVIOUS
<1>. DEFINE e == << >>
<1>1. e \in Seq(Offsets) /\ DOMAIN e = {}
  BY NoChunks
<1>2. manager = [init |-> FALSE, offset |-> e, array |-> e]
  BY DEF Init
<1>. HIDE DEF e
<1>3. manager \in Managers /\ manager.offset = e /\ manager.array = e
  BY <1>1, <1>2 DEF Managers
<1>4. output = NoFile /\ jobs = 0 /\ corrupt = FALSE /\ MaxJobs \in Nat
  BY DownloadAssumption, Zenon DEF Init
<1>5. jobs \in 0..MaxJobs
  BY <1>4
<1>6. corrupt \in BOOLEAN
  BY <1>4, Zenon
<1>7. QED  BY <1>1, <1>3, <1>4, <1>5, <1>6 DEF FileInv

LEMMA FileStep == DInv /\ FileInv /\ [Next]_vars => FileInv'
<1>. SUFFICES ASSUME DInv, FileInv, [Next]_vars PROVE FileInv'
  OBVIOUS
<1>. USE DownloadAssumption
<1>1. ASSUME NEW job \in Jobs, UserGet(job) PROVE FileInv'
  <2>1. job \in Seq(Offsets) /\ manager' = [init |-> TRUE, offset |-> job, array |-> job]
    BY <1>1 DEF UserGet
  <2>2. \A k \in DOMAIN job : job[k] \in wanted'
    BY <1>1, <2>1, SplitCovers DEF UserGet
  <2>3. manager' \in Managers
    BY <2>1 DEF Managers
  <2>4. jobs' \in 0..MaxJobs /\ UNCHANGED <<output, corrupt>>
    BY <1>1 DEF UserGet, FileInv
  <2>5. QED  BY <2>1, <2>2, <2>3, <2>4 DEF FileInv
<1>2. CASE UserGetMissing
  <2>. DEFINE e == << >>
  <2>1. e \in Seq(Offsets) /\ DOMAIN e = {}
    BY NoChunks
  <2>2. /\ manager' = [manager EXCEPT !.init = TRUE, !.offset = e]
        /\ jobs' \in 0..MaxJobs /\ UNCHANGED <<wanted, output, corrupt>>
    BY <1>2 DEF UserGetMissing, FileInv
  <2>. HIDE DEF e
  <2>3. manager' \in Managers /\ manager'.offset = e /\ manager'.array = manager.array
    BY <2>1, <2>2 DEF FileInv, Managers
  <2>4. QED  BY <2>1, <2>2, <2>3 DEF FileInv
<1>3. ASSUME NEW k \in Malformed, UserGetMalformed(k) PROVE FileInv'
  <2>1. jobs' \in 0..MaxJobs /\ UNCHANGED <<wanted, output>>
    BY <1>3 DEF UserGetMalformed, FileInv
  <2>2. CASE /\ k <= Len(manager.array)
             /\ manager' = [manager EXCEPT !.init = TRUE,
                                           !.offset = SubSeq(manager.array, 1, k)]
             /\ UNCHANGED corrupt
    <3>. DEFINE s == SubSeq(manager.array, 1, k)
    <3>1. k \in Nat /\ manager.array \in Seq(Offsets)
      BY DEF FileInv, Managers
    <3>2. s \in Seq(Offsets) /\ \A i \in DOMAIN s : i \in DOMAIN manager.array /\ s[i] = manager.array[i]
      <4>1. k \in Nat /\ k <= Len(manager.array)
        BY <2>2, <3>1
      <4>2. \A i \in 1..k : i \in 1..Len(manager.array) /\ s[i] = manager.array[i]
        BY <3>1, <4>1
      <4>3. s \in Seq(Offsets) /\ DOMAIN s = 1..k
        BY <3>1, <4>1
      <4>4. DOMAIN manager.array = 1..Len(manager.array)
        BY <3>1
      <4>. HIDE DEF s
      <4>5. QED  BY <4>2, <4>3, <4>4
    <3>3. \A i \in DOMAIN s : s[i] \in wanted
      BY <3>2 DEF FileInv
    <3>4. manager' \in Managers /\ manager'.offset = s /\ manager'.array = manager.array
      BY <2>2, <3>2 DEF FileInv, Managers
    <3>. HIDE DEF s
    <3>5. QED  BY <2>1, <2>2, <3>3, <3>4 DEF FileInv
  <2>3. CASE corrupt' = TRUE /\ UNCHANGED manager
    BY <2>1, <2>3 DEF FileInv
  <2>4. QED  BY <1>3, <2>2, <2>3 DEF UserGetMalformed
<1>4. ASSUME NEW p \in Peers, NEW cs \in Lists, RecvIHave(p, cs) PROVE FileInv'
  BY <1>4 DEF RecvIHave, TouchTimer, FileInv
<1>5. ASSUME NEW pc \in asked, NEW q \in Seqs, RecvDataPkt(pc[1], q, pc[2]) PROVE FileInv'
  <2>1. PICK k \in Target(pc[1]) :
          /\ CheckFileManager([recvList EXCEPT ![k] = RecvData(@, q, pc[2])])
          /\ TouchTimer(recvList[k].offset)
    BY <1>5 DEF RecvDataPkt
  <2>. DEFINE l == [recvList EXCEPT ![k] = RecvData(@, q, pc[2])]
  <2>2. pc[2] \in Offsets /\ k \in DOMAIN recvList
    BY DEF DInv, Target
  <2>3. l \in Seq(Buffers)
    BY <2>2, Stored DEF DInv, BusyIsNewest, InOrder
  <2>4. CheckFileManager(l)
    BY <2>1
  <2>5. wanted' = wanted /\ jobs' = jobs /\ corrupt' \in BOOLEAN
    BY <1>5, <2>1 DEF RecvDataPkt, TouchTimer
  <2>. HIDE DEF l
  <2>6. QED  BY <2>3, <2>4, <2>5, CheckFileManagerStep
<1>6. ASSUME NEW K \in Expirable, ChunkTimeout(K) PROVE FileInv'
  BY <1>6 DEF ChunkTimeout, FileInv
<1>7. CASE UNCHANGED vars
  BY <1>7 DEF vars, FileInv
<1>8. QED  BY <1>1, <1>2, <1>3, <1>4, <1>5, <1>6, <1>7 DEF Next

(***************************************************************************)
(* The file manager only waits for chunks some WHOHAS listed, and the file *)
(* written is complete.                                                    *)
(***************************************************************************)
THEOREM FileInvariance == Spec => []FileInv
BY FileInit, FileStep, DownloadInvariance, PTL DEF Spec

LEMMA InvariantTyped == DInv /\ FileInv => TypeOK
<1>. SUFFICES ASSUME DInv, FileInv PROVE TypeOK
  OBVIOUS
<1>1. [Idx -> Offsets] \subseteq [Idx -> Offsets \cup {NoData}]
  OBVIOUS
<1>2. output \in Seq([Idx -> Offsets]) => output \in Seq([Idx -> Offsets \cup {NoData}])
  BY <1>1
<1>3. QED  BY <1>2 DEF DInv, FileInv, TypeOK

(***************************************************************************)
(* Every variable has the type of the code's data.                         *)
(***************************************************************************)
THEOREM DownloadTyped == Spec => []TypeOK
BY InvariantTyped, DownloadInvariance, FileInvariance, PTL

(***************************************************************************)
(* check_file_manager never writes a file with a packet missing: every     *)
(* position of every chunk copy_chunk_data takes has been received.        *)
(***************************************************************************)
THEOREM FileIsComplete == Spec => []OutputComplete
<1>1. FileInv => OutputComplete
  <2>. SUFFICES ASSUME FileInv, output # NoFile, NEW k \in DOMAIN output, NEW i \in Idx
                PROVE  output[k][i] # NoData
    BY DEF OutputComplete
  <2>1. output[k] \in [Idx -> Offsets]
    BY DEF FileInv
  <2>2. QED  BY <2>1, RecvBufferAssumption
<1>2. QED  BY <1>1, FileInvariance, PTL

(***************************************************************************)
(* generate_WHOHAS asks for every chunk check_file_manager will wait for,  *)
(* for chunk files of every length and every sequence of commands.         *)
(***************************************************************************)
THEOREM EveryChunkAskedFor == Spec => []ChunksAskedFor
<1>1. FileInv => ChunksAskedFor
  BY DEF FileInv, ChunksAskedFor
<1>2. QED  BY <1>1, FileInvariance, PTL
-----------------------------------------------------------------------------
(***************************************************************************)
(* What a list of buffers keeps of an older one; SameLength is the case    *)
(* where none has been added.                                              *)
(***************************************************************************)
Keeps(l, m) ==
  /\ Len(m) >= Len(l)
  /\ \A k \in DOMAIN l, i \in Idx :
       l[k].chunks[i] # NoData => m[k + Len(m) - Len(l)].chunks[i] = l[k].chunks[i]

SameLength(l, m) ==
  /\ Len(m) = Len(l)
  /\ \A k \in 1..Len(l), i \in Idx :
       l[k].chunks[i] # NoData => m[k].chunks[i] = l[k].chunks[i]

LEMMA SameLengthKeeps ==
  ASSUME NEW l \in Seq(Buffers), NEW m, SameLength(l, m)
  PROVE  Keeps(l, m)
<1>1. Len(l) \in Nat /\ Len(m) = Len(l) /\ DOMAIN l = 1..Len(l)
  BY DEF SameLength
<1>2. \A k \in 1..Len(l) : k + Len(m) - Len(l) = k
  BY <1>1
<1>3. QED  BY <1>1, <1>2 DEF Keeps, SameLength

(***************************************************************************)
(* recv_data keeps the first copy of every packet.                         *)
(***************************************************************************)
LEMMA StoredSame ==
  ASSUME NEW l \in Seq(Buffers), NEW k \in DOMAIN l, NEW q \in Seqs, NEW c \in Offsets
  PROVE  SameLength(l, [l EXCEPT ![k] = RecvData(@, q, c)])
<1>. DEFINE r == RecvData(l[k], q, c)
            m == [l EXCEPT ![k] = r]
<1>1. l[k] \in Buffers /\ DOMAIN l = 1..Len(l) /\ Len(l) \in Nat
  OBVIOUS
<1>2. r \in Buffers /\ \A i \in Recved(l[k]) : r.chunks[i] = l[k].chunks[i]
  BY <1>1, RecvDataFacts
<1>. HIDE DEF r
<1>3. m \in Seq(Buffers) /\ Len(m) = Len(l)
  BY <1>2
<1>4. ASSUME NEW j \in 1..Len(l), NEW i \in Idx, l[j].chunks[i] # NoData
      PROVE  m[j].chunks[i] = l[j].chunks[i]
  <2>1. CASE j = k
    <3>1. m[j] = r /\ i \in Recved(l[k])
      BY <1>1, <1>4, <2>1 DEF Recved
    <3>2. QED  BY <1>2, <2>1, <3>1
  <2>2. CASE j # k
    BY <1>1, <2>2
  <2>3. QED  BY <2>1, <2>2
<1>5. SameLength(l, m)
  BY <1>3, <1>4 DEF SameLength
<1>6. QED  BY <1>5 DEF r

(***************************************************************************)
(* release_buffer only writes busy.                                        *)
(***************************************************************************)
LEMMA ReleasedSame ==
  ASSUME NEW l \in Seq(Buffers), NEW cs
  PROVE  /\ SameLength(l, ReleaseBuffers(l, cs))
         /\ \A k \in 1..Len(l) : ReleaseBuffers(l, cs)[k].chunks = l[k].chunks
<1>. DEFINE m == ReleaseBuffers(l, cs)
<1>. DOMAIN l = 1..Len(l)
  OBVIOUS
<1>1. \A k \in 1..Len(l) : l[k] \in Buffers
  OBVIOUS
<1>2. DOMAIN m = 1..Len(l) /\ Len(l) \in Nat
  BY DEF ReleaseBuffers
<1>3. m = [k \in 1..Len(l) |-> m[k]]
  BY DEF ReleaseBuffers
<1>4. \A k \in 1..Len(l) : m[k].chunks = l[k].chunks /\ m[k] \in Buffers
  <2>1. \A k \in 1..Len(l) : m[k] = IF l[k].offset \in cs
                                     THEN [l[k] EXCEPT !.busy = FALSE] ELSE l[k]
    BY DEF ReleaseBuffers
  <2>. HIDE DEF m
  <2>2. QED  BY <1>1, <2>1 DEF Buffers
<1>. HIDE DEF m
<1>5. Len(m) = Len(l)
  BY <1>2, <1>3, <1>4
<1>6. QED  BY <1>4, <1>5 DEF SameLength, m

(***************************************************************************)
(* A packet, once stored, is never overwritten, moved to another buffer or *)
(* thrown away: through duplicates, releases, new buffers and new GETs.    *)
(***************************************************************************)
THEOREM PacketsStay == Spec => StoredIsKept
<1>1. DInv /\ [Next]_vars => Keeps(recvList, recvList')
  <2>. SUFFICES ASSUME DInv, [Next]_vars PROVE Keeps(recvList, recvList')
    OBVIOUS
  <2>1. recvList \in Seq(Buffers)
    BY DEF DInv
  <2>2. ASSUME UNCHANGED recvList PROVE Keeps(recvList, recvList')
    <3>1. SameLength(recvList, recvList)
      BY <2>1 DEF SameLength
    <3>2. QED  BY <2>1, <2>2, <3>1, SameLengthKeeps
  <2>3. ASSUME NEW p \in Peers, NEW cs \in Lists, RecvIHave(p, cs)
        PROVE  Keeps(recvList, recvList')
    <3>1. PICK b : recvList' = <<b>> \o recvList
      BY <2>3 DEF RecvIHave
    <3>2. Len(recvList') = Len(recvList) + 1 /\ Len(recvList) \in Nat
      BY <2>1, <3>1
    <3>3. ASSUME NEW k \in DOMAIN recvList
          PROVE  recvList'[k + Len(recvList') - Len(recvList)] = recvList[k]
      <4>1. k \in 1..Len(recvList) /\ k + Len(recvList') - Len(recvList) = k + 1
        BY <2>1, <3>2
      <4>2. recvList'[k + 1] = recvList[k]
        BY <2>1, <3>1, <4>1
      <4>3. QED  BY <4>1, <4>2
    <3>4. QED  BY <3>2, <3>3 DEF Keeps
  <2>4. ASSUME NEW pc \in asked, NEW q \in Seqs, RecvDataPkt(pc[1], q, pc[2])
        PROVE  Keeps(recvList, recvList')
    <3>1. PICK k \in Target(pc[1]) :
            CheckFileManager([recvList EXCEPT ![k] = RecvData(@, q, pc[2])])
      BY <2>4 DEF RecvDataPkt
    <3>. DEFINE l == [recvList EXCEPT ![k] = RecvData(@, q, pc[2])]
    <3>2. pc[2] \in Offsets /\ k \in DOMAIN recvList
      BY DEF DInv, Target
    <3>3. l \in Seq(Buffers) /\ SameLength(recvList, l)
      BY <3>2, Stored, StoredSame DEF DInv, BusyIsNewest, InOrder
    <3>. DEFINE m == ReleaseBuffers(l, {manager.offset[i] : i \in Done(l)})
    <3>4. recvList' = l \/ recvList' = m
      BY <3>1 DEF CheckFileManager
    <3>. HIDE DEF l
    <3>5. SameLength(l, m) /\ \A i \in 1..Len(l) : m[i].chunks = l[i].chunks
      BY <3>3, ReleasedSame
    <3>. HIDE DEF m
    <3>6. SameLength(recvList, recvList')
      BY <3>3, <3>4, <3>5 DEF SameLength
    <3>7. QED  BY <2>1, <3>6, SameLengthKeeps
  <2>5. ASSUME NEW K \in Expirable, ChunkTimeout(K)
        PROVE  Keeps(recvList, recvList')
    <3>1. recvList' = ReleaseBuffers(recvList, {manager.offset[k] : k \in K})
      BY <2>5 DEF ChunkTimeout
    <3>2. SameLength(recvList, recvList')
      BY <2>1, <3>1, ReleasedSame
    <3>3. QED  BY <2>1, <3>2, SameLengthKeeps
  <2>6. ASSUME NEW job \in Jobs, UserGet(job) PROVE Keeps(recvList, recvList')
    BY <2>2, <2>6 DEF UserGet
  <2>7. CASE UserGetMissing
    BY <2>2, <2>7 DEF UserGetMissing
  <2>8. ASSUME NEW k \in Malformed, UserGetMalformed(k) PROVE Keeps(recvList, recvList')
    BY <2>2, <2>8 DEF UserGetMalformed
  <2>9. CASE UNCHANGED vars
    BY <2>2, <2>9 DEF vars
  <2>10. QED  BY <2>3, <2>4, <2>5, <2>6, <2>7, <2>8, <2>9 DEF Next
<1>2. Keeps(recvList, recvList') =>
        [/\ Len(recvList') >= Len(recvList)
         /\ \A k \in DOMAIN recvList, i \in Idx :
              recvList[k].chunks[i] # NoData =>
                recvList'[k + Len(recvList') - Len(recvList)].chunks[i]
                  = recvList[k].chunks[i]]_vars
  BY DEF Keeps
<1>3. QED  BY <1>1, <1>2, DownloadInvariance, PTL DEF Spec, StoredIsKept-----------------------------------------------------------------------------
(***************************************************************************)
(* Where the bytes come from: a buffer was asked of its peer, and so was   *)
(* the chunk of every packet in it; a is the GETs sent.                    *)
(***************************************************************************)
Origin(b, a) ==
  /\ <<b.socket, b.offset>> \in a
  /\ \A i \in Idx : b.chunks[i] # NoData => <<b.socket, b.chunks[i]>> \in a

Origins(list, a) == \A k \in DOMAIN list : Origin(list[k], a)

OriginInv == Origins(recvList, asked)

(***************************************************************************)
(* recv_data adds the packet that came, to a buffer of the peer it is from. *)
(***************************************************************************)
LEMMA StoredContent ==
  ASSUME NEW b \in Buffers, NEW q \in Seqs, NEW c \in Offsets, NEW i \in Idx
  PROVE  RecvData(b, q, c).chunks[i] = b.chunks[i] \/ RecvData(b, q, c).chunks[i] = c
<1>. DEFINE s == Store(b, q - 1, c)
<1>1. RecvData(b, q, c).chunks = s.chunks
  <2>1. s = b \/ s = [b EXCEPT !.chunks[q - 1] = c]
    BY DEF Store
  <2>2. RecvData(b, q, c) = [s EXCEPT !.expected = FirstGap(s)]
    BY DEF RecvData
  <2>. DEFINE g == FirstGap(s)
  <2>. HIDE DEF g
  <2>3. QED  BY <2>1, <2>2 DEF Buffers, g
<1>2. s.chunks[i] = b.chunks[i] \/ s.chunks[i] = c
  BY DEF Store, Buffers
<1>3. QED  BY <1>1, <1>2

LEMMA StoredOrigins ==
  ASSUME NEW l \in Seq(Buffers), NEW a, Origins(l, a), NEW k \in DOMAIN l,
         NEW q \in Seqs, NEW c \in Offsets, <<l[k].socket, c>> \in a
  PROVE  Origins([l EXCEPT ![k] = RecvData(@, q, c)], a)
<1>. DEFINE r == RecvData(l[k], q, c)
            m == [l EXCEPT ![k] = r]
<1>1. l[k] \in Buffers
  OBVIOUS
<1>2. r.socket = l[k].socket /\ r.offset = l[k].offset
  BY <1>1, RecvDataFacts
<1>3. \A i \in Idx : r.chunks[i] = l[k].chunks[i] \/ r.chunks[i] = c
  BY <1>1, StoredContent
<1>. HIDE DEF r
<1>4. Origin(r, a)
  BY <1>2, <1>3 DEF Origins, Origin
<1>5. DOMAIN m = DOMAIN l /\ \A j \in DOMAIN l : m[j] = IF j = k THEN r ELSE l[j]
  OBVIOUS
<1>. HIDE DEF m
<1>6. Origins(m, a)
  BY <1>4, <1>5 DEF Origins
<1>7. QED  BY <1>6 DEF m, r

LEMMA ReleasedOrigins ==
  ASSUME NEW l \in Seq(Buffers), NEW a, Origins(l, a), NEW cs
  PROVE  Origins(ReleaseBuffers(l, cs), a)
<1>. DEFINE m == ReleaseBuffers(l, cs)
<1>1. \A k \in DOMAIN l : l[k] \in Buffers
  OBVIOUS
<1>2. DOMAIN m = DOMAIN l /\ \A k \in DOMAIN l : m[k] = IF l[k].offset \in cs
                                   THEN [l[k] EXCEPT !.busy = FALSE] ELSE l[k]
  BY DEF ReleaseBuffers
<1>. HIDE DEF m
<1>3. \A k \in DOMAIN l : /\ m[k].socket = l[k].socket /\ m[k].offset = l[k].offset
                          /\ m[k].chunks = l[k].chunks
  BY <1>1, <1>2 DEF Buffers
<1>4. Origins(m, a)
  BY <1>2, <1>3 DEF Origins, Origin
<1>5. QED  BY <1>4 DEF m

LEMMA AllocatedOrigins ==
  ASSUME NEW l \in Seq(Buffers), NEW a, Origins(l, a), NEW p \in Peers, NEW c \in Offsets
  PROVE  Origins(<<NewBuffer(c, p)>> \o l, a \cup {<<p, c>>})
<1>. DEFINE b == NewBuffer(c, p)
            m == <<b>> \o l
            d == a \cup {<<p, c>>}
<1>1. b \in Buffers /\ b.socket = p /\ b.offset = c /\ \A i \in Idx : b.chunks[i] = NoData
  BY ProtocolAssumption DEF NewBuffer, Buffers
<1>2. Origin(b, d)
  BY <1>1 DEF Origin
<1>. HIDE DEF b
<1>3. \A k \in DOMAIN m : m[k] = b \/ \E j \in DOMAIN l : m[k] = l[j]
  <2>. SUFFICES ASSUME NEW k \in DOMAIN m, k # 1 PROVE k - 1 \in DOMAIN l /\ m[k] = l[k - 1]
    BY <1>1
  <2>1. QED  BY <1>1
<1>. HIDE DEF m
<1>4. \A j \in DOMAIN l : Origin(l[j], d)
  BY DEF Origins, Origin
<1>5. Origins(m, d)
  BY <1>2, <1>3, <1>4 DEF Origins
<1>6. QED  BY <1>5 DEF m, b

(***************************************************************************)
(* A DATA packet is stored in a buffer of its sender.                      *)
(***************************************************************************)
LEMMA DataPktOrigins ==
  ASSUME DInv, OriginInv, NEW pc \in asked, NEW q \in Seqs, RecvDataPkt(pc[1], q, pc[2])
  PROVE  \E l \in Seq(Buffers) : Origins(l, asked) /\ CheckFileManager(l)
<1>1. PICK k \in Target(pc[1]) :
        CheckFileManager([recvList EXCEPT ![k] = RecvData(@, q, pc[2])])
  BY DEF RecvDataPkt
<1>. DEFINE l == [recvList EXCEPT ![k] = RecvData(@, q, pc[2])]
<1>2. pc[1] \in Peers /\ pc[2] \in Offsets /\ pc = <<pc[1], pc[2]>>
  BY DEF DInv
<1>3. k \in DOMAIN recvList /\ recvList[k].socket = pc[1] /\ recvList \in Seq(Buffers)
  BY DEF DInv, Target
<1>4. l \in Seq(Buffers)
  BY <1>2, <1>3, Stored DEF DInv, BusyIsNewest, InOrder
<1>5. Origins(l, asked)
  BY <1>2, <1>3, StoredOrigins DEF OriginInv
<1>6. QED  BY <1>1, <1>4, <1>5

LEMMA OriginStep == DInv /\ OriginInv /\ [Next]_vars => OriginInv'
<1>. SUFFICES ASSUME DInv, OriginInv, [Next]_vars PROVE OriginInv'
  OBVIOUS
<1>1. recvList \in Seq(Buffers)
  BY DEF DInv
<1>2. ASSUME UNCHANGED <<recvList, asked>> PROVE OriginInv'
  BY <1>2 DEF OriginInv, Origins, Origin
<1>3. ASSUME NEW p \in Peers, NEW cs \in Lists, RecvIHave(p, cs) PROVE OriginInv'
  <2>1. PICK k \in Accepted(p, cs) :
          /\ recvList' = <<NewBuffer(cs[k], p)>> \o recvList
          /\ asked' = asked \cup {<<p, cs[k]>>}
    BY <1>3 DEF RecvIHave
  <2>2. cs[k] \in Offsets
    <3>1. PICK n \in {1, 2} : cs \in [1..n -> wanted]
      BY DEF Lists
    <3>2. QED  BY <3>1 DEF Accepted, DInv
  <2>3. Origins(recvList', asked')
    BY <1>1, <2>1, <2>2, AllocatedOrigins DEF OriginInv
  <2>4. QED  BY <2>3 DEF OriginInv, Origins, Origin
<1>4. ASSUME NEW pc \in asked, NEW q \in Seqs, RecvDataPkt(pc[1], q, pc[2]) PROVE OriginInv'
  <2>1. PICK l \in Seq(Buffers) : Origins(l, asked) /\ CheckFileManager(l)
    BY <1>4, DataPktOrigins
  <2>2. recvList' = l \/ \E cs : recvList' = ReleaseBuffers(l, cs)
    BY <2>1 DEF CheckFileManager
  <2>3. Origins(recvList', asked) /\ asked' = asked
    BY <1>4, <2>1, <2>2, ReleasedOrigins DEF RecvDataPkt
  <2>4. QED  BY <2>3 DEF OriginInv, Origins, Origin
<1>5. ASSUME NEW K \in Expirable, ChunkTimeout(K) PROVE OriginInv'
  <2>1. Origins(recvList', asked) /\ asked' = asked
    BY <1>1, <1>5, ReleasedOrigins DEF ChunkTimeout, OriginInv
  <2>2. QED  BY <2>1 DEF OriginInv, Origins, Origin
<1>6. ASSUME NEW job \in Jobs, UserGet(job) PROVE OriginInv'
  BY <1>2, <1>6 DEF UserGet
<1>7. CASE UserGetMissing
  BY <1>2, <1>7 DEF UserGetMissing
<1>8. ASSUME NEW k \in Malformed, UserGetMalformed(k) PROVE OriginInv'
  BY <1>2, <1>8 DEF UserGetMalformed
<1>9. CASE UNCHANGED vars
  BY <1>2, <1>9 DEF vars
<1>10. QED  BY <1>3, <1>4, <1>5, <1>6, <1>7, <1>8, <1>9 DEF Next

LEMMA OriginInit == Init => OriginInv
BY DEF Init, OriginInv, Origins

(***************************************************************************)
(* recv_data never looks at the chunk of a packet, so more cannot be said: *)
(* all there is in a buffer was asked of the peer the buffer is for.       *)
(***************************************************************************)
THEOREM BytesAskedFor == Spec => []OriginInv
BY OriginInit, OriginStep, DownloadInvariance, PTL DEF Spec
(***************************************************************************)
(* A byte of the file comes from a peer that was asked for the chunk that  *)
(* belongs there.                                                          *)
(***************************************************************************)
FromAsked(file, chunks, a) ==
  /\ DOMAIN file = DOMAIN chunks
  /\ \A k \in DOMAIN file, i \in Idx :
       \E p : <<p, chunks[k]>> \in a /\ <<p, file[k][i]>> \in a

LEMMA NewestOrigin ==
  ASSUME NEW list \in Seq(Buffers), NEW a, Origins(list, a), NEW c, IsBufferFull(list, c),
         NEW i \in Idx
  PROVE  \E p : <<p, c>> \in a /\ <<p, Newest(list, c).chunks[i]>> \in a
<1>1. PICK n \in DOMAIN list : Newest(list, c) = list[n] /\ list[n].offset = c
  BY NewestFound
<1>2. list[n].chunks[i] # NoData /\ Origin(list[n], a)
  BY <1>1 DEF IsBufferFull, Full, Recved, Origins
<1>3. QED  BY <1>1, <1>2 DEF Origin

(***************************************************************************)
(* check_file_manager writes such a file, for the chunks the manager holds *)
(* before and after.                                                       *)
(***************************************************************************)
LEMMA WrittenFromAsked ==
  DInv /\ FileInv /\ OriginInv /\ [Next]_vars /\ output' # output =>
     FromAsked(output', manager'.offset, asked)
<1>. SUFFICES ASSUME DInv, FileInv, OriginInv, [Next]_vars, output' # output
              PROVE  FromAsked(output', manager'.offset, asked)
  OBVIOUS
<1>1. PICK pc \in asked, q \in Seqs : RecvDataPkt(pc[1], q, pc[2])
  BY DEF Next, vars, UserGet, UserGetMissing, UserGetMalformed, RecvIHave, ChunkTimeout
<1>2. PICK l \in Seq(Buffers) : Origins(l, asked) /\ CheckFileManager(l)
  BY <1>1, DataPktOrigins
<1>3. /\ output' = Contents(l) /\ Done(l) = DOMAIN manager.offset
      /\ manager' = [manager EXCEPT !.init = FALSE, !.array = << >>]
  BY <1>2 DEF CheckFileManager
<1>4. manager'.offset = manager.offset /\ manager.offset \in Seq(Offsets)
  <2>. DEFINE e == << >>
  <2>1. manager' = [manager EXCEPT !.init = FALSE, !.array = e]
    BY <1>3
  <2>. HIDE DEF e
  <2>2. QED  BY <2>1 DEF FileInv, Managers
<1>5. DOMAIN output' = DOMAIN manager.offset
  BY <1>3 DEF Contents
<1>6. ASSUME NEW k \in DOMAIN manager.offset, NEW i \in Idx
      PROVE  \E p : <<p, manager.offset[k]>> \in asked /\ <<p, output'[k][i]>> \in asked
  <2>1. k \in Done(l) /\ k \in 1..k
    BY <1>3, <1>4
  <2>2. IsBufferFull(l, manager.offset[k])
    BY <2>1 DEF Done
  <2>3. output'[k] = Newest(l, manager.offset[k]).chunks
    BY <1>3 DEF Contents
  <2>4. QED  BY <1>2, <2>2, <2>3, NewestOrigin
<1>7. QED  BY <1>4, <1>5, <1>6 DEF FromAsked-----------------------------------------------------------------------------
(***************************************************************************)
(* The timer array.  While one well-formed chunk file is fetched, every    *)
(* chunk anybody was asked about has a place in the arrays, so the timer   *)
(* update after an IHAVE or a DATA packet finds it.                        *)
(***************************************************************************)
Entries(list) == {list[k] : k \in DOMAIN list}

TimerInv ==
  /\ jobs = 0 => wanted = {} /\ Len(manager.array) = 0 /\ Len(manager.offset) = 0
  /\ wanted \subseteq Entries(manager.offset)
  /\ \A k \in DOMAIN recvList : recvList[k].offset \in wanted
  /\ manager.init => Len(manager.array) = Len(manager.offset)
  /\ corrupt => ~manager.init

LEMMA TimerFound ==
  ASSUME FileInv, NEW c \in Entries(manager.offset)
  PROVE  TimerIndex(c) \in 1..Len(manager.offset)
<1>. DEFINE l == manager.offset
            S == {k \in DOMAIN l : l[k] = c}
            First(j) == l[j] = c /\ \A i \in 1..(j - 1) : l[i] # c
<1>1. l \in Seq(Offsets)
  BY DEF FileInv, Managers
<1>2. S \in SUBSET Nat /\ S # {}
  BY <1>1 DEF Entries
<1>3. PICK k \in S : \A i \in S : k <= i
  <2>. HIDE DEF S
  <2>. QED  BY <1>2, LeastElement
<1>4. k \in DOMAIN l /\ l[k] = c
  OBVIOUS
<1>5. ASSUME NEW i \in 1..(k - 1) PROVE l[i] # c
  <2>1. i \in DOMAIN l /\ i \in Nat /\ k \in Nat /\ i < k
    BY <1>1, <1>4
  <2>2. i \in S => k <= i
    BY <1>3
  <2>3. QED  BY <2>1, <2>2
<1>6. \E j \in DOMAIN l : First(j)
  BY <1>4, <1>5
<1>7. TimerIndex(c) = CHOOSE j \in DOMAIN l : First(j)
  BY <1>4 DEF TimerIndex
<1>8. TimerIndex(c) \in DOMAIN l
  BY <1>6, <1>7
<1>9. DOMAIN l = 1..Len(l)
  BY <1>1
<1>10. QED  BY <1>8, <1>9

(***************************************************************************)
(* So the update stays inside the arrays of a download that is going on.   *)
(***************************************************************************)
LEMMA TimerTouched ==
  ASSUME FileInv, TimerInv, NEW c \in wanted, TouchTimer(c), manager.init
  PROVE  ~corrupt'
<1>1. TimerIndex(c) \in 1..Len(manager.offset)
  BY TimerFound DEF TimerInv
<1>2. Len(manager.array) = Len(manager.offset) /\ Len(manager.offset) \in Nat
  BY DEF TimerInv, FileInv, Managers
<1>3. corrupt' = (TimerIndex(c) > Len(manager.array))
  BY DEF TouchTimer
<1>4. ~(TimerIndex(c) > Len(manager.array))
  BY <1>1, <1>2
<1>5. QED  BY <1>3, <1>4

LEMMA ReleasedOffsets ==
  ASSUME NEW l \in Seq(Buffers), NEW cs
  PROVE  /\ DOMAIN ReleaseBuffers(l, cs) = DOMAIN l
         /\ \A k \in DOMAIN l : ReleaseBuffers(l, cs)[k].offset = l[k].offset
<1>1. \A k \in DOMAIN l : l[k] \in Buffers
  OBVIOUS
<1>2. QED  BY <1>1 DEF ReleaseBuffers, Buffers

LEMMA CheckFileManagerOffsets ==
  ASSUME FileInv, NEW list \in Seq(Buffers), CheckFileManager(list)
  PROVE  /\ manager'.offset = manager.offset
         /\ manager'.init => manager' = manager
         /\ DOMAIN recvList' = DOMAIN list
         /\ \A k \in DOMAIN list : recvList'[k].offset = list[k].offset
<1>. DEFINE e == << >>
<1>1. manager' = manager \/ manager' = [manager EXCEPT !.init = FALSE, !.array = e]
  BY DEF CheckFileManager
<1>. HIDE DEF e
<1>2. manager'.offset = manager.offset /\ (manager'.init => manager' = manager)
  BY <1>1 DEF FileInv, Managers
<1>3. recvList' = list \/ \E cs : recvList' = ReleaseBuffers(list, cs)
  BY DEF CheckFileManager
<1>4. QED  BY <1>2, <1>3, ReleasedOffsets
LEMMA TimerStep ==
  ASSUME Malformed = {}, MaxJobs = 1
  PROVE  DInv /\ FileInv /\ TimerInv /\ [Next]_vars => TimerInv'
<1>. SUFFICES ASSUME DInv, FileInv, TimerInv, [Next]_vars PROVE TimerInv'
  OBVIOUS
<1>1. recvList \in Seq(Buffers) /\ jobs \in Nat
  BY DownloadAssumption DEF DInv, FileInv
<1>2. ASSUME NEW job \in Jobs, UserGet(job) PROVE TimerInv'
  <2>1. job \in Seq(Offsets) /\ DOMAIN job = 1..Len(job)
    BY DownloadAssumption
  <2>2. job \in Seq(Entries(job))
    BY <2>1 DEF Entries
  <2>3. Listed(Split(job)) \subseteq Entries(job)
    BY <2>2, SplitListed
  <2>4. /\ jobs = 0 /\ ~corrupt /\ corrupt' = corrupt /\ recvList' = recvList /\ jobs' = jobs + 1
        /\ manager' = [init |-> TRUE, offset |-> job, array |-> job]
        /\ wanted' = wanted \cup Listed(Split(job))
    BY <1>1, <1>2 DEF UserGet
  <2>5. wanted = {}
    BY <2>4 DEF TimerInv
  <2>6. manager'.offset = job /\ manager'.array = job
    BY <2>4
  <2>7. \A k \in DOMAIN recvList' : recvList'[k].offset \in wanted'
    BY <2>4 DEF TimerInv
  <2>8. wanted' \subseteq Entries(manager'.offset)
    BY <2>3, <2>4, <2>5, <2>6
  <2>9. QED  BY <1>1, <2>4, <2>6, <2>7, <2>8 DEF TimerInv, Entries
<1>3. CASE UserGetMissing
  <2>. DEFINE e == << >>
  <2>1. e \in Seq(Offsets) /\ Len(e) = 0
    OBVIOUS
  <2>2. /\ jobs = 0 /\ ~corrupt /\ jobs' = jobs + 1
        /\ manager' = [manager EXCEPT !.init = TRUE, !.offset = e]
        /\ UNCHANGED <<recvList, wanted, corrupt>>
    BY <1>1, <1>3 DEF UserGetMissing
  <2>. HIDE DEF e
  <2>3. manager'.offset = e /\ manager'.array = manager.array
    BY <2>2 DEF FileInv, Managers
  <2>4. wanted = {} /\ Len(manager.array) = 0
    BY <2>2 DEF TimerInv
  <2>5. QED  BY <1>1, <2>1, <2>2, <2>3, <2>4 DEF TimerInv
<1>4. ASSUME NEW p \in Peers, NEW cs \in Lists, RecvIHave(p, cs) PROVE TimerInv'
  <2>1. PICK k \in Accepted(p, cs) :
          recvList' = <<NewBuffer(cs[k], p)>> \o recvList /\ TouchTimer(cs[k])
    BY <1>4 DEF RecvIHave
  <2>. DEFINE c == cs[k]
              b == NewBuffer(c, p)
  <2>2. c \in wanted
    <3>1. PICK n \in {1, 2} : cs \in [1..n -> wanted]
      BY DEF Lists
    <3>2. QED  BY <3>1 DEF Accepted
  <2>3. UNCHANGED <<manager, wanted, jobs>>
    BY <1>4 DEF RecvIHave
  <2>. HIDE DEF c
  <2>4. b.offset = c /\ b \in Buffers
    BY <2>2, ProtocolAssumption DEF NewBuffer, Buffers, DInv
  <2>. HIDE DEF b
  <2>5. recvList' = <<b>> \o recvList /\ TouchTimer(c)
    BY <2>1 DEF b, c
  <2>6. \A j \in DOMAIN recvList' : recvList'[j].offset \in wanted
    <3>. SUFFICES ASSUME NEW j \in DOMAIN recvList' PROVE recvList'[j].offset \in wanted
      OBVIOUS
    <3>1. recvList'[1] = b
      BY <1>1, <2>4, <2>5
    <3>2. j # 1 => j - 1 \in DOMAIN recvList /\ recvList'[j] = recvList[j - 1]
      BY <1>1, <2>4, <2>5
    <3>3. QED  BY <2>2, <2>4, <3>1, <3>2 DEF TimerInv
  <2>7. manager.init => ~corrupt'
    BY <2>2, <2>5, TimerTouched
  <2>8. QED  BY <2>3, <2>6, <2>7 DEF TimerInv, Entries
<1>5. ASSUME NEW pc \in asked, NEW q \in Seqs, RecvDataPkt(pc[1], q, pc[2]) PROVE TimerInv'
  <2>1. PICK k \in Target(pc[1]) :
          /\ CheckFileManager([recvList EXCEPT ![k] = RecvData(@, q, pc[2])])
          /\ TouchTimer(recvList[k].offset)
    BY <1>5 DEF RecvDataPkt
  <2>. DEFINE r == RecvData(recvList[k], q, pc[2])
              l == [recvList EXCEPT ![k] = r]
  <2>2. pc[2] \in Offsets /\ k \in DOMAIN recvList
    BY DEF DInv, Target
  <2>3. l \in Seq(Buffers) /\ CheckFileManager(l)
    BY <2>1, <2>2, Stored DEF DInv, BusyIsNewest, InOrder
  <2>4. r.offset = recvList[k].offset
    BY <1>1, <2>2, RecvDataFacts
  <2>. HIDE DEF r
  <2>5. DOMAIN l = DOMAIN recvList /\ \A j \in DOMAIN l : l[j].offset = recvList[j].offset
    BY <2>4
  <2>. HIDE DEF l
  <2>6. /\ manager'.offset = manager.offset /\ (manager'.init => manager' = manager)
        /\ DOMAIN recvList' = DOMAIN l /\ \A j \in DOMAIN l : recvList'[j].offset = l[j].offset
    BY <2>3, CheckFileManagerOffsets
  <2>7. wanted' = wanted /\ jobs' = jobs
    BY <1>5 DEF RecvDataPkt
  <2>8. manager.init => ~corrupt'
    BY <2>1, <2>2, TimerTouched DEF TimerInv
  <2>9. jobs = 0 => recvList = << >>
    <3>1. jobs = 0 => DOMAIN recvList = {}
      BY DEF TimerInv
    <3>2. QED  BY <1>1, <3>1
  <2>10. jobs # 0
    BY <1>1, <2>2, <2>9
  <2>11. QED  BY <2>5, <2>6, <2>7, <2>8, <2>10 DEF TimerInv, Entries
<1>6. ASSUME NEW K \in Expirable, ChunkTimeout(K) PROVE TimerInv'
  <2>1. UNCHANGED <<manager, wanted, jobs, corrupt>>
    BY <1>6 DEF ChunkTimeout
  <2>2. recvList' = ReleaseBuffers(recvList, {manager.offset[k] : k \in K})
    BY <1>6 DEF ChunkTimeout
  <2>3. \A j \in DOMAIN recvList' : recvList'[j].offset \in wanted
    BY <1>1, <2>2, ReleasedOffsets DEF TimerInv
  <2>4. QED  BY <2>1, <2>3 DEF TimerInv, Entries
<1>7. CASE UNCHANGED vars
  BY <1>7 DEF vars, TimerInv, Entries
<1>8. QED  BY <1>2, <1>3, <1>4, <1>5, <1>6, <1>7 DEF Next

LEMMA TimerInit == Init => TimerInv
<1>. SUFFICES ASSUME Init PROVE TimerInv
  OBVIOUS
<1>1. DOMAIN recvList = {} /\ manager.array = << >> /\ manager.offset = << >> /\ ~manager.init
  BY DEF Init
<1>2. wanted = {}
  BY DEF Init
<1>3. QED  BY <1>1, <1>2 DEF TimerInv

(***************************************************************************)
(* A single GET command for a readable, well-formed chunk file: the timer  *)
(* updates of handle_packet write inside the array until it is freed.      *)
(***************************************************************************)
THEOREM TimersInside ==
  ASSUME Malformed = {}, MaxJobs = 1
  PROVE  Spec => []TimerInv
<1>1. DInv /\ FileInv /\ TimerInv /\ [Next]_vars => TimerInv'
  BY TimerStep
<1>2. QED  BY <1>1, TimerInit, DownloadInvariance, FileInvariance, PTL DEF Spec
=============================================================================
