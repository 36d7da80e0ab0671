---------------------------- MODULE SwarmProofs ----------------------------
(***************************************************************************)
(* The composed system for any number of providers, chunks, GET commands,  *)
(* crashes and losses: what the providers and the network give the         *)
(* downloading peer is what Download allows, both ends of a transfer agree *)
(* on its chunk, and where no provider holds two chunks the file is right. *)
(***************************************************************************)
EXTENDS Swarm, SendWindowProofs, DownloadProofs, TLAPS

(***************************************************************************)
(* The packets there can be when the chunks in w have been asked about.    *)
(***************************************************************************)
Messages(w) ==
  [type : {"WHOHAS", "IHAVE"}, peer : Providers, list : Seq(w)]
    \cup [type : {"GET"}, peer : Providers, offset : Offsets]
    \cup [type : {"DATA"}, peer : Providers, seq : Seqs, offset : Offsets]
    \cup [type : {"ACK"}, peer : Providers, ack : Seqs]

(***************************************************************************)
(* What a packet in flight says is true: an IHAVE names chunks its sender  *)
(* finds in its has-chunk file, a GET was sent, and DATA answers a GET; a  *)
(* is the GETs sent so far.                                                *)
(***************************************************************************)
Honest(m, a) ==
  /\ m.type = "IHAVE" => \A i \in DOMAIN m.list : FindInLocalHas(m.peer, m.list[i])
  /\ m.type \in {"GET", "DATA"} => <<m.peer, m.offset>> \in a

NetInv ==
  /\ net \subseteq Messages(wanted)
  /\ \A m \in net : Honest(m, asked)

(***************************************************************************)
(* A provider uploads, and keeps timers for, chunks it was asked for; one  *)
(* that is down has neither.                                               *)
(***************************************************************************)
UploadOK(p, d, a) == d # NoUpload => d \in Data /\ Shape(d) /\ <<p, d.offset>> \in a

TimersOK(p, t, a) == t \subseteq Trackers /\ \A e \in t : <<p, e.offset>> \in a

ProviderInv ==
  /\ data \in [Providers -> Data \cup {NoUpload}]
  /\ tracker \in [Providers -> SUBSET Trackers]
  /\ \A p \in Providers : UploadOK(p, data[p], asked) /\ TimersOK(p, tracker[p], asked)
  /\ alive \subseteq Providers
  /\ crashed \subseteq Mortal
  /\ \A p \in Providers \ alive : p \in crashed /\ data[p] = NoUpload /\ tracker[p] = {}
  /\ losses \in 0..MaxLoss

(***************************************************************************)
(* A provider is only asked for a chunk it finds.                          *)
(***************************************************************************)
Askable(w) ==
  {pc \in Providers \X w : FindInLocalHas(pc[1], pc[2])}

AskedInv == asked \subseteq Askable(wanted)

SwarmInv == DInv /\ FileInv /\ NetInv /\ ProviderInv /\ AskedInv

(***************************************************************************)
(* The constructors of packets and the fields of a packet of each type.    *)
(***************************************************************************)
LEMMA PacketsMade ==
  ASSUME NEW w, NEW p \in Providers
  PROVE  /\ \A l \in Seq(w) : Whohas(p, l) \in Messages(w) /\ Ihave(p, l) \in Messages(w)
         /\ \A c \in Offsets : Get(p, c) \in Messages(w)
         /\ \A c \in Offsets, q \in Seqs : DataPkt(p, q, c) \in Messages(w)
         /\ \A n \in Seqs : Ack(p, n) \in Messages(w)
BY DEF Messages, Whohas, Ihave, Get, DataPkt, Ack

LEMMA PacketsRead ==
  ASSUME NEW w, NEW m \in Messages(w)
  PROVE  /\ m.peer \in Providers
         /\ m.type \in {"WHOHAS", "IHAVE"} => m.list \in Seq(w)
         /\ m.type = "GET" => m = Get(m.peer, m.offset) /\ m.offset \in Offsets
         /\ m.type = "DATA" => m.seq \in Seqs /\ m.offset \in Offsets
         /\ m.type = "ACK" => m.ack \in Seqs
BY DEF Messages, Get

LEMMA MessagesGrow ==
  ASSUME NEW v, NEW w, v \subseteq w
  PROVE  Messages(v) \subseteq Messages(w)
<1>1. Seq(v) \subseteq Seq(w)
  OBVIOUS
<1>2. QED  BY <1>1 DEF Messages
(***************************************************************************)
(* An IHAVE of any length does what one with only the accepted chunk does. *)
(***************************************************************************)
LEMMA OneChunkList ==
  ASSUME NEW p \in Peers, NEW l \in Seq(wanted), RecvIHave(p, l)
  PROVE  \E cs \in Lists : RecvIHave(p, cs)
<1>1. PICK k \in Accepted(p, l) :
        /\ Len(recvList) < MaxBuffers
        /\ recvList' = <<NewBuffer(l[k], p)>> \o recvList
        /\ asked' = asked \cup {<<p, l[k]>>}
        /\ TouchTimer(l[k])
  BY DEF RecvIHave
<1>2. k \in DOMAIN l /\ l[k] \in wanted /\ Free(recvList, l[k], p)
  BY DEF Accepted
<1>. DEFINE c == l[k]
            cs == [i \in 1..1 |-> c]
<1>3. c \in wanted
  BY <1>2
<1>4. cs \in Lists
  <2>1. cs \in [1..1 -> wanted]
    BY <1>3
  <2>2. [1..1 -> wanted] \in {[1..n -> wanted] : n \in {1, 2}}
    OBVIOUS
  <2>3. QED  BY <2>1, <2>2 DEF Lists
<1>5. 1 \in DOMAIN cs /\ cs[1] = c /\ 1..(1 - 1) = {}
  OBVIOUS
<1>6. 1 \in Accepted(p, cs)
  BY <1>2, <1>5 DEF Accepted
<1>. HIDE DEF cs
<1>7. RecvIHave(p, cs)
  BY <1>1, <1>5, <1>6 DEF RecvIHave
<1>8. QED  BY <1>4, <1>7

(***************************************************************************)
(* What each step of the composed system does to the downloading peer is a *)
(* step of Download, or nothing.                                           *)
(***************************************************************************)
LEMMA PeerStep ==
  ASSUME SwarmInv, [SwarmNext]_svars
  PROVE  [Next]_vars
<1>1. ASSUME NEW job \in Jobs, MeUserGet(job) PROVE Next
  BY <1>1 DEF MeUserGet, Next
<1>2. CASE MeUserGetMissing
  BY <1>2 DEF MeUserGetMissing, Next
<1>3. ASSUME NEW k \in Malformed, MeUserGetMalformed(k) PROVE Next
  BY <1>3 DEF MeUserGetMalformed, Next
<1>4. ASSUME NEW m \in net, MeRecvIHave(m) PROVE [Next]_vars
  <2>1. m.type = "IHAVE" /\ m \in Messages(wanted)
    BY <1>4 DEF MeRecvIHave, Flight, SwarmInv, NetInv
  <2>2. m.peer \in Peers /\ m.list \in Seq(wanted)
    BY <2>1, PacketsRead, SwarmAssumption
  <2>3. CASE RecvIHave(m.peer, m.list)
    <3>1. \E cs \in Lists : RecvIHave(m.peer, cs)
      BY <2>2, <2>3, OneChunkList
    <3>2. QED  BY <2>2, <3>1 DEF Next
  <2>4. QED  BY <1>4, <2>3 DEF MeRecvIHave
<1>5. ASSUME NEW m \in net, MeRecvDataPkt(m) PROVE Next
  <2>1. m.type = "DATA" /\ m \in Messages(wanted) /\ Honest(m, asked)
    BY <1>5 DEF MeRecvDataPkt, Flight, SwarmInv, NetInv
  <2>2. m.seq \in Seqs /\ <<m.peer, m.offset>> \in asked
    BY <2>1, PacketsRead DEF Honest
  <2>3. RecvDataPkt(<<m.peer, m.offset>>[1], m.seq, <<m.peer, m.offset>>[2])
    BY <1>5 DEF MeRecvDataPkt
  <2>4. \E pc \in asked, q \in Seqs : RecvDataPkt(pc[1], q, pc[2])
    BY <2>2, <2>3
  <2>5. QED  BY <2>4 DEF Next
<1>6. ASSUME NEW K \in Expirable, MeChunkTimeout(K) PROVE Next
  BY <1>6 DEF MeChunkTimeout, Next
<1>7. ASSUME NEW m \in net, RecvWhohas(m) \/ RecvGet(m) \/ RecvAck(m) \/ RecvAckUnknown(m) \/ Lose(m)
      PROVE  UNCHANGED vars
  BY <1>7 DEF RecvWhohas, RecvGet, RecvAck, RecvAckUnknown, Lose
<1>8. ASSUME NEW p \in Providers, Crash(p) \/ Restart(p) \/ \E e \in tracker[p] : Timeout(p, e)
      PROVE  UNCHANGED vars
  BY <1>8 DEF Crash, Restart, Timeout
<1>9. CASE UNCHANGED svars
  BY <1>9 DEF svars
<1>10. QED  BY <1>1, <1>2, <1>3, <1>4, <1>5, <1>6, <1>7, <1>8, <1>9 DEF SwarmNext

-----------------------------------------------------------------------------
(***************************************************************************)
(* What holds of 0 and, with n - 1, of n, holds up to any bound.           *)
(***************************************************************************)
LEMMA UpTo ==
  ASSUME NEW K \in Nat, NEW S, 0 \in S, \A n \in 1..K : n - 1 \in S => n \in S
  PROVE  \A n \in 0..K : n \in S
<1>. DEFINE U == {n \in 0..K : n \notin S}
<1>1. SUFFICES ASSUME U # {} PROVE FALSE
  OBVIOUS
<1>2. PICK m \in U : \A k \in U : m <= k
  <2>1. U \in SUBSET Nat
    OBVIOUS
  <2>. HIDE DEF U
  <2>2. QED  BY <1>1, <2>1, LeastElement
<1>3. m \in 1..K /\ m - 1 \in 0..K
  BY <1>2
<1>4. m - 1 \in S
  BY <1>2, <1>3
<1>5. QED  BY <1>2, <1>3, <1>4

(***************************************************************************)
(* generate_IHAVE answers with chunks of the WHOHAS that find_in_local_has *)
(* finds, whatever the length of the WHOHAS.                               *)
(***************************************************************************)
Answers(p, w) == {s \in Seq(w) : \A i \in DOMAIN s : FindInLocalHas(p, s[i])}

LEMMA ReplyIsAnswer ==
  ASSUME NEW p, NEW w, NEW list \in Seq(w)
  PROVE  Reply(p, list) \in Answers(p, w)
<1>. DEFINE K == Len(list)
            A == Answers(p, w)
            Then(s, n) == IF FindInLocalHas(p, list[n]) THEN Append(s, list[n]) ELSE s
            Unfolds(f) == f = [n \in 0..K |-> IF n = 0 THEN << >>
                               ELSE IF FindInLocalHas(p, list[n]) THEN Append(f[n - 1], list[n])
                               ELSE f[n - 1]]
            u == CHOOSE f : Unfolds(f)
<1>1. K \in Nat
  OBVIOUS
<1>2. << >> \in A
  BY DEF Answers
<1>3. ASSUME NEW s \in A, NEW n \in 1..K PROVE Then(s, n) \in A
  <2>1. list[n] \in w
    OBVIOUS
  <2>2. CASE FindInLocalHas(p, list[n])
    <3>. DEFINE c == list[n]
                t == Append(s, c)
    <3>1. s \in Seq(w) /\ c \in w
      BY <2>1 DEF Answers
    <3>. HIDE DEF c
    <3>2. t \in Seq(w) /\ DOMAIN t = 1..(Len(s) + 1) /\ t[Len(s) + 1] = c
          /\ \A i \in 1..Len(s) : t[i] = s[i] /\ i \in DOMAIN s
      BY <3>1
    <3>3. ASSUME NEW i \in DOMAIN t PROVE FindInLocalHas(p, t[i])
      <4>1. Len(s) \in Nat /\ (i = Len(s) + 1 \/ i \in 1..Len(s))
        BY <3>1, <3>2
      <4>2. CASE i = Len(s) + 1
        BY <2>2, <3>2, <4>2 DEF c
      <4>3. CASE i \in 1..Len(s)
        BY <3>2, <4>3 DEF Answers
      <4>4. QED  BY <4>1, <4>2, <4>3
    <3>. HIDE DEF t
    <3>4. t \in A
      BY <3>2, <3>3 DEF Answers
    <3>5. QED  BY <2>2, <3>4 DEF t, c
  <2>3. CASE ~FindInLocalHas(p, list[n])
    BY <2>3
  <2>4. QED  BY <2>2, <2>3
<1>. HIDE DEF A
<1>4. Reply(p, list) = u[K]
  BY DEF Reply
<1>. DEFINE Follows(f, n) == f[0] = << >> /\ \A i \in 1..n : f[i] = Then(f[i - 1], i)
<1>5. \E f : Unfolds(f)
  <2>. DEFINE S == {n \in Nat : \E f \in [0..n -> A] : Follows(f, n)}
  <2>1. 0 \in S
    <3>. DEFINE e == << >>
                f == [i \in 0..0 |-> e]
    <3>1. e \in A
      BY <1>2
    <3>. HIDE DEF e
    <3>2. f \in [0..0 -> A] /\ f[0] = e /\ 1..0 = {}
      BY <3>1
    <3>. HIDE DEF f
    <3>3. Follows(f, 0)
      BY <3>2 DEF e
    <3>4. QED  BY <3>2, <3>3
  <2>2. ASSUME NEW n \in 1..K, n - 1 \in S PROVE n \in S
    <3>1. PICK f \in [0..(n - 1) -> A] : Follows(f, n - 1)
      BY <2>2
    <3>. DEFINE z == Then(f[n - 1], n)
                h == [i \in 0..n |-> IF i = n THEN z ELSE f[i]]
    <3>2. n - 1 \in 0..(n - 1) /\ 0 \in 0..(n - 1)
      BY <1>1
    <3>3. z \in A
      BY <1>3, <3>2
    <3>. HIDE DEF z
    <3>4. h \in [0..n -> A] /\ h[n] = z /\ \A i \in 0..(n - 1) : h[i] = f[i]
      BY <1>1, <3>3
    <3>. HIDE DEF h
    <3>5. h[0] = << >>
      BY <3>1, <3>2, <3>4
    <3>6. ASSUME NEW i \in 1..n PROVE h[i] = Then(h[i - 1], i)
      <4>1. CASE i = n
        <5>1. h[i - 1] = f[n - 1] /\ h[i] = z
          BY <3>2, <3>4, <4>1
        <5>2. QED  BY <4>1, <5>1 DEF z
      <4>2. CASE i # n
        <5>1. i \in 1..(n - 1) /\ i \in 0..(n - 1) /\ i - 1 \in 0..(n - 1)
          BY <1>1, <4>2
        <5>2. f[i] = Then(f[i - 1], i) /\ h[i] = f[i] /\ h[i - 1] = f[i - 1]
          BY <3>1, <3>4, <5>1
        <5>3. QED  BY <5>2
      <4>3. QED  BY <4>1, <4>2
    <3>. HIDE DEF Then
    <3>7. Follows(h, n)
      BY <3>5, <3>6
    <3>8. QED  BY <1>1, <3>4, <3>7
  <2>3. K \in S
    <3>. HIDE DEF S, K
    <3>1. \A n \in 1..K : n - 1 \in S => n \in S
      BY <2>2
    <3>2. \A n \in 0..K : n \in S
      BY <1>1, <2>1, <3>1, UpTo, Zenon
    <3>3. QED  BY <1>1, <3>2
  <2>4. PICK f \in [0..K -> A] : Follows(f, K)
    BY <2>3
  <2>5. ASSUME NEW n \in 0..K
        PROVE  f[n] = IF n = 0 THEN << >>
                      ELSE IF FindInLocalHas(p, list[n]) THEN Append(f[n - 1], list[n])
                      ELSE f[n - 1]
    <3>1. CASE n = 0
      BY <2>4, <3>1
    <3>2. CASE n # 0
      <4>1. n \in 1..K
        BY <1>1, <3>2
      <4>2. f[n] = Then(f[n - 1], n)
        BY <2>4, <4>1
      <4>3. QED  BY <3>2, <4>2
    <3>3. QED  BY <3>1, <3>2
  <2>6. f = [n \in 0..K |-> f[n]]
    OBVIOUS
  <2>7. Unfolds(f)
    BY <2>5, <2>6
  <2>8. QED  BY <2>7
<1>6. Unfolds(u)
  <2>. HIDE DEF Unfolds
  <2>1. QED  BY <1>5
<1>. HIDE DEF u
<1>7. u[0] = << >> /\ \A n \in 1..K : u[n] = Then(u[n - 1], n)
  <2>1. 0 \in 0..K /\ \A n \in 1..K : n \in 0..K /\ n # 0
    BY <1>1
  <2>2. QED  BY <1>6, <2>1
<1>8. u[K] \in A
  <2>. DEFINE S == {n \in Nat : u[n] \in A}
  <2>1. 0 \in S
    BY <1>2, <1>7
  <2>2. ASSUME NEW n \in 1..K, n - 1 \in S PROVE n \in S
    BY <1>1, <1>3, <1>7, <2>2
  <2>. HIDE DEF S
  <2>3. K \in S
    <3>. HIDE DEF K
    <3>1. \A n \in 1..K : n - 1 \in S => n \in S
      BY <2>2
    <3>2. \A n \in 0..K : n \in S
      BY <1>1, <2>1, <3>1, UpTo, Zenon
    <3>3. QED  BY <1>1, <3>2
  <2>4. QED  BY <2>3 DEF S
<1>9. QED  BY <1>4, <1>8 DEF A

-----------------------------------------------------------------------------
(***************************************************************************)
(* WHOHAS lists and GETs are never taken back, and what was true of a      *)
(* packet, an upload or a timer because of them stays true.                *)
(***************************************************************************)
LEMMA AskedGrows ==
  ASSUME [Next]_vars
  PROVE  wanted \subseteq wanted' /\ asked \subseteq asked'
BY DEF Next, vars, UserGet, UserGetMissing, UserGetMalformed, RecvIHave, RecvDataPkt, ChunkTimeout

LEMMA NetKept ==
  ASSUME NetInv, wanted \subseteq wanted', asked \subseteq asked',
         \A m \in net' : m \in net \/ (m \in Messages(wanted') /\ Honest(m, asked'))
  PROVE  NetInv'
<1>1. Messages(wanted) \subseteq Messages(wanted')
  BY MessagesGrow
<1>2. ASSUME NEW m \in net PROVE m \in Messages(wanted') /\ Honest(m, asked')
  BY <1>1 DEF NetInv, Honest
<1>3. \A m \in net' : m \in Messages(wanted') /\ Honest(m, asked')
  BY <1>2
<1>4. net' \subseteq Messages(wanted') /\ \A m \in net' : Honest(m, asked')
  BY <1>3
<1>5. QED  BY <1>4 DEF NetInv, Messages, Honest

LEMMA ProvidersKept ==
  ASSUME ProviderInv, asked \subseteq asked', UNCHANGED <<pvars, losses>>
  PROVE  ProviderInv'
BY DEF ProviderInv, pvars, UploadOK, TimersOK

(***************************************************************************)
(* Replacing the upload and the timers of one provider that is running.    *)
(***************************************************************************)
LEMMA ProviderChanged ==
  ASSUME ProviderInv, asked' = asked, UNCHANGED <<alive, crashed, losses>>,
         NEW p \in alive, NEW d \in Data, NEW t,
         UploadOK(p, d, asked), TimersOK(p, t, asked),
         data' = [data EXCEPT ![p] = d], tracker' = [tracker EXCEPT ![p] = t]
  PROVE  ProviderInv'
<1>1. p \in Providers /\ t \in SUBSET Trackers
  BY DEF ProviderInv, TimersOK
<1>2. /\ data' \in [Providers -> Data \cup {NoUpload}]
      /\ tracker' \in [Providers -> SUBSET Trackers]
  BY <1>1 DEF ProviderInv
<1>3. \A q \in Providers : /\ data'[q] = IF q = p THEN d ELSE data[q]
                           /\ tracker'[q] = IF q = p THEN t ELSE tracker[q]
  BY <1>1 DEF ProviderInv
<1>4. \A q \in Providers : UploadOK(q, data'[q], asked') /\ TimersOK(q, tracker'[q], asked')
  BY <1>3 DEF ProviderInv
<1>5. \A q \in Providers \ alive' : q \in crashed' /\ data'[q] = NoUpload /\ tracker'[q] = {}
  BY <1>3 DEF ProviderInv
<1>6. alive' \subseteq Providers /\ crashed' \subseteq Mortal /\ losses' \in 0..MaxLoss
  BY DEF ProviderInv
<1>7. QED  BY <1>2, <1>4, <1>5, <1>6 DEF ProviderInv, UploadOK, TimersOK

(***************************************************************************)
(* create_timer and remove_from_tracker keep timers of the GETs sent.      *)
(***************************************************************************)
LEMMA TimersAsked ==
  ASSUME NEW p, NEW a, NEW t, TimersOK(p, t, a), NEW c \in Offsets, <<p, c>> \in a,
         NEW out \in SUBSET Seqs
  PROVE  TimersOK(p, CreateTimer(t, Me, c, out), a)
<1>. DEFINE New(q) == [sock |-> Me, seq |-> q, offset |-> c]
<1>1. \A q \in out : New(q) \in Trackers /\ New(q).offset = c
  BY SwarmAssumption DEF Trackers
<1>2. \A e \in CreateTimer(t, Me, c, out) : e \in t \/ \E q \in out : e = New(q)
  BY DEF CreateTimer
<1>. HIDE DEF New
<1>3. QED  BY <1>1, <1>2 DEF TimersOK

LEMMA TimersRemoved ==
  ASSUME NEW p, NEW a, NEW t, TimersOK(p, t, a), NEW done
  PROVE  TimersOK(p, RemoveFromTracker(t, Me, done), a)
BY DEF TimersOK, RemoveFromTracker

(***************************************************************************)
(* Each list of generate_WHOHAS names chunks that are wanted from then on. *)
(***************************************************************************)
LEMMA ListOfWanted ==
  ASSUME NEW s \in Seq(Offsets), NEW w, \A i \in DOMAIN s : s[i] \in w
  PROVE  s \in Seq(w)
<1>1. s = [i \in 1..Len(s) |-> s[i]] /\ Len(s) \in Nat /\ DOMAIN s = 1..Len(s)
  OBVIOUS
<1>2. QED  BY <1>1

LEMMA SplitIsListed ==
  ASSUME NEW job \in Seq(Offsets), NEW k \in DOMAIN Split(job)
  PROVE  Split(job)[k] \in Seq(Listed(Split(job)))
<1>. DEFINE M == MaxHashes
            s == Split(job)[k]
            of(x) == {Split(job)[x][i] : i \in DOMAIN Split(job)[x]}
<1>1. M \in Nat \ {0} /\ Len(job) \in Nat
  BY DownloadAssumption
<1>2. /\ k \in 1..(Len(job) \div M + 1)
      /\ s = SubSeq(job, (k - 1) * M + 1, IF k * M < Len(job) THEN k * M ELSE Len(job))
  BY DEF Split
<1>3. k \in Nat /\ k >= 1
  BY <1>1, <1>2
<1>4. (k - 1) * M \in Nat /\ k * M \in Nat
  BY <1>1, <1>3
<1>. DEFINE a == (k - 1) * M
            b == k * M
<1>5. a \in Nat /\ b \in Nat /\ s = SubSeq(job, a + 1, IF b < Len(job) THEN b ELSE Len(job))
  BY <1>2, <1>4
<1>. HIDE DEF a, b, s
<1>6. s \in Seq(Offsets)
  BY <1>1, <1>5
<1>7. \A i \in DOMAIN s : s[i] \in of(k)
  BY DEF s
<1>8. of(k) \in {of(x) : x \in DOMAIN Split(job)}
  OBVIOUS
<1>9. \A i \in DOMAIN s : s[i] \in Listed(Split(job))
  BY <1>7, <1>8, Zenon DEF Listed
<1>10. QED  BY <1>6, <1>9, ListOfWanted DEF s

-----------------------------------------------------------------------------
(***************************************************************************)
(* The steps of the downloading peer.  WHOHAS is sent for wanted chunks.   *)
(***************************************************************************)
WorldInv == NetInv /\ ProviderInv /\ AskedInv

LEMMA AskableGrows ==
  ASSUME NEW v, NEW w, v \subseteq w
  PROVE  Askable(v) \subseteq Askable(w)
BY DEF Askable

LEMMA BroadcastStep ==
  ASSUME NEW l \in Seq(wanted'), NEW m \in Broadcast(l)
  PROVE  m \in Messages(wanted') /\ Honest(m, asked')
<1>1. PICK p \in Providers : m = Whohas(p, l)
  BY DEF Broadcast
<1>2. m.type = "WHOHAS"
  BY <1>1 DEF Whohas
<1>3. QED  BY <1>1, <1>2, PacketsMade DEF Honest

LEMMA UserGetWorld ==
  ASSUME SwarmInv, NEW job \in Jobs, MeUserGet(job)
  PROVE  WorldInv'
<1>1. UserGet(job) /\ UNCHANGED <<pvars, losses>> /\ job \in Seq(Offsets)
  BY DownloadAssumption DEF MeUserGet
<1>2. wanted' = wanted \cup Listed(Split(job)) /\ asked' = asked
  BY <1>1 DEF UserGet
<1>3. ASSUME NEW m \in net', m \notin net
      PROVE  m \in Messages(wanted') /\ Honest(m, asked')
  <2>1. PICK k \in DOMAIN Split(job) : m \in Broadcast(Split(job)[k])
    BY <1>3 DEF MeUserGet
  <2>2. Split(job)[k] \in Seq(Listed(Split(job)))
    BY <1>1, SplitIsListed
  <2>3. Split(job)[k] \in Seq(wanted')
    <3>. DEFINE w == Listed(Split(job))
                s == Split(job)[k]
    <3>1. s \in Seq(w) /\ w \subseteq wanted'
      BY <1>2, <2>2
    <3>. HIDE DEF w, s
    <3>2. s \in Seq(wanted')
      BY <3>1
    <3>3. QED  BY <3>2 DEF s
  <2>4. QED  BY <2>1, <2>3, BroadcastStep
<1>4. NetInv'
  BY <1>2, <1>3, NetKept DEF SwarmInv
<1>5. ProviderInv'
  BY <1>1, <1>2, ProvidersKept DEF SwarmInv
<1>6. AskedInv'
  <2>1. Askable(wanted) \subseteq Askable(wanted')
    BY <1>2, AskableGrows
  <2>2. asked' \subseteq Askable(wanted')
    BY <1>2, <2>1 DEF SwarmInv, AskedInv
  <2>3. QED  BY <2>2 DEF AskedInv, Askable
<1>7. QED  BY <1>4, <1>5, <1>6 DEF WorldInv

(***************************************************************************)
(* Steps that ask for nothing new.                                         *)
(***************************************************************************)
LEMMA SameAsked ==
  ASSUME SwarmInv, wanted' = wanted, asked' = asked
  PROVE  AskedInv'
BY DEF SwarmInv, AskedInv, Askable

LEMMA QuietWorld ==
  ASSUME SwarmInv, wanted' = wanted, asked' = asked, UNCHANGED <<pvars, losses>>, net' \subseteq net
  PROVE  WorldInv'
<1>1. NetInv'
  BY NetKept DEF SwarmInv
<1>2. ProviderInv'
  BY ProvidersKept DEF SwarmInv
<1>3. QED  BY <1>1, <1>2, SameAsked DEF WorldInv

LEMMA TimeoutWorld ==
  ASSUME SwarmInv, NEW K \in Expirable, MeChunkTimeout(K)
  PROVE  WorldInv'
<1>1. wanted' = wanted /\ asked' = asked /\ UNCHANGED <<pvars, losses>>
  BY DEF MeChunkTimeout, ChunkTimeout
<1>2. \A k \in K : manager.offset[k] \in wanted'
  BY <1>1 DEF SwarmInv, FileInv, Expirable
<1>3. \A k \in K : <<manager.offset[k]>> \in Seq(wanted')
  BY <1>2
<1>4. \A m \in net' : m \in net \/ \E k \in K : m \in Broadcast(<<manager.offset[k]>>)
  BY DEF MeChunkTimeout
<1>5. NetInv'
  <2>1. \A k \in K : \A m \in Broadcast(<<manager.offset[k]>>) :
          m \in Messages(wanted') /\ Honest(m, asked')
    BY <1>3, BroadcastStep
  <2>2. QED  BY <1>1, <1>4, <2>1, NetKept DEF SwarmInv
<1>6. QED  BY <1>1, <1>5, ProvidersKept, SameAsked DEF SwarmInv, WorldInv

(***************************************************************************)
(* An IHAVE is answered with at most one GET, for a chunk the provider     *)
(* said it has.                                                            *)
(***************************************************************************)
LEMMA AcceptedOne ==
  ASSUME NEW p, NEW S, NEW l \in Seq(S), NEW j \in Accepted(p, l), NEW k \in Accepted(p, l)
  PROVE  j = k
<1>1. j \in 1..Len(l) /\ k \in 1..Len(l) /\ Len(l) \in Nat
  BY DEF Accepted
<1>2. ~(j \in 1..(k - 1)) /\ ~(k \in 1..(j - 1))
  BY DEF Accepted
<1>3. QED  BY <1>1, <1>2

LEMMA IHaveWorld ==
  ASSUME SwarmInv, NEW m \in net, MeRecvIHave(m)
  PROVE  WorldInv'
<1>1. m.type = "IHAVE" /\ m \in Messages(wanted) /\ Honest(m, asked)
  BY DEF MeRecvIHave, Flight, SwarmInv, NetInv
<1>2. m.peer \in Providers /\ m.list \in Seq(wanted) /\ UNCHANGED <<pvars, losses>>
  BY <1>1, PacketsRead DEF MeRecvIHave
<1>3. CASE RecvIHave(m.peer, m.list) /\ net' = (net \ {m}) \cup
               {Get(m.peer, m.list[k]) : k \in Accepted(m.peer, m.list)}
  <2>1. PICK k \in Accepted(m.peer, m.list) : asked' = asked \cup {<<m.peer, m.list[k]>>}
    BY <1>3 DEF RecvIHave
  <2>. DEFINE c == m.list[k]
  <2>2. wanted' = wanted /\ k \in DOMAIN m.list
    BY <1>3 DEF RecvIHave, Accepted
  <2>3. c \in wanted /\ FindInLocalHas(m.peer, c)
    BY <1>1, <1>2, <2>2 DEF Honest
  <2>4. \A n \in net' : n \in net \/ n = Get(m.peer, c)
    BY <1>2, <1>3, AcceptedOne
  <2>. HIDE DEF c
  <2>5. wanted \subseteq Offsets
    BY DEF SwarmInv, DInv
  <2>6. Get(m.peer, c) \in Messages(wanted') /\ Honest(Get(m.peer, c), asked')
    <3>1. Get(m.peer, c) \in Messages(wanted')
      BY <1>2, <2>3, <2>5, PacketsMade
    <3>2. <<m.peer, c>> \in asked'
      BY <2>1 DEF c
    <3>3. QED  BY <3>1, <3>2 DEF Honest, Get
  <2>7. NetInv'
    BY <2>1, <2>2, <2>4, <2>6, NetKept DEF SwarmInv
  <2>8. ProviderInv'
    BY <1>2, <2>1, ProvidersKept DEF SwarmInv
  <2>9. <<m.peer, c>> \in Askable(wanted)
    BY <1>2, <2>3 DEF Askable
  <2>10. asked' \subseteq Askable(wanted')
    BY <2>1, <2>2, <2>9 DEF SwarmInv, AskedInv, c
  <2>11. QED  BY <2>7, <2>8, <2>10 DEF WorldInv, AskedInv, Askable
<1>4. CASE net' = net \ {m} /\ UNCHANGED vars
  BY <1>2, <1>4, QuietWorld DEF vars
<1>5. QED  BY <1>3, <1>4 DEF MeRecvIHave

(***************************************************************************)
(* A DATA packet is answered with an ACK number that a data_t can take.    *)
(***************************************************************************)
LEMMA DataWorld ==
  ASSUME SwarmInv, DInv', NEW m \in net, MeRecvDataPkt(m)
  PROVE  WorldInv'
<1>1. m.peer \in Providers
  BY PacketsRead DEF SwarmInv, NetInv
<1>2. wanted' = wanted /\ asked' = asked /\ UNCHANGED <<pvars, losses>>
  BY DEF MeRecvDataPkt, RecvDataPkt
<1>3. DOMAIN recvList' = DOMAIN recvList
  BY DEF MeRecvDataPkt, RecvDataPkt, CheckFileManager, ReleaseBuffers
<1>4. ASSUME NEW k \in Target(m.peer) PROVE recvList'[k].expected \in Seqs
  <2>1. k \in DOMAIN recvList'
    BY <1>3 DEF Target
  <2>2. recvList'[k] \in Buffers
    BY <2>1 DEF DInv
  <2>3. QED  BY <2>2 DEF Buffers, Seqs
<1>5. ASSUME NEW n \in net', n \notin net
      PROVE  n \in Messages(wanted') /\ Honest(n, asked')
  <2>1. PICK k \in Target(m.peer) : n = Ack(m.peer, recvList'[k].expected)
    BY <1>5 DEF MeRecvDataPkt
  <2>2. n \in Messages(wanted')
    BY <1>1, <1>4, <2>1, PacketsMade
  <2>3. n.type = "ACK"
    BY <2>1 DEF Ack
  <2>4. QED  BY <2>2, <2>3 DEF Honest
<1>6. NetInv'
  BY <1>2, <1>5, NetKept DEF SwarmInv
<1>7. QED  BY <1>2, <1>6, ProvidersKept, SameAsked DEF SwarmInv, WorldInv

-----------------------------------------------------------------------------
(***************************************************************************)
(* The steps of the providers and of the network.                          *)
(***************************************************************************)
LEMMA WhohasWorld ==
  ASSUME SwarmInv, NEW m \in net, RecvWhohas(m)
  PROVE  WorldInv'
<1>. DEFINE r == Reply(m.peer, m.list)
<1>1. m.type = "WHOHAS" /\ m \in Messages(wanted)
  BY DEF RecvWhohas, Flight, SwarmInv, NetInv
<1>2. m.peer \in Providers /\ m.list \in Seq(wanted)
  BY <1>1, PacketsRead
<1>3. wanted' = wanted /\ asked' = asked /\ UNCHANGED <<pvars, losses>>
  BY DEF RecvWhohas, vars
<1>4. r \in Seq(wanted) /\ \A i \in DOMAIN r : FindInLocalHas(m.peer, r[i])
  BY <1>2, ReplyIsAnswer DEF Answers
<1>5. \A n \in net' : n \in net \/ n = Ihave(m.peer, r)
  BY DEF RecvWhohas
<1>. HIDE DEF r
<1>6. Ihave(m.peer, r) \in Messages(wanted')
  BY <1>2, <1>3, <1>4, PacketsMade
<1>7. Honest(Ihave(m.peer, r), asked')
  BY <1>4 DEF Honest, Ihave
<1>8. NetInv'
  BY <1>3, <1>5, <1>6, <1>7, NetKept DEF SwarmInv
<1>9. QED  BY <1>3, <1>8, ProvidersKept, SameAsked DEF SwarmInv, WorldInv

(***************************************************************************)
(* DATA of a chunk the provider was asked for may go out.                  *)
(***************************************************************************)
LEMMA DataHonest ==
  ASSUME NEW p \in Providers, NEW c \in Offsets, <<p, c>> \in asked', NEW q \in Seqs
  PROVE  DataPkt(p, q, c) \in Messages(wanted') /\ Honest(DataPkt(p, q, c), asked')
<1>1. DataPkt(p, q, c) \in Messages(wanted')
  BY PacketsMade
<1>2. QED  BY <1>1 DEF Honest, DataPkt

LEMMA GetWorld ==
  ASSUME SwarmInv, NEW m \in net, RecvGet(m)
  PROVE  WorldInv'
<1>1. m.type = "GET" /\ m \in Messages(wanted) /\ Honest(m, asked)
  BY DEF RecvGet, Flight, SwarmInv, NetInv
<1>2. m.peer \in Providers /\ m.offset \in Offsets /\ <<m.peer, m.offset>> \in asked
  BY <1>1, PacketsRead DEF Honest
<1>3. wanted' = wanted /\ asked' = asked /\ UNCHANGED <<alive, crashed, losses>> /\ m.peer \in alive
  BY DEF RecvGet, vars
<1>4. PICK g \in Garbage :
        LET d == InitDatalist(m.offset, g) IN
        /\ data' = [data EXCEPT ![m.peer] = SendData(d)]
        /\ tracker' = [tracker EXCEPT ![m.peer] = CreateTimer(@, Me, m.offset, SentSeqs(d))]
        /\ net' = (net \ {m}) \cup {DataPkt(m.peer, q, m.offset) : q \in SentSeqs(d)}
  BY DEF RecvGet
<1>. DEFINE d == SendData(InitDatalist(m.offset, g))
            out == SentSeqs(InitDatalist(m.offset, g))
            t == CreateTimer(tracker[m.peer], Me, m.offset, out)
<1>5. d \in Data /\ Shape(d) /\ d.offset = m.offset
  BY <1>2, FirstSend
<1>6. out \in SUBSET Seqs
  BY DEF SentSeqs
<1>7. /\ data' = [data EXCEPT ![m.peer] = d] /\ tracker' = [tracker EXCEPT ![m.peer] = t]
      /\ net' = (net \ {m}) \cup {DataPkt(m.peer, q, m.offset) : q \in out}
  BY <1>4
<1>. HIDE DEF d, out
<1>8. TimersOK(m.peer, t, asked)
  <2>1. TimersOK(m.peer, tracker[m.peer], asked)
    BY <1>2 DEF SwarmInv, ProviderInv
  <2>2. QED  BY <1>2, <1>6, <2>1, TimersAsked
<1>. HIDE DEF t
<1>9. UploadOK(m.peer, d, asked)
  BY <1>2, <1>5 DEF UploadOK
<1>10. ProviderInv'
  BY <1>3, <1>5, <1>7, <1>8, <1>9, ProviderChanged DEF SwarmInv
<1>11. \A n \in net' : n \in net \/ \E q \in out : n = DataPkt(m.peer, q, m.offset)
  BY <1>7
<1>12. NetInv'
  BY <1>2, <1>3, <1>6, <1>11, DataHonest, NetKept DEF SwarmInv
<1>13. QED  BY <1>3, <1>10, <1>12, SameAsked DEF WorldInv

(***************************************************************************)
(* handle_ack leaves a data_t in shape and sends packets of its chunk.     *)
(***************************************************************************)
LEMMA AckWorld ==
  ASSUME SwarmInv, NEW m \in net, RecvAck(m)
  PROVE  WorldInv'
<1>. DEFINE p == m.peer
            d == data[m.peer]
            h == HandleAck(d, Me, m.ack - 1)
            u == RemoveFromTracker(tracker[p], Me, h.done)
            t == CreateTimer(u, Me, d.offset, h.out)
<1>1. m.type = "ACK" /\ m \in Messages(wanted)
  BY DEF RecvAck, Flight, SwarmInv, NetInv
<1>2. p \in Providers /\ m.ack \in Seqs
  BY <1>1, PacketsRead
<1>3. wanted' = wanted /\ asked' = asked /\ UNCHANGED <<alive, crashed, losses>> /\ p \in alive
  BY DEF RecvAck, vars
<1>4. /\ data' = [data EXCEPT ![p] = h.data]
      /\ tracker' = [tracker EXCEPT ![p] = t]
      /\ net' = (net \ {m}) \cup {DataPkt(p, q, d.offset) : q \in h.out}
      /\ d # NoUpload
  <2>1. PICK e \in {d}, k \in {h} :
          /\ data' = [data EXCEPT ![p] = k.data]
          /\ tracker' = [tracker EXCEPT ![p] =
                           CreateTimer(RemoveFromTracker(@, Me, k.done), Me, e.offset, k.out)]
          /\ net' = (net \ {m}) \cup {DataPkt(p, q, e.offset) : q \in k.out}
    BY Zenon DEF RecvAck
  <2>2. e = d /\ k = h /\ d # NoUpload
    BY Zenon DEF RecvAck
  <2>3. QED  BY <2>1, <2>2, Zenon
<1>5. /\ d \in Data /\ Shape(d) /\ <<p, d.offset>> \in asked
      /\ TimersOK(p, tracker[p], asked)
  BY <1>2, <1>4 DEF SwarmInv, ProviderInv, UploadOK
<1>6. m.ack - 1 \in AckIndices
  BY <1>2, ProtocolAssumption DEF Seqs, AckIndices
<1>7. AckOutcome(h, d, m.ack - 1)
  BY <1>5, <1>6, HandleAckFacts
<1>. HIDE DEF h
<1>8. /\ h.data \in Data /\ Shape(h.data) /\ h.data.offset = d.offset
      /\ h.out \in SUBSET Seqs /\ d.offset \in Offsets
  BY <1>5, <1>7 DEF AckOutcome, Data
<1>9. TimersOK(p, u, asked)
  BY <1>5, TimersRemoved
<1>. HIDE DEF u
<1>10. TimersOK(p, t, asked)
  BY <1>5, <1>8, <1>9, TimersAsked
<1>. HIDE DEF t
<1>11. UploadOK(p, h.data, asked)
  BY <1>5, <1>8 DEF UploadOK
<1>. HIDE DEF d, p
<1>12. ProviderInv'
  BY <1>3, <1>4, <1>8, <1>10, <1>11, ProviderChanged DEF SwarmInv
<1>13. \A n \in net' : n \in net \/ \E q \in h.out : n = DataPkt(p, q, d.offset)
  BY <1>4
<1>14. NetInv'
  BY <1>2, <1>3, <1>5, <1>8, <1>13, DataHonest, NetKept DEF SwarmInv
<1>15. QED  BY <1>3, <1>12, <1>14, SameAsked DEF WorldInv

(***************************************************************************)
(* A timer sends its packet again.                                         *)
(***************************************************************************)
LEMMA ResendWorld ==
  ASSUME SwarmInv, NEW p \in Providers, NEW e \in tracker[p], Timeout(p, e)
  PROVE  WorldInv'
<1>1. wanted' = wanted /\ asked' = asked /\ UNCHANGED <<pvars, losses>>
  BY DEF Timeout, vars
<1>2. e \in Trackers /\ <<p, e.offset>> \in asked
  BY DEF SwarmInv, ProviderInv, TimersOK
<1>3. e.seq \in Seqs /\ e.offset \in Offsets
  BY <1>2 DEF Trackers
<1>4. \A n \in net' : n \in net \/ n = DataPkt(p, e.seq, e.offset)
  BY DEF Timeout
<1>5. NetInv'
  BY <1>1, <1>2, <1>3, <1>4, DataHonest, NetKept DEF SwarmInv
<1>6. QED  BY <1>1, <1>5, ProvidersKept, SameAsked DEF SwarmInv, WorldInv

(***************************************************************************)
(* A crash forgets the upload and the timers; a restart clears the way.    *)
(***************************************************************************)
LEMMA CrashWorld ==
  ASSUME SwarmInv, NEW p \in Providers, Crash(p)
  PROVE  WorldInv'
<1>1. wanted' = wanted /\ asked' = asked /\ net' = net /\ losses' = losses
  BY DEF Crash, vars
<1>2. /\ p \in alive /\ p \in Mortal /\ alive' = alive \ {p} /\ crashed' = crashed \cup {p}
      /\ data' = [data EXCEPT ![p] = NoUpload] /\ tracker' = [tracker EXCEPT ![p] = {}]
  BY DEF Crash
<1>3. /\ data' \in [Providers -> Data \cup {NoUpload}]
      /\ tracker' \in [Providers -> SUBSET Trackers]
      /\ \A q \in Providers : /\ data'[q] = IF q = p THEN NoUpload ELSE data[q]
                              /\ tracker'[q] = IF q = p THEN {} ELSE tracker[q]
  BY <1>2 DEF SwarmInv, ProviderInv
<1>4. \A q \in Providers : UploadOK(q, data'[q], asked') /\ TimersOK(q, tracker'[q], asked')
  BY <1>1, <1>3 DEF SwarmInv, ProviderInv, UploadOK, TimersOK
<1>5. \A q \in Providers \ alive' : q \in crashed' /\ data'[q] = NoUpload /\ tracker'[q] = {}
  BY <1>2, <1>3 DEF SwarmInv, ProviderInv
<1>6. alive' \subseteq Providers /\ crashed' \subseteq Mortal /\ losses' \in 0..MaxLoss
  BY <1>1, <1>2 DEF SwarmInv, ProviderInv
<1>7. ProviderInv'
  BY <1>3, <1>4, <1>5, <1>6 DEF ProviderInv, UploadOK, TimersOK
<1>8. NetInv'
  BY <1>1, NetKept DEF SwarmInv
<1>9. QED  BY <1>1, <1>7, <1>8, SameAsked DEF WorldInv

LEMMA RestartWorld ==
  ASSUME SwarmInv, NEW p \in Providers, Restart(p)
  PROVE  WorldInv'
<1>1. wanted' = wanted /\ asked' = asked /\ net' \subseteq net
  BY DEF Restart, vars
<1>2. alive' = alive \cup {p} /\ UNCHANGED <<data, tracker, crashed, losses>>
  BY DEF Restart
<1>3. ProviderInv'
  BY <1>1, <1>2 DEF SwarmInv, ProviderInv, UploadOK, TimersOK
<1>4. NetInv'
  BY <1>1, NetKept DEF SwarmInv
<1>5. QED  BY <1>1, <1>3, <1>4, SameAsked DEF WorldInv

LEMMA LoseWorld ==
  ASSUME SwarmInv, NEW m \in net, Lose(m)
  PROVE  WorldInv'
<1>1. wanted' = wanted /\ asked' = asked /\ net' \subseteq net /\ UNCHANGED pvars
  BY DEF Lose, vars
<1>2. losses' \in 0..MaxLoss
  BY SwarmAssumption DEF Lose, SwarmInv, ProviderInv
<1>3. ProviderInv'
  BY <1>1, <1>2 DEF SwarmInv, ProviderInv, pvars, UploadOK, TimersOK
<1>4. NetInv'
  BY <1>1, NetKept DEF SwarmInv
<1>5. QED  BY <1>1, <1>3, <1>4, SameAsked DEF WorldInv

-----------------------------------------------------------------------------
LEMMA SwarmStart == SwarmInit => SwarmInv
<1>. SUFFICES ASSUME SwarmInit PROVE SwarmInv
  OBVIOUS
<1>1. Init
  BY DEF SwarmInit
<1>2. DInv
  BY <1>1 DEF Init, DInv, BusyIsNewest
<1>3. FileInv
  BY <1>1, FileInit
<1>4. NetInv
  BY DEF SwarmInit, NetInv
<1>5. ProviderInv
  BY SwarmAssumption DEF SwarmInit, ProviderInv, UploadOK, TimersOK
<1>6. AskedInv
  BY <1>1 DEF Init, AskedInv
<1>7. QED  BY <1>2, <1>3, <1>4, <1>5, <1>6 DEF SwarmInv

(***************************************************************************)
(* Every step of a peer, of a provider or of the network keeps it.         *)
(***************************************************************************)
LEMMA SwarmStep == SwarmInv /\ [SwarmNext]_svars => SwarmInv'
<1>. SUFFICES ASSUME SwarmInv, [SwarmNext]_svars PROVE SwarmInv'
  OBVIOUS
<1>1. [Next]_vars
  BY PeerStep
<1>2. DInv' /\ FileInv'
  BY <1>1, DownloadStep, FileStep DEF SwarmInv
<1>3. WorldInv'
  <2>1. ASSUME NEW job \in Jobs, MeUserGet(job) PROVE WorldInv'
    BY <2>1, UserGetWorld
  <2>2. CASE MeUserGetMissing
    BY <2>2, QuietWorld DEF MeUserGetMissing, UserGetMissing
  <2>3. ASSUME NEW k \in Malformed, MeUserGetMalformed(k) PROVE WorldInv'
    BY <2>3, QuietWorld DEF MeUserGetMalformed, UserGetMalformed
  <2>4. ASSUME NEW m \in net, MeRecvIHave(m) PROVE WorldInv'
    BY <2>4, IHaveWorld
  <2>5. ASSUME NEW m \in net, MeRecvDataPkt(m) PROVE WorldInv'
    BY <1>2, <2>5, DataWorld
  <2>6. ASSUME NEW K \in Expirable, MeChunkTimeout(K) PROVE WorldInv'
    BY <2>6, TimeoutWorld
  <2>7. ASSUME NEW m \in net, RecvWhohas(m) PROVE WorldInv'
    BY <2>7, WhohasWorld
  <2>8. ASSUME NEW m \in net, RecvGet(m) PROVE WorldInv'
    BY <2>8, GetWorld
  <2>9. ASSUME NEW m \in net, RecvAck(m) PROVE WorldInv'
    BY <2>9, AckWorld
  <2>10. ASSUME NEW m \in net, RecvAckUnknown(m) PROVE WorldInv'
    BY <2>10, QuietWorld DEF RecvAckUnknown, vars
  <2>11. ASSUME NEW p \in Providers, NEW e \in tracker[p], Timeout(p, e) PROVE WorldInv'
    BY <2>11, ResendWorld
  <2>12. ASSUME NEW p \in Providers, Crash(p) PROVE WorldInv'
    BY <2>12, CrashWorld
  <2>13. ASSUME NEW p \in Providers, Restart(p) PROVE WorldInv'
    BY <2>13, RestartWorld
  <2>14. ASSUME NEW m \in net, Lose(m) PROVE WorldInv'
    BY <2>14, LoseWorld
  <2>15. CASE UNCHANGED svars
    BY <2>15, QuietWorld DEF svars, vars
  <2>16. QED
    BY <2>1, <2>2, <2>3, <2>4, <2>5, <2>6, <2>7, <2>8, <2>9, <2>10, <2>11, <2>12,
       <2>13, <2>14, <2>15 DEF SwarmNext
<1>4. QED  BY <1>2, <1>3 DEF WorldInv, SwarmInv

(***************************************************************************)
(* The composed system keeps its invariant: no provider is asked for, and  *)
(* none uploads, resends or has in flight, bytes of a chunk that it does   *)
(* not find in its has-chunk file and was not sent a GET for.              *)
(***************************************************************************)
THEOREM SwarmInvariance == SwarmSpec => []SwarmInv
BY SwarmStart, SwarmStep, PTL DEF SwarmSpec

(***************************************************************************)
(* Every variable of every peer, and every packet in flight, has its type. *)
(***************************************************************************)
THEOREM SwarmTyped == SwarmSpec => []SwarmTypeOK
<1>1. SwarmInv => SwarmTypeOK
  <2>. SUFFICES ASSUME SwarmInv PROVE SwarmTypeOK
    OBVIOUS
  <2>1. TypeOK
    BY InvariantTyped DEF SwarmInv
  <2>2. \A m \in net : m.peer \in Providers
    BY PacketsRead DEF SwarmInv, NetInv
  <2>3. QED  BY <2>1, <2>2 DEF SwarmInv, ProviderInv, SwarmTypeOK
<1>2. QED  BY <1>1, SwarmInvariance, PTL

(***************************************************************************)
(* handle_packet at the providers, their timers, their crashes and the     *)
(* network never do more to the downloading peer than the most general     *)
(* peers of Download: what is proved of Download holds of the whole.       *)
(***************************************************************************)
THEOREM DownloadImplemented == SwarmSpec => ImplementsDownload
<1>1. SwarmInit => Init
  BY DEF SwarmInit
<1>2. SwarmInv /\ [SwarmNext]_svars => [Next]_vars
  BY PeerStep
<1>3. QED  BY <1>1, <1>2, SwarmInvariance, PTL DEF SwarmSpec, Spec, ImplementsDownload

-----------------------------------------------------------------------------
(***************************************************************************)
(* Both ends of a transfer.  The strengthening EndsAgree needs: a GET on   *)
(* its way to a running provider belongs to a buffer that waits for it or  *)
(* to one that is full already.                                            *)
(***************************************************************************)
Waiting(list, p, c) ==
  \E k \in DOMAIN list : list[k].busy /\ list[k].socket = p /\ list[k].offset = c

Complete(list, p, c) ==
  \E k \in DOMAIN list : list[k].socket = p /\ list[k].offset = c /\ Full(list[k])

Sends(p, c) ==
  IF data[p] = NoUpload THEN p \in crashed
  ELSE data[p].offset = c \/ Complete(recvList, p, data[p].offset)

GetsPending ==
  \A p \in alive, c \in Offsets :
     Get(p, c) \in net => Waiting(recvList, p, c) \/ Complete(recvList, p, c)

GetsHandled ==
  \A p \in alive, c \in Offsets :
     Waiting(recvList, p, c) /\ Get(p, c) \notin net => Sends(p, c)

AgreeInv == GetsPending /\ GetsHandled

(***************************************************************************)
(* A peer has at most one buffer that waits.                               *)
(***************************************************************************)
LEMMA OneWaiting ==
  ASSUME DInv, NEW p, NEW c, NEW d, Waiting(recvList, p, c), Waiting(recvList, p, d)
  PROVE  c = d
<1>1. PICK k \in DOMAIN recvList : recvList[k].busy /\ recvList[k].socket = p /\ recvList[k].offset = c
  BY DEF Waiting
<1>2. PICK l \in DOMAIN recvList : recvList[l].busy /\ recvList[l].socket = p /\ recvList[l].offset = d
  BY DEF Waiting
<1>3. k \in Nat /\ l \in Nat /\ k >= 1 /\ l >= 1
  BY DEF DInv
<1>4. k \in 1..(l - 1) \/ l \in 1..(k - 1) \/ k = l
  BY <1>3
<1>5. ~(k \in 1..(l - 1)) /\ ~(l \in 1..(k - 1))
  BY <1>1, <1>2 DEF DInv, BusyIsNewest
<1>6. QED  BY <1>1, <1>2, <1>4, <1>5

(***************************************************************************)
(* What the operations on the list do to waiting and complete buffers.     *)
(***************************************************************************)
LEMMA ReleasedEnds ==
  ASSUME NEW l \in Seq(Buffers), NEW cs, NEW p, NEW c
  PROVE  /\ Waiting(ReleaseBuffers(l, cs), p, c) <=> Waiting(l, p, c) /\ c \notin cs
         /\ Complete(ReleaseBuffers(l, cs), p, c) <=> Complete(l, p, c)
<1>. DEFINE m == ReleaseBuffers(l, cs)
<1>1. DOMAIN m = DOMAIN l
  BY DEF ReleaseBuffers
<1>2. \A k \in DOMAIN l : l[k] \in Buffers
  OBVIOUS
<1>3. \A k \in DOMAIN l : m[k] = IF l[k].offset \in cs
                                  THEN [l[k] EXCEPT !.busy = FALSE] ELSE l[k]
  BY DEF ReleaseBuffers
<1>. HIDE DEF m
<1>4. \A k \in DOMAIN l : /\ m[k].socket = l[k].socket /\ m[k].offset = l[k].offset
                          /\ m[k].chunks = l[k].chunks
                          /\ m[k].busy <=> (l[k].busy /\ l[k].offset \notin cs)
  BY <1>2, <1>3 DEF Buffers
<1>5. \A k \in DOMAIN l : Full(m[k]) <=> Full(l[k])
  BY <1>4 DEF Full, Recved
<1>6. Waiting(m, p, c) <=> Waiting(l, p, c) /\ c \notin cs
  BY <1>1, <1>4 DEF Waiting
<1>7. Complete(m, p, c) <=> Complete(l, p, c)
  BY <1>1, <1>4, <1>5 DEF Complete
<1>8. QED  BY <1>6, <1>7 DEF m

LEMMA StoredEnds ==
  ASSUME NEW l \in Seq(Buffers), NEW k \in DOMAIN l, NEW q \in Seqs, NEW b \in Offsets,
         NEW p, NEW c
  PROVE  /\ Waiting([l EXCEPT ![k] = RecvData(@, q, b)], p, c) <=> Waiting(l, p, c)
         /\ Complete(l, p, c) => Complete([l EXCEPT ![k] = RecvData(@, q, b)], p, c)
<1>. DEFINE r == RecvData(l[k], q, b)
            m == [l EXCEPT ![k] = r]
<1>1. l[k] \in Buffers
  OBVIOUS
<1>2. /\ r.socket = l[k].socket /\ r.offset = l[k].offset /\ r.busy = l[k].busy
      /\ Recved(r) = Recved(l[k]) \cup {q - 1}
  BY <1>1, RecvDataFacts
<1>. HIDE DEF r
<1>3. Full(l[k]) => Full(r)
  <2>1. q - 1 \in Idx
    BY ProtocolAssumption DEF Seqs, Idx
  <2>2. QED  BY <1>2, <2>1 DEF Full
<1>4. /\ DOMAIN m = DOMAIN l
      /\ \A i \in DOMAIN l : /\ m[i].socket = l[i].socket /\ m[i].offset = l[i].offset
                             /\ m[i].busy = l[i].busy
                             /\ Full(l[i]) => Full(m[i])
  BY <1>2, <1>3
<1>. HIDE DEF m
<1>5. Waiting(m, p, c) <=> Waiting(l, p, c)
  BY <1>4 DEF Waiting
<1>6. Complete(l, p, c) => Complete(m, p, c)
  BY <1>4 DEF Complete
<1>7. QED  BY <1>5, <1>6 DEF m, r

LEMMA AddedEnds ==
  ASSUME NEW l \in Seq(Buffers), NEW p \in Peers, NEW c \in Offsets, NEW q, NEW d
  PROVE  /\ Waiting(<<NewBuffer(c, p)>> \o l, q, d) <=>
               Waiting(l, q, d) \/ (q = p /\ d = c)
         /\ Complete(l, q, d) => Complete(<<NewBuffer(c, p)>> \o l, q, d)
<1>. DEFINE b == NewBuffer(c, p)
            m == <<b>> \o l
<1>1. b \in Buffers /\ b.socket = p /\ b.offset = c /\ b.busy = TRUE
  BY ProtocolAssumption DEF NewBuffer, Buffers
<1>. HIDE DEF b
<1>2. /\ DOMAIN m = 1..(Len(l) + 1) /\ m[1] = b /\ Len(l) \in Nat /\ DOMAIN l = 1..Len(l)
      /\ \A k \in 1..Len(l) : m[k + 1] = l[k]
  BY <1>1
<1>. HIDE DEF m
<1>3. ASSUME NEW k \in DOMAIN m, k # 1 PROVE k - 1 \in DOMAIN l /\ m[k] = l[k - 1]
  <2>1. k - 1 \in 1..Len(l) /\ (k - 1) + 1 = k
    BY <1>2, <1>3
  <2>2. QED  BY <1>2, <2>1
<1>4. 1 \in DOMAIN m /\ \A k \in DOMAIN l : k + 1 \in DOMAIN m /\ m[k + 1] = l[k]
  BY <1>2
<1>5. Waiting(m, q, d) => Waiting(l, q, d) \/ (q = p /\ d = c)
  BY <1>1, <1>2, <1>3 DEF Waiting
<1>6. Waiting(l, q, d) => Waiting(m, q, d)
  BY <1>4 DEF Waiting
<1>7. Waiting(m, p, c)
  BY <1>1, <1>2, <1>4 DEF Waiting
<1>8. Complete(l, q, d) => Complete(m, q, d)
  BY <1>4 DEF Complete
<1>9. QED  BY <1>5, <1>6, <1>7, <1>8 DEF m, b

-----------------------------------------------------------------------------
(***************************************************************************)
(* Steps that leave the buffers, the GETs in flight and the chunk of every *)
(* upload alone.                                                           *)
(***************************************************************************)
GetsSame == \A p \in alive, c \in Offsets : Get(p, c) \in net' <=> Get(p, c) \in net

UploadsSame ==
  \A p \in Providers : /\ data'[p] = NoUpload <=> data[p] = NoUpload
                       /\ data'[p].offset = data[p].offset

LEMMA UndisturbedAgree ==
  ASSUME SwarmInv, AgreeInv, GetsSame, UploadsSame, UNCHANGED <<recvList, alive, crashed>>
  PROVE  AgreeInv'
<1>1. GetsPending'
  BY DEF AgreeInv, GetsPending, GetsSame, Waiting, Complete, Get
<1>2. alive \subseteq Providers
  BY DEF SwarmInv, ProviderInv
<1>3. ASSUME NEW p \in alive, NEW c, Sends(p, c) PROVE Sends(p, c)'
  BY <1>2, <1>3 DEF Sends, UploadsSame, Complete
<1>4. ASSUME NEW p \in alive', NEW c \in Offsets, Waiting(recvList', p, c), Get(p, c) \notin net'
      PROVE  Sends(p, c)'
  BY <1>3, <1>4 DEF AgreeInv, GetsHandled, GetsSame
<1>5. GetsHandled'
  BY <1>4 DEF GetsHandled, Waiting, Get
<1>6. QED  BY <1>1, <1>5 DEF AgreeInv

(***************************************************************************)
(* A provider whose upload stays sends what it did.                        *)
(***************************************************************************)
LEMMA SendsKept ==
  ASSUME NEW p, NEW c, Sends(p, c), data' = data, crashed' = crashed,
         \A d : Complete(recvList, p, d) => Complete(recvList', p, d)
  PROVE  Sends(p, c)'
<1>1. Sends(p, c)' <=> IF data'[p] = NoUpload THEN p \in crashed'
                       ELSE data'[p].offset = c \/ Complete(recvList', p, data'[p].offset)
  BY DEF Sends, Complete
<1>2. QED  BY <1>1 DEF Sends

(***************************************************************************)
(* A packet of another type is no GET.                                     *)
(***************************************************************************)
LEMMA NotGet ==
  ASSUME NEW m, NEW p, NEW c, m.type # "GET"
  PROVE  m # Get(p, c)
BY DEF Get

LEMMA GetsSameWithout ==
  ASSUME \A m \in net' : m \in net \/ m.type # "GET",
         \A m \in net : m \in net' \/ m.type # "GET"
  PROVE  GetsSame
BY NotGet DEF GetsSame

(***************************************************************************)
(* The new buffer waits and its GET is in flight; nobody else of that peer *)
(* is waiting.                                                             *)
(***************************************************************************)
LEMMA IHaveAgree ==
  ASSUME SwarmInv, AgreeInv, NEW m \in net, m.type = "IHAVE",
         RecvIHave(m.peer, m.list),
         net' = (net \ {m}) \cup {Get(m.peer, m.list[k]) : k \in Accepted(m.peer, m.list)},
         UNCHANGED <<pvars, losses>>
  PROVE  AgreeInv'
<1>1. m.peer \in Providers /\ m.peer \in Peers /\ m.list \in Seq(wanted)
  BY PacketsRead, SwarmAssumption DEF SwarmInv, NetInv
<1>2. PICK k \in Accepted(m.peer, m.list) :
        recvList' = <<NewBuffer(m.list[k], m.peer)>> \o recvList
  BY DEF RecvIHave
<1>. DEFINE c == m.list[k]
            p == m.peer
<1>3. c \in Offsets
  BY <1>1 DEF Accepted, SwarmInv, DInv
<1>4. Get(p, c) \in net' /\ \A n \in net' : n \in net \/ n = Get(p, c)
  BY <1>1, AcceptedOne
<1>5. \A q \in alive, d \in Offsets : Get(q, d) \in net => Get(q, d) \in net'
  BY NotGet
<1>6. recvList \in Seq(Buffers)
  BY DEF SwarmInv, DInv
<1>. HIDE DEF c, p
<1>7. \A q, d : /\ Waiting(recvList', q, d) <=> Waiting(recvList, q, d) \/ (q = p /\ d = c)
                /\ Complete(recvList, q, d) => Complete(recvList', q, d)
  BY <1>1, <1>2, <1>3, <1>6, AddedEnds DEF c, p
<1>8. ASSUME NEW q, NEW d, Get(q, d) = Get(p, c) PROVE q = p /\ d = c
  BY <1>8 DEF Get
<1>9. UNCHANGED <<data, alive, crashed>>
  BY DEF pvars
<1>10. ASSUME NEW q \in alive', NEW d \in Offsets, Get(q, d) \in net'
       PROVE  Waiting(recvList', q, d) \/ Complete(recvList', q, d)
  BY <1>4, <1>7, <1>8, <1>9, <1>10 DEF AgreeInv, GetsPending
<1>11. ASSUME NEW q \in alive', NEW d \in Offsets, Waiting(recvList', q, d), Get(q, d) \notin net'
       PROVE  Sends(q, d)'
  <2>1. Waiting(recvList, q, d) /\ Get(q, d) \notin net /\ q \in alive
    BY <1>4, <1>5, <1>7, <1>9, <1>11
  <2>2. Sends(q, d)
    BY <2>1 DEF AgreeInv, GetsHandled
  <2>3. QED  BY <1>7, <1>9, <2>2, SendsKept
<1>12. QED  BY <1>10, <1>11 DEF AgreeInv, GetsPending, GetsHandled, Waiting, Complete, Get

(***************************************************************************)
(* A DATA packet releases only buffers that are complete.                  *)
(***************************************************************************)
LEMMA DataEnds ==
  ASSUME DInv, FileInv, NEW p \in Peers, NEW q \in Seqs, NEW b \in Offsets, RecvDataPkt(p, q, b),
         NEW r, NEW c
  PROVE  /\ Waiting(recvList', r, c) => Waiting(recvList, r, c)
         /\ Complete(recvList, r, c) => Complete(recvList', r, c)
         /\ Waiting(recvList, r, c) => Waiting(recvList', r, c) \/ Complete(recvList', r, c)
<1>1. PICK k \in Target(p) : CheckFileManager([recvList EXCEPT ![k] = RecvData(@, q, b)])
  BY DEF RecvDataPkt
<1>. DEFINE l == [recvList EXCEPT ![k] = RecvData(@, q, b)]
            cs == {manager.offset[i] : i \in Done(l)}
<1>2. recvList \in Seq(Buffers) /\ k \in DOMAIN recvList
  BY DEF DInv, Target
<1>3. l \in Seq(Buffers)
  BY <1>2, Stored DEF DInv, BusyIsNewest, InOrder
<1>4. /\ Waiting(l, r, c) <=> Waiting(recvList, r, c)
      /\ Complete(recvList, r, c) => Complete(l, r, c)
  BY <1>2, StoredEnds
<1>5. recvList' = l \/ recvList' = ReleaseBuffers(l, cs)
  BY <1>1 DEF CheckFileManager
<1>. HIDE DEF l
<1>6. \A d \in cs : IsBufferFull(l, d)
  <2>. SUFFICES ASSUME NEW i \in Done(l) PROVE IsBufferFull(l, manager.offset[i])
    OBVIOUS
  <2>1. i \in DOMAIN manager.offset /\ \A j \in 1..i : IsBufferFull(l, manager.offset[j])
    BY DEF Done
  <2>2. manager.offset \in Seq(Offsets)
    BY DEF FileInv, Managers
  <2>3. i \in 1..i
    BY <2>1, <2>2
  <2>4. QED  BY <2>1, <2>3
<1>. HIDE DEF cs
<1>7. CASE recvList' = l
  BY <1>4, <1>7
<1>8. CASE recvList' = ReleaseBuffers(l, cs)
  <2>1. /\ Waiting(recvList', r, c) <=> Waiting(l, r, c) /\ c \notin cs
        /\ Complete(recvList', r, c) <=> Complete(l, r, c)
    BY <1>3, <1>8, ReleasedEnds
  <2>2. Waiting(l, r, c) /\ c \in cs => Complete(l, r, c)
    BY <1>6 DEF Waiting, Complete, IsBufferFull
  <2>3. QED  BY <1>4, <2>1, <2>2
<1>9. QED  BY <1>5, <1>7, <1>8

LEMMA DataAgree ==
  ASSUME SwarmInv, AgreeInv, NEW m \in net, MeRecvDataPkt(m)
  PROVE  AgreeInv'
<1>1. m.type = "DATA" /\ m \in Messages(wanted)
  BY DEF MeRecvDataPkt, Flight, SwarmInv, NetInv
<1>2. m.peer \in Peers /\ m.seq \in Seqs /\ m.offset \in Offsets
  BY <1>1, PacketsRead, SwarmAssumption
<1>3. \A p, c : /\ Waiting(recvList', p, c) => Waiting(recvList, p, c)
                /\ Complete(recvList, p, c) => Complete(recvList', p, c)
                /\ Waiting(recvList, p, c) => Waiting(recvList', p, c) \/ Complete(recvList', p, c)
  BY <1>2, DataEnds DEF MeRecvDataPkt, SwarmInv
<1>4. GetsSame
  <2>1. \A n \in net' : n \in net \/ n.type # "GET"
    BY DEF MeRecvDataPkt, Ack
  <2>2. \A n \in net : n \in net' \/ n.type # "GET"
    BY <1>1 DEF MeRecvDataPkt
  <2>3. QED  BY <2>1, <2>2, GetsSameWithout
<1>5. UNCHANGED <<data, alive, crashed>>
  BY DEF MeRecvDataPkt, pvars
<1>6. ASSUME NEW p \in alive', NEW c \in Offsets, Get(p, c) \in net'
      PROVE  Waiting(recvList', p, c) \/ Complete(recvList', p, c)
  BY <1>3, <1>4, <1>5, <1>6 DEF AgreeInv, GetsPending, GetsSame
<1>7. ASSUME NEW p \in alive', NEW c \in Offsets, Waiting(recvList', p, c), Get(p, c) \notin net'
      PROVE  Sends(p, c)'
  <2>1. Sends(p, c)
    BY <1>3, <1>4, <1>5, <1>7 DEF AgreeInv, GetsHandled, GetsSame
  <2>2. QED  BY <1>3, <1>5, <2>1, SendsKept
<1>8. QED  BY <1>6, <1>7 DEF AgreeInv, GetsPending, GetsHandled, Waiting, Complete, Get

(***************************************************************************)
(* A chunk timer releases no buffer whose GET is on its way to a running   *)
(* provider: packets travel faster than the timer.                         *)
(***************************************************************************)
LEMMA ChunkTimeoutAgree ==
  ASSUME SwarmInv, AgreeInv, NEW K \in Expirable, MeChunkTimeout(K)
  PROVE  AgreeInv'
<1>. DEFINE B == {manager.offset[k] : k \in K}
<1>1. /\ \A b \in B : ~Busy(b)
      /\ recvList' = ReleaseBuffers(recvList, B)
      /\ \A n \in net' : n \in net \/ \E k \in K : n \in Broadcast(<<manager.offset[k]>>)
      /\ net \subseteq net' /\ UNCHANGED <<data, alive, crashed>>
  BY DEF MeChunkTimeout, ChunkTimeout, pvars
<1>. HIDE DEF B
<1>2. \A p, c : /\ Waiting(recvList', p, c) <=> Waiting(recvList, p, c) /\ c \notin B
                /\ Complete(recvList', p, c) <=> Complete(recvList, p, c)
  BY <1>1, ReleasedEnds DEF SwarmInv, DInv
<1>3. GetsSame
  <2>1. \A n \in net' : n \in net \/ n.type # "GET"
    BY <1>1 DEF Broadcast, Whohas
  <2>2. QED  BY <1>1, <2>1, GetsSameWithout
<1>4. ASSUME NEW p \in alive, NEW b \in B, Waiting(recvList, p, b)
      PROVE  Get(p, b) \notin net
  BY <1>1, <1>4 DEF Waiting, Busy, Active
<1>5. ASSUME NEW p \in alive', NEW c \in Offsets, Get(p, c) \in net'
      PROVE  Waiting(recvList', p, c) \/ Complete(recvList', p, c)
  <2>1. p \in alive /\ Get(p, c) \in net
    BY <1>1, <1>3, <1>5 DEF GetsSame
  <2>2. Waiting(recvList, p, c) \/ Complete(recvList, p, c)
    BY <2>1 DEF AgreeInv, GetsPending
  <2>3. Waiting(recvList, p, c) => c \notin B
    BY <1>4, <2>1
  <2>4. QED  BY <1>2, <2>2, <2>3
<1>6. ASSUME NEW p \in alive', NEW c \in Offsets, Waiting(recvList', p, c), Get(p, c) \notin net'
      PROVE  Sends(p, c)'
  <2>1. Sends(p, c)
    BY <1>1, <1>2, <1>3, <1>6 DEF AgreeInv, GetsHandled, GetsSame
  <2>2. QED  BY <1>1, <1>2, <2>1, SendsKept
<1>7. QED  BY <1>5, <1>6 DEF AgreeInv, GetsPending, GetsHandled, Waiting, Complete, Get

(***************************************************************************)
(* A provider that handles a GET sends what is waited for, or what is      *)
(* complete.                                                               *)
(***************************************************************************)
LEMMA GetAgree ==
  ASSUME SwarmInv, AgreeInv, NEW m \in net, RecvGet(m)
  PROVE  AgreeInv'
<1>. DEFINE p == m.peer
            c == m.offset
<1>1. m.type = "GET" /\ m \in Messages(wanted)
  BY DEF RecvGet, Flight, SwarmInv, NetInv
<1>2. m = Get(p, c) /\ c \in Offsets /\ p \in alive /\ p \in Providers
  BY <1>1, PacketsRead DEF RecvGet
<1>3. UNCHANGED <<recvList, alive, crashed>>
  BY DEF RecvGet, vars
<1>4. PICK g \in Garbage :
        /\ data' = [data EXCEPT ![p] = SendData(InitDatalist(c, g))]
        /\ net' = (net \ {m}) \cup {DataPkt(p, q, c) : q \in SentSeqs(InitDatalist(c, g))}
  BY DEF RecvGet
<1>. DEFINE d == SendData(InitDatalist(c, g))
<1>5. d \in Data /\ d.offset = c /\ d # NoUpload
  BY <1>2, FirstSend, SwarmAssumption
<1>. HIDE DEF d
<1>6. \A q \in Providers : data'[q] = IF q = p THEN d ELSE data[q]
  BY <1>2, <1>4 DEF d, SwarmInv, ProviderInv
<1>7. \A n \in net' : (n \in net /\ n # m) \/ n.type # "GET"
  BY <1>4 DEF DataPkt
<1>8. \A n \in net : n \in net' \/ n = m
  BY <1>4
<1>. HIDE DEF p, c
<1>9. ASSUME NEW q \in alive', NEW e \in Offsets, Get(q, e) \in net'
      PROVE  Waiting(recvList', q, e) \/ Complete(recvList', q, e)
  <2>1. Get(q, e) \in net
    BY <1>7, <1>9, NotGet
  <2>2. QED  BY <1>3, <2>1 DEF AgreeInv, GetsPending
<1>10. ASSUME NEW q \in alive', NEW e \in Offsets, Waiting(recvList', q, e), Get(q, e) \notin net'
       PROVE  Sends(q, e)'
  <2>1. q \in alive /\ q \in Providers /\ Waiting(recvList, q, e)
    BY <1>3, <1>10 DEF SwarmInv, ProviderInv
  <2>2. CASE q = p
    <3>1. data'[q] = d
      BY <1>6, <2>1, <2>2
    <3>2. Waiting(recvList, p, c) \/ Complete(recvList, p, c)
      BY <1>2 DEF AgreeInv, GetsPending
    <3>3. Waiting(recvList, p, c) => e = c
      BY <2>1, <2>2, OneWaiting DEF SwarmInv
    <3>4. e = c \/ Complete(recvList', q, c)
      BY <1>3, <2>2, <3>2, <3>3
    <3>5. QED  BY <1>5, <3>1, <3>4 DEF Sends, Complete
  <2>3. CASE q # p
    <3>1. Get(q, e) # m
      BY <1>2, <2>3 DEF Get
    <3>2. Get(q, e) \notin net
      BY <1>8, <1>10, <3>1
    <3>3. Sends(q, e)
      BY <2>1, <3>2 DEF AgreeInv, GetsHandled
    <3>4. data'[q] = data[q]
      BY <1>6, <2>1, <2>3
    <3>5. QED  BY <1>3, <3>3, <3>4 DEF Sends, Complete
  <2>4. QED  BY <2>2, <2>3
<1>11. QED  BY <1>9, <1>10 DEF AgreeInv, GetsPending, GetsHandled, Waiting, Complete, Get

(***************************************************************************)
(* A crash, and a restart that finds no GET on the way.                    *)
(***************************************************************************)
LEMMA CrashAgree ==
  ASSUME SwarmInv, AgreeInv, NEW p \in Providers, Crash(p)
  PROVE  AgreeInv'
<1>1. /\ UNCHANGED <<recvList, net>> /\ alive' = alive \ {p} /\ crashed \subseteq crashed'
      /\ data' = [data EXCEPT ![p] = NoUpload]
  BY DEF Crash, vars
<1>2. \A q \in alive' : q \in alive /\ data'[q] = data[q]
  BY <1>1 DEF SwarmInv, ProviderInv
<1>3. GetsPending'
  BY <1>1, <1>2 DEF AgreeInv, GetsPending, Waiting, Complete, Get
<1>4. ASSUME NEW q \in alive', NEW c, Sends(q, c) PROVE Sends(q, c)'
  BY <1>1, <1>2, <1>4 DEF Sends, Complete
<1>5. ASSUME NEW q \in alive', NEW c \in Offsets, Waiting(recvList', q, c), Get(q, c) \notin net'
      PROVE  Sends(q, c)'
  BY <1>1, <1>2, <1>4, <1>5 DEF AgreeInv, GetsHandled
<1>6. QED  BY <1>3, <1>5 DEF AgreeInv, GetsHandled, Waiting, Get

LEMMA RestartAgree ==
  ASSUME SwarmInv, AgreeInv, NEW p \in Providers, Restart(p)
  PROVE  AgreeInv'
<1>1. /\ UNCHANGED <<recvList, data, crashed>> /\ p \notin alive /\ alive' = alive \cup {p}
      /\ net' = {m \in net : m.peer # p \/ m.type \in {"IHAVE", "DATA"}}
  BY DEF Restart, vars
<1>2. data[p] = NoUpload /\ p \in crashed
  BY <1>1 DEF SwarmInv, ProviderInv
<1>3. \A c : Get(p, c) \notin net'
  BY <1>1 DEF Get
<1>4. \A q, c : q # p => (Get(q, c) \in net' <=> Get(q, c) \in net)
  BY <1>1 DEF Get
<1>5. ASSUME NEW q \in alive', NEW c \in Offsets, Get(q, c) \in net'
      PROVE  Waiting(recvList', q, c) \/ Complete(recvList', q, c)
  BY <1>1, <1>3, <1>4, <1>5 DEF AgreeInv, GetsPending
<1>6. ASSUME NEW q \in alive', NEW c \in Offsets, Waiting(recvList', q, c), Get(q, c) \notin net'
      PROVE  Sends(q, c)'
  <2>1. CASE q = p
    BY <1>1, <1>2, <2>1 DEF Sends
  <2>2. CASE q # p
    <3>1. Sends(q, c)
      BY <1>1, <1>4, <1>6, <2>2 DEF AgreeInv, GetsHandled
    <3>2. QED  BY <1>1, <3>1 DEF Sends, Complete
  <2>3. QED  BY <2>1, <2>2
<1>7. QED  BY <1>5, <1>6 DEF AgreeInv, GetsPending, GetsHandled, Waiting, Complete, Get
(***************************************************************************)
(* Packets that are no GETs change nothing at either end.                  *)
(***************************************************************************)
LEMMA QuietAgree ==
  ASSUME SwarmInv, AgreeInv, UNCHANGED <<recvList, data, alive, crashed>>,
         \A m \in net' : m \in net \/ m.type # "GET",
         \A m \in net : m \in net' \/ m.type # "GET"
  PROVE  AgreeInv'
<1>1. GetsSame
  BY GetsSameWithout
<1>2. UploadsSame
  BY DEF UploadsSame
<1>3. QED  BY <1>1, <1>2, UndisturbedAgree

(***************************************************************************)
(* An ACK moves the window of an upload, never its chunk.                  *)
(***************************************************************************)
LEMMA AckAgree ==
  ASSUME SwarmInv, AgreeInv, NEW m \in net, RecvAck(m)
  PROVE  AgreeInv'
<1>. DEFINE p == m.peer
            d == data[p]
            h == HandleAck(d, Me, m.ack - 1)
<1>1. m \in Messages(wanted) /\ m.type = "ACK"
  BY DEF RecvAck, Flight, SwarmInv, NetInv
<1>2. p \in Providers /\ m.ack \in Seqs
  BY <1>1, PacketsRead
<1>3. /\ data' = [data EXCEPT ![p] = h.data]
      /\ net' = (net \ {m}) \cup {DataPkt(p, q, d.offset) : q \in h.out}
      /\ d # NoUpload
  <2>1. PICK e \in {d}, k \in {h} :
          /\ data' = [data EXCEPT ![p] = k.data]
          /\ net' = (net \ {m}) \cup {DataPkt(p, q, e.offset) : q \in k.out}
    BY Zenon DEF RecvAck
  <2>2. e = d /\ k = h /\ d # NoUpload
    BY Zenon DEF RecvAck
  <2>3. QED  BY <2>1, <2>2, Zenon
<1>4. d \in Data /\ Shape(d)
  BY <1>2, <1>3 DEF SwarmInv, ProviderInv, UploadOK
<1>5. m.ack - 1 \in AckIndices
  BY <1>2, ProtocolAssumption DEF Seqs, AckIndices
<1>6. AckOutcome(h, d, m.ack - 1)
  BY <1>4, <1>5, HandleAckFacts
<1>. HIDE DEF h
<1>7. h.data \in Data /\ h.data.offset = d.offset /\ h.data # NoUpload
  BY <1>6, SwarmAssumption DEF AckOutcome
<1>8. UploadsSame
  BY <1>2, <1>3, <1>7 DEF UploadsSame, SwarmInv, ProviderInv
<1>9. GetsSame
  <2>1. \A n \in net' : n \in net \/ n.type # "GET"
    BY <1>3 DEF DataPkt
  <2>2. \A n \in net : n \in net' \/ n.type # "GET"
    BY <1>1, <1>3
  <2>3. QED  BY <2>1, <2>2, GetsSameWithout
<1>10. UNCHANGED <<recvList, alive, crashed>>
  BY DEF RecvAck, vars
<1>11. QED  BY <1>8, <1>9, <1>10, UndisturbedAgree

LEMMA AgreeStart == SwarmInit => AgreeInv
BY DEF SwarmInit, Init, AgreeInv, GetsPending, GetsHandled, Waiting

LEMMA AgreeStep ==
  ASSUME "GET" \notin Lossy
  PROVE  SwarmInv /\ AgreeInv /\ [SwarmNext]_svars => AgreeInv'
<1>. SUFFICES ASSUME SwarmInv, AgreeInv, [SwarmNext]_svars PROVE AgreeInv'
  OBVIOUS
<1>1. ASSUME NEW job \in Jobs, MeUserGet(job) PROVE AgreeInv'
  <2>1. UNCHANGED <<recvList, data, alive, crashed>>
    BY <1>1 DEF MeUserGet, UserGet, pvars
  <2>2. \A m \in net' : m \in net \/ m.type # "GET"
    BY <1>1 DEF MeUserGet, Broadcast, Whohas
  <2>3. \A m \in net : m \in net'
    BY <1>1 DEF MeUserGet
  <2>4. QED  BY <2>1, <2>2, <2>3, QuietAgree
<1>2. CASE MeUserGetMissing
  BY <1>2, QuietAgree DEF MeUserGetMissing, UserGetMissing, pvars
<1>3. ASSUME NEW k \in Malformed, MeUserGetMalformed(k) PROVE AgreeInv'
  BY <1>3, QuietAgree DEF MeUserGetMalformed, UserGetMalformed, pvars
<1>4. ASSUME NEW m \in net, MeRecvIHave(m) PROVE AgreeInv'
  <2>1. m.type = "IHAVE" /\ UNCHANGED <<pvars, losses>>
    BY <1>4 DEF MeRecvIHave, Flight
  <2>2. CASE UNCHANGED vars /\ net' = net \ {m}
    BY <2>1, <2>2, QuietAgree DEF vars, pvars
  <2>3. QED  BY <1>4, <2>1, <2>2, IHaveAgree DEF MeRecvIHave
<1>5. ASSUME NEW m \in net, MeRecvDataPkt(m) PROVE AgreeInv'
  BY <1>5, DataAgree
<1>6. ASSUME NEW K \in Expirable, MeChunkTimeout(K) PROVE AgreeInv'
  BY <1>6, ChunkTimeoutAgree
<1>7. ASSUME NEW m \in net, RecvWhohas(m) PROVE AgreeInv'
  <2>1. UNCHANGED <<recvList, data, alive, crashed>> /\ m.type = "WHOHAS"
    BY <1>7 DEF RecvWhohas, vars, pvars, Flight
  <2>2. \A n \in net' : n \in net \/ n.type # "GET"
    BY <1>7 DEF RecvWhohas, Ihave
  <2>3. \A n \in net : n \in net' \/ n.type # "GET"
    BY <1>7, <2>1 DEF RecvWhohas
  <2>4. QED  BY <2>1, <2>2, <2>3, QuietAgree
<1>8. ASSUME NEW m \in net, RecvGet(m) PROVE AgreeInv'
  BY <1>8, GetAgree
<1>9. ASSUME NEW m \in net, RecvAck(m) PROVE AgreeInv'
  BY <1>9, AckAgree
<1>10. ASSUME NEW m \in net, RecvAckUnknown(m) PROVE AgreeInv'
  BY <1>10, QuietAgree DEF RecvAckUnknown, vars, pvars, Flight
<1>11. ASSUME NEW p \in Providers, NEW e \in tracker[p], Timeout(p, e) PROVE AgreeInv'
  BY <1>11, QuietAgree DEF Timeout, vars, pvars, DataPkt
<1>12. ASSUME NEW p \in Providers, Crash(p) PROVE AgreeInv'
  BY <1>12, CrashAgree
<1>13. ASSUME NEW p \in Providers, Restart(p) PROVE AgreeInv'
  BY <1>13, RestartAgree
<1>14. ASSUME NEW m \in net, Lose(m) PROVE AgreeInv'
  BY <1>14, QuietAgree DEF Lose, vars, pvars
<1>15. CASE UNCHANGED svars
  BY <1>15, QuietAgree DEF svars, vars, pvars
<1>16. QED
  BY <1>1, <1>2, <1>3, <1>4, <1>5, <1>6, <1>7, <1>8, <1>9, <1>10, <1>11, <1>12,
     <1>13, <1>14, <1>15 DEF SwarmNext

(***************************************************************************)
(* On a network that loses no GET, init_recv_buffer and the handler of GET *)
(* keep the two ends together: a provider that runs and has handled the    *)
(* GET of a busy buffer sends that chunk, or one that is complete, unless  *)
(* a crash made it forget.                                                 *)
(***************************************************************************)
THEOREM EndsStayTogether ==
  ASSUME "GET" \notin Lossy
  PROVE  SwarmSpec => []EndsAgree
<1>1. SwarmInv /\ AgreeInv => EndsAgree
  <2>. SUFFICES ASSUME SwarmInv, AgreeInv, NEW k \in DOMAIN recvList, recvList[k].busy,
                       recvList[k].socket \in alive,
                       Get(recvList[k].socket, recvList[k].offset) \notin net
                PROVE  Sends(recvList[k].socket, recvList[k].offset)
    BY DEF EndsAgree, Sends, Complete, FullFrom
  <2>1. recvList[k] \in Buffers
    BY DEF SwarmInv, DInv
  <2>2. recvList[k].offset \in Offsets
    BY <2>1 DEF Buffers
  <2>3. Waiting(recvList, recvList[k].socket, recvList[k].offset)
    BY DEF Waiting
  <2>4. QED  BY <2>2, <2>3 DEF AgreeInv, GetsHandled
<1>2. SwarmInv /\ AgreeInv /\ [SwarmNext]_svars => AgreeInv'
  BY AgreeStep
<1>3. QED  BY <1>1, <1>2, AgreeStart, SwarmInvariance, PTL DEF SwarmSpec-----------------------------------------------------------------------------
(***************************************************************************)
(* The contents of the file.  A DATA packet names no chunk, so the file    *)
(* can only be trusted where no provider finds two chunks.                 *)
(***************************************************************************)
OneChunkEach ==
  \A p \in Providers, c, d \in Offsets : FindInLocalHas(p, c) /\ FindInLocalHas(p, d) => c = d

RightFile(file, chunks) ==
  \A k \in DOMAIN file : \A i \in Idx : file[k][i] = chunks[k]

LEMMA WrittenRight ==
  ASSUME OneChunkEach, SwarmInv, OriginInv, [SwarmNext]_svars, output' # output
  PROVE  RightFile(output', manager'.offset)
<1>1. FromAsked(output', manager'.offset, asked)
  BY PeerStep, WrittenFromAsked DEF SwarmInv
<1>2. ASSUME NEW k \in DOMAIN output', NEW i \in Idx PROVE output'[k][i] = manager'.offset[k]
  <2>. DEFINE c == manager'.offset[k]
              d == output'[k][i]
  <2>1. PICK p : <<p, c>> \in asked /\ <<p, d>> \in asked
    BY <1>1 DEF FromAsked
  <2>. HIDE DEF c, d
  <2>2. /\ p \in Providers /\ c \in wanted /\ d \in wanted
        /\ FindInLocalHas(p, c) /\ FindInLocalHas(p, d)
    BY <2>1 DEF SwarmInv, AskedInv, Askable
  <2>3. c \in Offsets /\ d \in Offsets
    BY <2>2 DEF SwarmInv, DInv
  <2>4. c = d
    BY <2>2, <2>3 DEF OneChunkEach
  <2>5. QED  BY <2>4 DEF c, d
<1>3. QED  BY <1>2 DEF RightFile

LEMMA OriginKept == SwarmInv /\ OriginInv /\ [SwarmNext]_svars => OriginInv'
BY PeerStep, OriginStep DEF SwarmInv

(***************************************************************************)
(* Every file check_file_manager writes, whatever the number of commands   *)
(* and whatever is lost, resent, released or crashes on the way, holds the *)
(* bytes of the chunks the file manager lists at that moment.              *)
(***************************************************************************)
THEOREM EveryFileRight ==
  ASSUME OneChunkEach
  PROVE  SwarmSpec => [][output' # output => RightFile(output', manager'.offset)]_vars
<1>1. SwarmInit => OriginInv
  BY OriginInit DEF SwarmInit
<1>2. SwarmInv /\ OriginInv /\ [SwarmNext]_svars =>
        [output' # output => RightFile(output', manager'.offset)]_vars
  BY WrittenRight
<1>3. QED  BY <1>1, <1>2, OriginKept, SwarmInvariance, PTL DEF SwarmSpec

(***************************************************************************)
(* Before the first command there is no file and no list of chunks; later  *)
(* commands replace the list and leave the file.                           *)
(***************************************************************************)
Unstarted == jobs = 0 => output = NoFile /\ ~manager.init

LEMMA UnstartedKept ==
  ASSUME SwarmInv, Unstarted, [SwarmNext]_svars
  PROVE  Unstarted'
<1>1. [Next]_vars
  BY PeerStep
<1>2. jobs \in Nat
  BY DownloadAssumption DEF SwarmInv, FileInv
<1>3. ASSUME NEW pc \in asked, NEW q \in Seqs, RecvDataPkt(pc[1], q, pc[2]), ~manager.init
      PROVE  UNCHANGED <<output, manager, jobs>>
  BY <1>3, Zenon DEF RecvDataPkt, CheckFileManager
<1>4. ASSUME NEW pc \in asked, NEW q \in Seqs, RecvDataPkt(pc[1], q, pc[2]) PROVE jobs' = jobs
  BY <1>4 DEF RecvDataPkt
<1>5. CASE \E pc \in asked, q \in Seqs : RecvDataPkt(pc[1], q, pc[2])
  BY <1>3, <1>4, <1>5 DEF Unstarted
<1>6. CASE UNCHANGED <<output, manager, jobs>>
  BY <1>6 DEF Unstarted
<1>7. CASE jobs' = jobs + 1
  BY <1>2, <1>7 DEF Unstarted
<1>8. QED
  BY <1>1, <1>5, <1>6, <1>7 DEF Next, vars, UserGet, UserGetMissing, UserGetMalformed,
     RecvIHave, ChunkTimeout

LEMMA CommandSteps ==
  ASSUME SwarmInv, [SwarmNext]_svars, manager'.offset # manager.offset
  PROVE  jobs < MaxJobs /\ output' = output
<1>1. [Next]_vars
  BY PeerStep
<1>2. ASSUME NEW l, CheckFileManager(l) PROVE manager'.offset = manager.offset
  <2>. DEFINE e == << >>
  <2>1. manager' = manager \/ manager' = [manager EXCEPT !.init = FALSE, !.array = e]
    BY <1>2 DEF CheckFileManager
  <2>. HIDE DEF e
  <2>2. QED  BY <2>1 DEF SwarmInv, FileInv, Managers
<1>3. ~ \E pc \in asked, q \in Seqs : RecvDataPkt(pc[1], q, pc[2])
  BY <1>2 DEF RecvDataPkt
<1>4. QED
  BY <1>1, <1>3 DEF Next, vars, UserGet, UserGetMissing, UserGetMalformed, RecvIHave, ChunkTimeout

(***************************************************************************)
(* For one GET command: the file, once check_file_manager has written it,  *)
(* holds at every place the bytes of the chunk that belongs there.         *)
(***************************************************************************)
THEOREM FileRight ==
  ASSUME OneChunkEach, MaxJobs = 1
  PROVE  SwarmSpec => []OutputRight
<1>. DEFINE RInv == OriginInv /\ Unstarted /\ OutputRight
<1>1. SwarmInit => RInv
  BY OriginInit DEF SwarmInit, Init, Unstarted, OutputRight
<1>2. SwarmInv /\ RInv /\ [SwarmNext]_svars => RInv'
  <2>. SUFFICES ASSUME SwarmInv, RInv, [SwarmNext]_svars PROVE RInv'
    OBVIOUS
  <2>1. OriginInv' /\ Unstarted'
    BY OriginKept, UnstartedKept
  <2>2. CASE output' # output
    BY <2>1, <2>2, WrittenRight DEF OutputRight, RightFile
  <2>3. CASE output' = output /\ manager'.offset # manager.offset
    <3>1. jobs = 0
      BY <2>3, CommandSteps, DownloadAssumption DEF SwarmInv, FileInv
    <3>2. QED  BY <2>1, <2>3, <3>1 DEF Unstarted, OutputRight
  <2>4. CASE output' = output /\ manager'.offset = manager.offset
    BY <2>1, <2>4 DEF OutputRight
  <2>5. QED  BY <2>2, <2>3, <2>4
<1>3. QED  BY <1>1, <1>2, SwarmInvariance, PTL DEF SwarmSpec-----------------------------------------------------------------------------
(***************************************************************************)
(* Real providers on a real network, too, never make handle_packet write a *)
(* chunk timer outside the array while one well-formed file is fetched: an *)
(* example of what the swarm inherits from Download.                       *)
(***************************************************************************)
THEOREM TimersStayLive ==
  ASSUME Malformed = {}, MaxJobs = 1
  PROVE  SwarmSpec => []TimersLive
<1>1. TimerInv => TimersLive
  BY DEF TimerInv, TimersLive
<1>2. Spec => []TimerInv
  BY TimersInside
<1>3. QED  BY <1>1, <1>2, DownloadImplemented, PTL DEF ImplementsDownload
=============================================================================
