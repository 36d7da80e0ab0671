-------------------------------- MODULE Swarm --------------------------------
(***************************************************************************)
(* One peer downloads a file from others: Download and, for every          *)
(* provider, the WHOHAS handler, the upload of SendWindow and its packet   *)
(* tracker, joined by a UDP network that reorders packets and, up to       *)
(* MaxLoss times, loses one of a type in Lossy.  A provider may crash and  *)
(* be started again.                                                       *)
(*                                                                         *)
(* The network is a set of packets; each handler takes its packet out and  *)
(* puts its answers in.  An action of Me is the action of Download of that *)
(* name and what it takes from and gives to the network; vars is the state *)
(* of Me, svars that of everybody.                                         *)
(***************************************************************************)
EXTENDS SendWindow, Download

CONSTANTS
  Me,           \* the downloading peer
  HasChunks,    \* HasChunks[p]: the has-chunk file of provider p, in order
  NulHash,      \* offsets of the chunks whose binary hash holds a zero byte
  NoUpload,     \* value of data[p] before p has handled a GET
  Mortal,       \* providers that may crash, once each
  Lossy,        \* the types of packets the network may lose
  MaxLoss       \* bound: packets lost

Providers == DOMAIN HasChunks

(***************************************************************************)
(* local_has has room for 100 bytes, the closing zero included.            *)
(***************************************************************************)
ASSUME SwarmAssumption ==
  /\ Me \in Peers
  /\ Providers \subseteq Peers \ {Me}
  /\ \A p \in Providers : HasChunks[p] \in Seq(Offsets) /\ Len(HasChunks[p]) <= 4
  /\ NulHash \subseteq Offsets
  /\ NoUpload \notin Data
  /\ Mortal \subseteq Providers
  /\ Lossy \subseteq {"WHOHAS", "IHAVE", "GET", "DATA", "ACK"}
  /\ MaxLoss \in Nat

VARIABLES
  data,         \* data[p]: the newest data_t of provider p for Me
  tracker,      \* tracker[p]: p_tracker of provider p
  alive,        \* providers that are running
  crashed,      \* providers that have crashed, started again or not
  net,          \* packets in flight
  losses        \* packets lost so far

pvars == <<data, tracker, alive, crashed>>
svars == <<vars, pvars, net, losses>>

(***************************************************************************)
(* Packets between Me and provider p: the header and the body of packet.h  *)
(* with the fields the handlers look at. list is the chunks of a WHOHAS or *)
(* IHAVE in packet order; DATA carries bytes of chunk c but not its name.  *)
(***************************************************************************)
Whohas(p, list) == [type |-> "WHOHAS", peer |-> p, list |-> list]
Ihave(p, list)  == [type |-> "IHAVE", peer |-> p, list |-> list]
Get(p, c)       == [type |-> "GET", peer |-> p, offset |-> c]
DataPkt(p, q, c) == [type |-> "DATA", peer |-> p, seq |-> q, offset |-> c]
Ack(p, n)       == [type |-> "ACK", peer |-> p, ack |-> n]

(***************************************************************************)
(* The packets of a type that are in flight.                               *)
(***************************************************************************)
Flight(type) == {m \in net : m.type = type}

(***************************************************************************)
(* broadcast: to every node but myself.                                    *)
(***************************************************************************)
Broadcast(list) == {Whohas(p, list) : p \in Providers}

SwarmInit ==
  /\ Init
  /\ data = [p \in Providers |-> NoUpload]
  /\ tracker = [p \in Providers |-> {}]
  /\ alive = Providers
  /\ crashed = {}
  /\ net = {}
  /\ losses = 0

-----------------------------------------------------------------------------
(***************************************************************************)
(* The downloading peer.  process_get sends what generate_WHOHAS returns;  *)
(* an unreadable or malformed chunk file sends nothing.                    *)
(***************************************************************************)
MeUserGet(job) ==
  /\ UserGet(job)
  /\ net' = net \cup UNION {Broadcast(Split(job)[k]) : k \in DOMAIN Split(job)}
  /\ UNCHANGED <<pvars, losses>>

MeUserGetMissing ==
  /\ UserGetMissing
  /\ UNCHANGED <<pvars, net, losses>>

MeUserGetMalformed(k) ==
  /\ UserGetMalformed(k)
  /\ UNCHANGED <<pvars, net, losses>>

(***************************************************************************)
(* An IHAVE none of whose chunks is accepted is dropped without an answer. *)
(***************************************************************************)
(* Mutant: a GET for every chunk listed, accepted or not. *)
MeRecvIHaveAll(m) ==
  /\ m \in Flight("IHAVE")
  /\ RecvIHave(m.peer, m.list)
  /\ net' = (net \ {m}) \cup {Get(m.peer, m.list[k]) : k \in DOMAIN m.list}
  /\ UNCHANGED <<pvars, losses>>

MeRecvIHave(m) ==
  /\ m \in Flight("IHAVE")
  /\ \/ /\ RecvIHave(m.peer, m.list)
        /\ net' = (net \ {m}) \cup
                    {Get(m.peer, m.list[k]) : k \in Accepted(m.peer, m.list)}
     \/ /\ ~corrupt /\ Accepted(m.peer, m.list) = {}
        /\ net' = net \ {m}
        /\ UNCHANGED vars
  /\ UNCHANGED <<pvars, losses>>

MeRecvDataPkt(m) ==
  /\ m \in Flight("DATA")
  /\ RecvDataPkt(m.peer, m.seq, m.offset)
  /\ net' = (net \ {m}) \cup {Ack(m.peer, recvList'[k].expected) : k \in Target(m.peer)}
  /\ UNCHANGED <<pvars, losses>>

(***************************************************************************)
(* An assumption on the environment, not code: re_generateWhohas looks at  *)
(* the clock alone.  Here packets travel fast enough that a chunk's        *)
(* 10-second timer runs out only when nothing is left that would touch it: *)
(* no WHOHAS or IHAVE about the chunk on its way to or from a live         *)
(* provider, and no live provider of a busy buffer of it with a packet in  *)
(* flight or a timer that will resend one.  (In Download the timer may     *)
(* fire at any time.)                                                      *)
(***************************************************************************)
Active(p, c) ==
  \/ Get(p, c) \in net
  \/ tracker[p] # {}
  \/ \E m \in Flight("DATA") \cup Flight("ACK") : m.peer = p

Busy(c) ==
  \/ \E k \in DOMAIN recvList :
       /\ recvList[k].busy /\ recvList[k].offset = c
       /\ recvList[k].socket \in alive /\ Active(recvList[k].socket, c)
  \/ \E m \in Flight("WHOHAS") \cup Flight("IHAVE") :
       m.peer \in alive /\ \E i \in DOMAIN m.list : m.list[i] = c

MeChunkTimeout(K) ==
  /\ \A k \in K : ~Busy(manager.offset[k])
  /\ ChunkTimeout(K)
  /\ net' = net \cup UNION {Broadcast(<<manager.offset[k]>>) : k \in K}
  /\ UNCHANGED <<pvars, losses>>

-----------------------------------------------------------------------------
(***************************************************************************)
(* A provider.  find_in_local_has takes strlen of the binary hashes for    *)
(* their length: it looks at none from the first zero byte on.             *)
(***************************************************************************)
FindInLocalHas(p, c) ==
  \E i \in DOMAIN HasChunks[p] :
     /\ HasChunks[p][i] = c
     /\ \A j \in 1..i : HasChunks[p][j] \notin NulHash

(***************************************************************************)
(* generate_IHAVE: upto[n] is the answer after the first n hashes.         *)
(***************************************************************************)
Reply(p, list) ==
  LET upto[n \in 0..Len(list)] ==
        IF n = 0 THEN << >>
        ELSE IF FindInLocalHas(p, list[n]) THEN Append(upto[n - 1], list[n])
        ELSE upto[n - 1]
  IN  upto[Len(list)]

RecvWhohas(m) ==
  LET reply == Reply(m.peer, m.list) IN
  /\ m \in Flight("WHOHAS")
  /\ m.peer \in alive
  /\ net' = (net \ {m}) \cup (IF reply = << >> THEN {} ELSE {Ihave(m.peer, reply)})
  /\ UNCHANGED <<vars, pvars, losses>>

(***************************************************************************)
(* handle_packet on GET: a new data_t hides the old one.                   *)
(***************************************************************************)
RecvGet(m) ==
  /\ m \in Flight("GET")
  /\ m.peer \in alive
  /\ \E g \in Garbage :
       LET d == InitDatalist(m.offset, g) IN
       /\ data' = [data EXCEPT ![m.peer] = SendData(d)]
       /\ tracker' = [tracker EXCEPT ![m.peer] =
                        CreateTimer(@, Me, m.offset, SentSeqs(d))]
       /\ net' = (net \ {m}) \cup {DataPkt(m.peer, q, m.offset) : q \in SentSeqs(d)}
  /\ UNCHANGED <<vars, alive, crashed, losses>>

(***************************************************************************)
(* handle_packet on an ACK; a provider that was started again finds no     *)
(* data_t for it.                                                          *)
(***************************************************************************)
RecvAck(m) ==
  /\ m \in Flight("ACK")
  /\ m.peer \in alive
  /\ data[m.peer] # NoUpload
  /\ \E d \in {data[m.peer]}, h \in {HandleAck(data[m.peer], Me, m.ack - 1)} :
       /\ data' = [data EXCEPT ![m.peer] = h.data]
       /\ tracker' = [tracker EXCEPT ![m.peer] =
                        CreateTimer(RemoveFromTracker(@, Me, h.done),
                                    Me, d.offset, h.out)]
       /\ net' = (net \ {m}) \cup {DataPkt(m.peer, q, d.offset) : q \in h.out}
  /\ UNCHANGED <<vars, alive, crashed, losses>>

RecvAckUnknown(m) ==
  /\ m \in Flight("ACK")
  /\ m.peer \in alive
  /\ data[m.peer] = NoUpload
  /\ net' = net \ {m}
  /\ UNCHANGED <<vars, pvars, losses>>

(***************************************************************************)
(* The packet a timer holds is sent again as it was built, for the chunk   *)
(* it was built for; process_packet_loss(0) finds no data_t.               *)
(***************************************************************************)
Timeout(p, e) ==
  /\ p \in alive
  /\ e \in tracker[p]
  /\ net' = net \cup {DataPkt(p, e.seq, e.offset)}
  /\ UNCHANGED <<vars, pvars, losses>>

(***************************************************************************)
(* Uploads and timers are kept in memory only.  A restart takes longer     *)
(* than a packet's journey: what was sent to the provider before is gone.  *)
(***************************************************************************)
Crash(p) ==
  /\ p \in (alive \cap Mortal) \ crashed
  /\ alive' = alive \ {p}
  /\ crashed' = crashed \cup {p}
  /\ data' = [data EXCEPT ![p] = NoUpload]
  /\ tracker' = [tracker EXCEPT ![p] = {}]
  /\ UNCHANGED <<vars, net, losses>>

Restart(p) ==
  /\ p \notin alive
  /\ alive' = alive \cup {p}
  /\ net' = {m \in net : m.peer # p \/ m.type \in {"IHAVE", "DATA"}}
  /\ UNCHANGED <<vars, data, tracker, crashed, losses>>

Lose(m) ==
  /\ m \in net
  /\ m.type \in Lossy
  /\ losses < MaxLoss
  /\ net' = net \ {m}
  /\ losses' = losses + 1
  /\ UNCHANGED <<vars, pvars>>

SwarmNext ==
  \/ \E job \in Jobs : MeUserGet(job)
  \/ MeUserGetMissing
  \/ \E k \in Malformed : MeUserGetMalformed(k)
  \/ \E m \in net : MeRecvIHave(m)
  \/ \E m \in net : MeRecvDataPkt(m)
  \/ \E K \in Expirable : MeChunkTimeout(K)
  \/ \E m \in net : RecvWhohas(m)
  \/ \E m \in net : RecvGet(m)
  \/ \E m \in net : RecvAck(m)
  \/ \E m \in net : RecvAckUnknown(m)
  \/ \E p \in Providers : \E e \in tracker[p] : Timeout(p, e)
  \/ \E p \in Providers : Crash(p)
  \/ \E p \in Providers : Restart(p)
  \/ \E m \in net : Lose(m)

SwarmSpec == SwarmInit /\ [][SwarmNext]_svars

(***************************************************************************)
(* peer_run serves its socket and both kinds of timers in every turn of    *)
(* its loop, and a packet that is not lost arrives.                        *)
(***************************************************************************)
Fairness ==
  /\ \A p \in Providers :
       /\ WF_svars(\E m \in net : m.peer = p /\ RecvWhohas(m))
       /\ WF_svars(\E m \in net : m.peer = p /\ MeRecvIHave(m))
       /\ WF_svars(\E m \in net : m.peer = p /\ RecvGet(m))
       /\ \A q \in Seqs :
            /\ []<>(\E m \in Flight("DATA") : m.peer = p /\ m.seq = q /\ ~corrupt)
                 => []<><<\E m \in Flight("DATA") :
                           m.peer = p /\ m.seq = q /\ MeRecvDataPkt(m)>>_svars
            /\ []<>(Ack(p, q) \in net /\ p \in alive)
                 => []<><<RecvAck(Ack(p, q))>>_svars
            /\ WF_svars(\E e \in tracker[p] : e.seq = q /\ Timeout(p, e))
  /\ \A c \in Offsets :
       WF_svars(\E K \in Expirable : c \in {manager.offset[k] : k \in K} /\ MeChunkTimeout(K))

FairSpec == SwarmSpec /\ Fairness
-----------------------------------------------------------------------------
SwarmTypeOK ==
  /\ TypeOK
  /\ data \in [Providers -> Data \cup {NoUpload}]
  /\ tracker \in [Providers -> SUBSET Trackers]
  /\ alive \subseteq Providers
  /\ crashed \subseteq Mortal
  /\ \A m \in net : m.peer \in Providers
  /\ losses \in 0..MaxLoss

(***************************************************************************)
(* The two ends agree on the chunk.  DATA and ACK packets do not name it,  *)
(* so a busy buffer is filled with the right bytes only if its provider,   *)
(* once it has handled the GET, is sending that very chunk; one that was   *)
(* started again since may be sending nothing.  There is one way out:      *)
(* packets resent for an older chunk may complete a buffer before its GET  *)
(* has arrived, and the late GET then takes the place of the one after it. *)
(* So what is sent instead is a chunk Me has in full from that provider.   *)
(* Said of networks that lose no GET.                                      *)
(***************************************************************************)
FullFrom(p, c) ==
  \E l \in DOMAIN recvList :
     recvList[l].socket = p /\ recvList[l].offset = c /\ Full(recvList[l])

EndsAgree ==
  \A k \in DOMAIN recvList :
     LET p == recvList[k].socket
         c == recvList[k].offset IN
     recvList[k].busy /\ p \in alive /\ Get(p, c) \notin net =>
        IF data[p] = NoUpload THEN p \in crashed
        ELSE data[p].offset = c \/ FullFrom(p, data[p].offset)

(***************************************************************************)
(* The providers and the network behave as Download lets the other peers   *)
(* behave: IHAVEs name chunks some WHOHAS asked about, and DATA packets    *)
(* hold bytes of chunks that very provider was sent a GET for.             *)
(***************************************************************************)
ImplementsDownload == Spec

(***************************************************************************)
(* The file holds, at every place, the bytes of the chunk that belongs     *)
(* there.                                                                  *)
(***************************************************************************)
OutputRight ==
  output # NoFile => \A k \in DOMAIN output : \A i \in Idx : output[k][i] = manager.offset[k]

(***************************************************************************)
(* Once every chunk of the file has been received in full from some peer,  *)
(* the file has been written.                                              *)
(***************************************************************************)
ReceivedIsWritten ==
  manager.init /\ manager.offset # << >> =>
    \E k \in DOMAIN manager.offset : \A l \in DOMAIN recvList :
       recvList[l].offset = manager.offset[k] => ~Full(recvList[l])

(***************************************************************************)
(* A download that was started ends with the file on disk.                 *)
(***************************************************************************)
Completes == manager.init /\ manager.offset # << >> ~> output # NoFile

(***************************************************************************)
(* While a download is going on, IHAVE and DATA packets, late and resent   *)
(* ones included, update no chunk timer outside the array of the download. *)
(***************************************************************************)
TimersLive == corrupt => ~manager.init
=============================================================================
