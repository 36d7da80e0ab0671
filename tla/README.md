# P2P_CC in TLA+

P2P_CC is a BitTorrent-like peer in C: one process asks the other peers of
`nodes.map` which of them hold the chunks of a file (WHOHAS / IHAVE), asks one
peer per chunk for it (GET), and receives it in 512 packets over UDP (DATA /
ACK) with a sliding window, TCP-like congestion control, retransmission timers
and a 10-second timer per chunk that looks for another peer.

This directory holds a TLA+ model of that protocol as the code implements it, of
the terminal input and of the network simulator the peers are run on, with
TLC runs over small instances and TLAPS proofs for instances of any size.

    tlc -workers 2 -config Transfer.cfg MCTransfer     # one run
    tlapm TransferProofs.tla                           # one proof module

`PROJECT.json` lists components, runs, mutants, findings, hazards and
theorems, and for every definition the source lines it stands for.

## 1. Inventory

| component | state | operations | source |
|---|---|---|---|
| sender flow control | list of `data_t`, newest first: packet states, `start`, `end`, `send_window`, `ssthresh`, `increase_rate`, `prev_ack`, `count_ack` | `init_datalist`, `send_data`, `check_return_ack`, `congestion_control`, `process_packet_loss`, `handle_ack` | `flow_control.c` |
| packet tracker | list `p_tracker` of packets waiting for an ACK | `create_timer`, `remove_from_tracker`, `timer_expired` and the resend loop of `peer_run` | `flow_control.c`, `peer.c` |
| receiver flow control | list `recv_list` of `recv_buffer_t`, newest first, never shortened: peer, chunk, `busy`, `expected`, stored packets | `init_recv_buffer`, `recv_data`, `is_buffer_full`, `copy_chunk_data`, `release_buffer` | `flow_control.c` |
| file manager | `file_manager`: `init`, `chunk_count`, the offset and timer arrays | `generate_WHOHAS`, `re_generateWhohas`, `check_file_manager` | `packet.c` |
| packet handlers | none of their own | the five branches of `handle_packet` | `packet.c` |
| main loop | the socket | `peer_run`, `process_inbound_udp`, `process_get`, `broadcast` | `peer.c` |
| has-chunk look-up | has-chunk file | `find_in_local_has` | `packet.c` |
| terminal input | `user_iobuf`: bytes, `cur` | `create_userbuf`, `process_user_input` | `input_buffer.c` |
| start-up | configuration, peer list | `bt_parse_command_line`, `bt_parse_peer_list`, `bt_peer_info` | `bt_parse.c` |
| spiffy | the address and id for the headers | `spiffy_init`, `spiffy_sendto`, `spiffy_recvfrom` | `spiffy.c` |
| network simulator | per router a table, per link a queue with departure times | `createTable`, `recv`, `enQ`, `run`, the main loop | `hupsim.pl` |
| hashing, logging, test programs | - | - | `chunk.c`, `sha.c`, `log.c`, `client.c`, ... |

**Interaction.** `peer_run` is one thread. In each turn of its loop it takes at
most one datagram from the socket, reads the terminal, then scans the chunk
timers (`re_generateWhohas`) and the packet tracker. A datagram goes through
`handle_packet`, whose answers `process_inbound_udp` gives a timer (DATA only)
and sends. So every handler runs to its end undisturbed and is one action here;
the concurrency is between peers, the network and the timers.

**What is hard.** Packets may be lost, reordered and repeated. DATA and ACK
packets carry no chunk name, so both ends must agree on the chunk by other
means. Old buffers, old uploads and old timers are never thrown away. Timers
fire while late answers are still on their way. Providers may die and come
back with their memory gone. Two fields of `data_t` are read before they are
written. A GET for a bad file changes the file manager before it fails. The
input buffer moves text forward and leaves old bytes behind it. The simulator
computes departure times of packets of different lengths when they arrive, and
may be late in serving them.

**What correctness means.**

- sender: the window keeps its shape under any ACKs; only packets the receiver
  holds count as acknowledged; no new packet goes out more than a window beyond
  what the receiver holds; every unacknowledged packet is resent until its ACK
  arrives;
- receiver: an ACK claims only packets that are there; a stored packet stays;
- file manager: one transfer per peer and per chunk at a time, found by the
  look-ups that take the newest buffer; only complete files are written;
- the whole: the file has the right bytes, and a started download ends;
- terminal input: the lines handled are the lines typed;
- simulator: shortest routes, rates that are kept, order, and no packet that
  vanishes or goes round for ever; and the peers know who is talking to them.

`PROJECT.json` lists under "hazards" the places in the code where one of these
is at risk, with the properties aimed at each.

## 2. Modules

    Protocol ── SendWindow ──┬─ Upload            (several clients, one tracker)
        │                    ├─ Transfer ── implements ChunkDelivery
        └──── RecvBuffer ────┘      (one chunk, one receiver, UDP)
                   └── Download ─── Swarm         (+ SendWindow for providers;
                                                   implements Download)

    InputBuffer      Router                        (on their own)

- **Protocol**: packets per chunk, peers, chunk offsets.
- **SendWindow**: the functions of the sender half of `flow_control.c` as
  operators on a `data_t`, and the tracker's `CreateTimer` and
  `RemoveFromTracker`.
- **RecvBuffer**: `recv_data` and the buffer it works on.
- **Transfer**: a sender and a receiver of one chunk with the network between
  them. Actions: `RecvGet` (the GET delivered again), `RecvAck`,
  `RecvDataPkt`, `Timeout`, `Lose`.
- **ChunkDelivery**: the abstract promise of a transfer. Packets are delivered
  one at a time and stay delivered; the sender counts as acknowledged only
  delivered ones; it may start over.
- **Upload**: the serving side with several clients, which may send at any time any
  GET and any ACK number `handle_ack` acts on, and one it turns away (`AckNums`); one
  tracker for all. Actions `RecvGet`, `RecvAck`, `Timeout`. `out` is what the last
  handler sent.
- **Download**: the requesting side against peers that may answer anything, early
  or late. Actions `UserGet` (with the chunk file cut into WHOHAS lists),
  `UserGetMissing` (it cannot be opened), `UserGetMalformed` (a hash is too
  long), `RecvIHave`, `RecvDataPkt` (with the whole of `check_file_manager`),
  `ChunkTimeout` (one scan of `re_generateWhohas`, which may find the timers of
  several chunks expired).
- **Swarm**: a downloading peer and providers built from SendWindow, with the
  WHOHAS handler (`RecvWhohas`, `RecvGet`, `RecvAck`, `Timeout` of a provider),
  `Crash`, `Restart` and a lossy, reordering network. It extends Download: each
  action of the downloading peer (`MeUserGet`, `MeRecvIHave`, `MeRecvDataPkt`,
  `MeChunkTimeout`, ...) is Download's action of that name with the packets it takes
  from and gives to the network. So Swarm is a refinement of Download, whose peers
  may answer anything: `ImplementsDownload`.
- **InputBuffer**: the bytes of the buffer, `Read` (with any cut of what is typed),
  one `HandleLine` per turn of the loop, and `GiveUp`. `Read` waits until the
  loop has ended, as in the code.
- **Router**: the peers' packets with their spiffy headers, the routing tables
  computed by `createTable` from the topology, and a queue per link. Actions
  `Send` (a peer's `spiffy_sendto` and the main loop's hand-over to the first
  router), `Run` (the head of a queue is due and passed on, delivered, or
  dropped and counted at a full queue), `Tick`. A packet that no line of the simulator's
  `nodes.map` is for vanishes uncounted (`Discard`); `strays` remembers its number. It stands on its own: the network of Transfer and Swarm is
  more general, losing and reordering anything.
- **MC...**: the values of the constants for TLC.
- **SendWindowProofs, RecvBufferProofs**: lemmas about the operators;
  **TransferProofs, UploadProofs, DownloadProofs, SwarmProofs,
  InputBufferProofs, RouterProofs**: the theorems.

The definitions whose comment says *Mutant* are the wrong versions of their
neighbour that the mutants of `PROJECT.json` put in its place, to see that
TLC then refutes a property. They are used for nothing else.

### Abstractions

- **Time.** A tracker entry may be found expired at any moment, and in Download
  so may the timer of a chunk that is not full. In Swarm a chunk timer runs out
  only when no packet or retransmission timer is left that would touch it: it
  stands for 10 seconds, ten times the retransmission time-out. This (`Busy`,
  `Active`) is an assumption on the speed of the network and not in the code, which
  looks at the clock only.
- **Hashes and chunks.** A chunk is named by its offset in the master chunk
  file. The look-ups from hash to offset and back are then renamings. What
  `find_in_local_has` does with `strlen` on binary hashes is kept: `NulHash` is
  the set of chunks whose hash has a zero byte.
- **Packet contents.** A stored packet is known by the chunk its bytes were cut
  from.
- **Lists.** `data_t` and `recv_buffer_t` are put at the head of a list and
  looked up from the head. Of the uploads to a peer only the newest is ever
  found, so only it is kept. All receive buffers are kept, because
  `is_buffer_full` looks at all of them. The tracker is a set: the code depends
  on nothing but membership. Its dummy head matches no packet.
- **Uninitialised fields.** `prev_ack` and `count_ack` get any value of
  `Garbage` when an upload is set up; one number that equals no ACK stands for all
  of these, and `count_ack` is cut off at the bound it is compared with. A negative
  `count_ack`, which only puts the duplicate limit off until more equal ACKs have
  come, is left out.
- **Packet numbers.** An ACK number above 2^31 becomes negative in `handle_ack` and
  would index the state array below 0; no peer sends one and it is left out.
  `recv_data` first turns away a sequence number above 512; senders use 1..512
  only, in fast retransmits too, so that return is left out.
- **Float window growth.** `increase_rate` adds `1/send_window` per ACK and is
  compared with 1. It is kept as a count of ACKs; `LateWindows` names the
  window sizes for which rounding makes the sum need one more.
- **Memory errors.** `corrupt` says that a chunk timer was written outside its live
  array (after `free`, or one past the end), that a malformed chunk file made
  the file manager read outside its offset array, or that its hash overran
  `line[40]` (which it may or may not do harm). What happens next is undefined,
  and the model stops there.
- **Restarts.** Uploads and timers live in memory only. A restart takes longer than
  a packet travels, so what was sent to the provider before is gone.
- **Bytes of the input buffer.** Two characters, the newline and zero. `cur` is
  unsigned and wraps at `Word`.
- **Rates and times in Router.** A departure time is kept multiplied by its link's
  rate, so the division in `enQ` is exact. `gettimeofday` is `now`, which goes on
  by one unit; `Lag` bounds how far `run` may be behind the head of a queue.
- **Predecessors in `createTable`** are left over from the call for the router
  before; in a connected network each vertex but the start gets a new one and
  the start's own is never read, so the model starts afresh.
- **The end of `recv_data`'s search.** The loop reads behind the `recved` array
  when all packets are in. The memory there is the zero-filled rest of a fresh
  large allocation, so it ends at `N`.
- **The duplicate check before sending** (`peer.c:173-182`) compares a host-order
  with a network-order number and never keeps a DATA packet back, so it is left
  out.
- Chunk files that list chunks the master chunk file lacks are excluded.

## 3. Runs

Every passing run comes with a mutant per property.

| run | instance | what it shows |
|---|---|---|
| `transfer` | 3 packets, threshold 1, any garbage, unbounded loss, 1 duplicate, 1 repeated GET | `AckHonest`, `AckedIsReceived`, `UnackedIsTracked`, `WindowShape`; `NeverFarAhead`: a packet that had no timer is at most one window beyond what the receiver holds in order, fast retransmits included; the transfer implements ChunkDelivery; under fairness the receiver gets every packet (`EventuallyComplete`) |
| `upload` | 2 clients, 2 interchangeable chunks of 2 packets, any ACK number from 0 to one past what `handle_ack` lets through, at any time | `WindowsInShape`: everything up to `start` is acknowledged, everything up to `end` is sent, nothing else is, and `start` passes `end` only when the chunk is through; `OneTimerPerPacket`, `TimerUntilAcked`, `SlowStartBounded` (slow start stops at the threshold, which `congestion_control` tests by equality) |
| `download` | 2 peers, 2 chunks of 2 packets, 3 buffers, 2 GET commands, for good, missing or malformed files | `BusyUnique`, `BusyIsNewest`, `OutputComplete`, `StoredIsKept`; `ChunksAskedFor`: every chunk waited for was in a WHOHAS list |
| `swarm` | 1 provider with both chunks, which may crash and be started again, 4 buffers, 1 loss, a good and a malformed file | `EndsAgree`: a provider that got the GET is sending the chunk its buffer was made for, or one that is already full, or, after a restart, nothing; `ImplementsDownload`: providers and network behave as Download lets peers behave |
| `swarm_live` | 2 providers with one chunk each, one of them also with a chunk whose hash holds a zero byte, 1 loss | the file is right (`OutputRight`) and gets written (`Completes`); late packets touch no timer outside the array of the download (`TimersLive`) |
| `input` | a buffer of 5 bytes, 8 bytes typed, any cut into reads | `LinesRight`: the lines handled are the lines typed (if no read returned more than one line, or the buffer was at most half full); `GivesUpOnLongLine`; `Terminated`; `LoopEnds` |
| `router` | all 38 connected networks of 4 routers, two rates, two latencies, queues of 2, 3 packets of 2 lengths on 3 flows | `RoutesShortest`, `BandwidthKept`, `InOrder`; every packet for a peer of the simulator arrives or is counted at a full queue (`Arrives`, under fairness) |

The rest are counterexamples to what a comment or the readme says; the
findings in `PROJECT.json` quote the lines.

| run | what happens |
|---|---|
| `stale_data` | One provider has both chunks. The ACK of the last packet of the first chunk is delayed; its timer resends the packet after the second chunk was asked for; `recv_data` stores it in the second chunk's buffer. The file is wrong, with no packet lost. |
| `lost_get` | A GET is lost; after 10 s the chunk is asked for again and arrives in a second buffer. The empty first buffer keeps `is_buffer_full` at "no": the file is never written. |
| `lost_whohas` | The only provider misses the first WHOHAS; the chunk asked for again first is the second. Its full buffer is not released while the first chunk is missing, so the provider stays busy and its offer of the first chunk is refused for ever. |
| `shared_tracker` | Two clients are sent the same sequence number. The second gets no timer; if that packet is lost nobody resends it. |
| `spiffy_any` | A peer binds its socket to `INADDR_ANY` and passes that address to `spiffy_init`, so its packets carry 0.0.0.0 as their source. `hupsim.pl` puts 127.0.0.1 in its place only in its own look-ups, not in the packet; the peer at the other end finds no such line in its list and ignores every packet. |

### Bounds

- **N = 3** in Transfer is the least chunk with a first packet (sent alone), a
  packet in the middle and a last one, so that a window of 2 can be open, be
  passed by an old ACK, and meet the end of the chunk. With **threshold 1** the
  sender is in congestion avoidance with a window of 1 after its first ACK, grows
  from there, and is back in slow start after three equal ACKs, so that the window is
  narrower than what is left of the chunk. The proofs cover every N.
- **MaxDup, MaxGets = 1**: a second copy of each kind is the first one that can
  surprise. Loss is unbounded in Transfer.
- **Upload, N = 2, MaxWindow = 2**: two chunks and two clients give every pair of
  timers with the same number: same client or not, same chunk or not. The
  window cannot matter beyond the length of the chunk. Memory from `malloc` looks
  like no ACK so far, or like two earlier ACKs of the first packet, which makes
  the first ACK a duplicate. The proofs cover the rest.
- **Download, 3 buffers, 2 commands**: three buffers let a chunk be asked for
  twice and another one once; two commands let a second GET overtake the first.
- **Swarm, 4 buffers with a loss and a crash**: two per chunk. One provider that
  serves two chunks in turn, and again after its restart, is what `EndsAgree` is
  about; with fewer buffers two GETs are never on their way to one provider (see
  section 4). In `swarm_live` each chunk has a provider of its own.
- **WHOHAS lists of 2** in `download` and `swarm`: the file of two chunks is a
  multiple, so that the last list is empty; the file of one chunk in `download`
  is not. `swarm_live` has lists of 3: empty lists only multiply its states.
- **InputBuffer, Size = 5, MaxTyped = 8**: the buffer can be filled, shifted and
  filled again, with up to three lines in one read. Word only has to be larger
  than the buffer.
- **Router, 4 routers, 3 packets, all sent at time 0, Lag 1**: four routers are the
  fewest with two ways of different lengths and two of equal length; three
  packets overfill a queue of two; lengths 1 and 3 on links of rate 1 and 2 give
  departure times in an order other than that of arrival. The proof of
  `BandwidthKept` covers the rest.
- `Lossy` leaves GET out in `swarm` and `swarm_live`: `lost_get` shows what the
  loss of a GET does.
- Deadlock is not checked: all bounded systems stop when their bounds are used up,
  and a peer with nothing to do waits.

### Fairness

`peer_run` looks at the socket and at both kinds of timers in every turn of its
loop, and `select` returns at the latest after 3 seconds; so an expired timer is
served and a datagram that arrived is read (weak fairness of `Timeout`,
`ChunkTimeout` and of the handlers of packets that are not lost). For DATA and
ACK, which are sent again and again, the network is assumed fair-lossy: what is
put into it infinitely often comes out infinitely often. It is written as
`[]<>(in flight) => []<>(handled)` for each sequence or ACK number. `Lose`,
`Crash`, `Restart`, `RecvGet` of Transfer and the user's commands have no
fairness.

In Router time goes on (`Tick`) and the main loop of `hupsim.pl` runs every router
in each turn (`Run` of each link); no peer has to send.

## 4. Proofs

All are for every N, peer set, chunk set, threshold and garbage, from the
assumptions named in the modules (`ProtocolAssumption`,
`SendWindowAssumption`, ...). Of these, one is a fact of the code that matters:
no peer has id 0, because `peer` refuses to start with identity 0. Therefore a
time-out, which calls `process_packet_loss(0)`, changes no upload.

**TransferProofs** proves `TypeOK`, `AckHonest`, `AckedIsReceived`, `WindowShape`,
`UnackedIsTracked`, `NeverFarAhead` and the refinement `ImplementsDelivery`
from one inductive invariant `IInv`. The safety properties are not inductive by
themselves:

- the receiver computes its ACK from index 1 on and never looks at packet 0. That
  `AckHonest` holds anyway is a fact about both ends and the network: until
  packet 0 is stored, only packet 0 was ever sent, no ACK is in flight and no
  timer is for another packet (`ZeroFirst`), because the first window is one
  packet wide;
- `ReceivedPrefix` ties `expected` to the packets stored;
- `OneUpload` says that all timers are for this receiver and chunk. Without it
  `create_timer`, which compares sequence numbers only, would not track what is
  sent, as `shared_tracker` shows for two clients.

`AckedIsReceived` follows since an ACK only covers what `AckHonest` says is there;
`UnackedIsTracked` since `handle_ack` takes exactly the packets it marks ACKED off
the tracker.

`NeverFarAhead` (`AheadByWindow`) is not about `send_data` alone: the first ACK may
count as a duplicate, and fast retransmit then sends a packet `send_data` never
sent while the window is full. It holds because the packet that goes
out is the one behind an ACK, so `AckHonest` says that all in front of it are
there; and for `send_data` because everything up to `start` has been acknowledged
(`AckedUpTo`), after any old ACKs and a second GET.

**UploadProofs** proves `WindowsInShape`, `OneTimerPerPacket` and `TimerUntilAcked`
for any number of clients and whatever ACKs they send: none of the three
depends on honest clients. `UInv` is type correctness with the first two.
The ACK one past the last packet passes the test of `handle_ack`
(`flow_control.c:228`) and sets `start` to N. The weak form of the window in
`WindowsInShape` allows for that, and only with `end` at the last packet: an ACK
that covers a packet never sent leaves `handle_ack` in its loop before `start` is
set, so whoever gets to N has a chunk all of whose packets are acknowledged.
`SlowStartBounded` is inductive on top of it: each ACK adds one to a window below
the threshold, a window at the threshold leaves slow start, and a loss sets the
window to 1 and the threshold to at least 1 unless the window was 1.

**DownloadProofs** is for any number of peers, chunks, commands and buffers, chunk
files of any length and any room in a WHOHAS.

- `BusyIsNewest` and from it `BusyUnique`, which is not inductive without knowing
  that a busy buffer has no newer one of its peer or chunk; `DInv` adds the types
  of `recvList`, `wanted` and `asked`.
- `TypeOK`, `OutputComplete`, `ChunksAskedFor` from `FileInv`. It speaks of the old
  arrays of the file manager too: a malformed chunk file brings a part of them
  back without asking anybody. That a good file is asked for in full is
  `SplitCovers`: position `j` of the file is in list `(j - 1) \div MaxHashes + 1`. For
  `OutputComplete` the newest buffer of a chunk, which `copy_chunk_data` takes,
  must be the one `is_buffer_full` has found full: `NewestIsComplete`.
- `StoredIsKept`, an action property: only `recv_data` writes packets, only where
  there are none, and a new buffer shifts the list by one.
- `OriginInv`: all a buffer holds, and so all that is written, was asked of its peer
  (`WrittenFromAsked`). It is not a property of a run but what the swarm's
  file rests on.
- `TimerInv`, for one command and no malformed file: chunks asked about have a
  place in the timer array as long as the manager is active, so no update lands
  outside. With a malformed file, or a second command, this is false: the arrays
  then belong to another list of chunks than the packets on their way.

**SwarmProofs** composes these with the lemmas of SendWindow for any number of
providers and has-chunk files, any `Lossy`, `MaxLoss`, `Mortal` and `NulHash`.

- `ImplementsDownload`: `SwarmInv` says of every packet in flight that it tells the
  truth (an IHAVE lists chunks some WHOHAS asked about and its sender finds; GET
  and DATA are for chunks that were asked of that provider), and the same of every
  upload and timer. Hence every step of the swarm is a step of Download or leaves
  it alone (`PeerStep`), and what is proved of Download holds of the swarm.
  `TimersStayLive` is `TimersInside` handed on in this way.
- `EndsAgree`, if no GET is lost (`EndsStayTogether`). The strengthening is
  `GetsPending`: a GET on its way to a running provider belongs to a buffer that waits
  for it or to one that is full. The second half is needed: DATA
  packets resent for an earlier chunk can fill a buffer before its GET has
  arrived; the peer is then asked for the next chunk, two GETs are in flight and
  may be handled in the wrong order. The simple statement, that the provider sends
  the chunk of the busy buffer, is therefore false as soon as there are buffers enough.
- `OutputRight` where no provider finds two chunks (`OneChunkEach`), for one command
  (`FileRight`); and for any number of commands, that each file is right for the list
  at the moment it is written (`EveryFileRight`). Both follow from `OriginInv`:
  every byte was asked of a provider, and that one finds only this chunk.

The hypotheses are facts the code needs, not conveniences. The run `stale_data`
breaks `OutputRight` with one provider of two chunks, and `lost_get` shows a lost
GET; a second GET command replaces the list of chunks and leaves the old file,
so `OutputRight`, which compares them, says nothing about it.

**InputBufferProofs** is for every buffer size and all input. `TypeOK` and `Terminated`
are inductive together: a read ends before the closing zero since it asks for
`Size - cur` bytes, and the buffer-full test keeps out a `cur` that has wrapped.
`LoopEnds` needs both: the first zero byte, which `Terminated` says there is, moves
forward with the shift.

`LinesRight` and `GivesUpOnLongLine` follow from `TextInv`: while the input is `Safe`
the buffer is a window on the text, whose left end is the newline of the last line
handled. Behind `cur` there must be no newline that could be taken for text:
a buffer never more than half full is zero there, because a shift brings only
zeros back, and one that is fed line by line holds one newline, its last byte. The
lines are counted by the rank of their newlines in `typed`, so that "the k-th
line" needs no recursion.

**RouterProofs** is for every connected topology, rate, latency, queue length and
lag.

- `BandwidthKept`: that the bytes gone never exceed rate times time rests on the
  departure times in the queue. `Good` says that no packet may leave before the
  link could have carried everything accepted up to it, and that `size`, from
  which `enQ` computes the time of the next packet, is what was accepted and is not
  gone.
- `RoutesShortest`: the balls of radius n around a router are connected by links,
  so a vertex at distance n + 1 has a neighbour at n; the loop invariant of
  `createTable` says that no visited vertex is farther than an unvisited one, that
  every link out of a visited vertex has been relaxed, and that a distance found
  was found over the predecessor. Both the rounds and the walk back are recursive
  functions. The proofs unfold them from their defining equation and show with
  the well-founded order of the numbers that the set of rounds after which
  the invariant holds has them all: no induction rule with a predicate is
  used. `SizeAssumption`, fewer routers than `INFINITY`, is what the
  simulator's own comment asks for.
- `InOrder` rests on the routes: `Way` is the routers from one place to a
  destination (the least set closed under the tables), and of two packets of a
  flow the earlier one is at a router the later one has still to go through, or
  before it in the same queue (`NoOvertaking`). A queue is served from its head only, so neither `enQ` nor `deQ` disturbs it,
  whatever the departure times.
- `TypeOK` comes last: what is in a table is a router because the walk that fills
  it ends at a neighbour.

**Only model-checked**: liveness (`EventuallyComplete`, `Completes`, `Arrives`), which
needs fairness and ENABLED, and the counterexample runs. Every invariant and
every action property a passing run checks, and both refinements, are stated by a
theorem.

## 5. Seen on the way

Read off the code while modelling it, or met by TLC on the way; they have no run of
their own. `PROJECT.json` has a run for the ones that weigh most.

- A time-out does not reduce the threshold as the comment in `peer.c:334` says:
  `process_packet_loss` gets the packet's `ack_num`, 0, for a peer id.
- A packet that is resent after the file was written updates a chunk timer in
  the array `check_file_manager` has freed (`packet.c:576`).
- A chunk whose binary hash has a zero byte is never offered, nor is one listed
  after it (`packet.c:220`).
- A provider that is started again never lets the download end: the partly filled
  buffer of the first attempt stays on the list, as in `lost_get`.
- A malformed chunk file takes over a running download: its first chunks, as many as
  the bad file has good lines, are written to the new output file.
- After a long read with several lines the shift leaves newlines behind the text,
  and the next reads bring them back: lines nobody typed, or part of one twice.
  `LinesRight` excludes these cases (`Safe`); a terminal in line mode does not
  produce them.
- The departure times of `hupsim.pl` need not grow along a queue, so packets can
  leave in a burst after a long one; the total from the start stays within the
  rate.
- A topology in two parts keeps `createTable` from returning, and a peer of
  `nodes.map` without a router ends the simulator with the first packet for it.
- `ssthresh` becomes 0 when a loss is detected with a window of 1
  (`flow_control.c:28`); `ssthresh == send_window` (`flow_control.c:176`) then
  never holds again and the sender stays in slow start.
- With unlucky memory in `prev_ack` and `count_ack` the very first ACK counts as a
  duplicate. The packets it covers are then acknowledged by later ACKs only; the
  `transfer` run includes this case, and the transfer still completes.
- `handle_ack` tests `ack_number > 512` where the largest index is 511
  (`flow_control.c:228`). The ACK with number 513 is let through and puts `start` at
  512, behind `end`. No peer sends it, and it does no harm: nothing is left to send
  then, and a later, smaller ACK takes `start` back.
- The message "Should never happens" (`flow_control.c:255`) is reached by a client
  that acknowledges what was not sent. The packets before it stay marked as
  acknowledged, `start` does not move.
- Fast retransmit does not look whether the packet it sends was ever sent
  (`flow_control.c:235`): with the unlucky memory above, the packet is sent for the
  first time there, outside the window and without a change of `end`, and is sent
  again when the window gets to it.
- An ACK of an earlier chunk is applied to the upload now going on and can
  acknowledge a packet that was lost. The chunk is then never completed by
  that provider.
- `-m`, the number of simultaneous downloads, is parsed and never used
  (`bt_parse.c:97`).
- `get_off_set_from_master_chunkfile` opens the chunk file on each call and never
  closes it (`packet.c:268`).

## 6. Not modelled

- hashing (`chunk.c`, `sha.c`): data only, far out of TLC's reach;
- `log.c`, `debug.c`: output only; `client.c`, `server.c` and the `test_*`
  programs are not part of the peer;
- the options of the command line and the set-up in `peer_run`: run once,
  sequentially, before anything else; of `bt_parse.c` only the peer list and its
  look-ups matter later, and Router has them;
- file descriptors: `get_off_set_from_master_chunkfile` leaks one per call, which
  tells after about a thousand chunks;
- the counters and signal handler of `hupsim.pl`: output only.

## 7. Plan

Done: SendWindow, RecvBuffer, Transfer with ChunkDelivery, Upload, Download, Swarm
with restarts, InputBuffer, Router, the runs, and a theorem for each of their
invariants, action properties and refinements. To do, in this order:

1. The serving side and the swarm together: that a provider of Swarm behaves as
   Upload with one client, so that `TimersUntilAcked` and `SlowStartEnds` are handed
   on to it as `TimersStayLive` is from Download.
2. What a ranking argument for `Arrives` and `EventuallyComplete` needs short of
   fairness: that in each state in which a packet is missing some step that makes
   progress is possible, as lemmas about the handlers' guards.
3. For several commands, the weakest condition under which `TimerInv` still holds.
