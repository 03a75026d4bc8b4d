# A TLA+ model of rust_torrent_client

This directory holds a formal model of `rust_torrent_client`, TLC configurations that check
it on small instances, and proofs for TLAPS that hold for every torrent geometry, every number
of peers and every channel capacity.

The core, the per-torrent scheduler together with the tasks it talks to, is modelled
handler by handler, the disk task and the trackers await by await. Around them two more models
ask who waits for whom: one behind a session, one in front of the sessions.

## 1. The system

The program is a BitTorrent client built on tokio: a tree of tasks that share nothing and
communicate through bounded `mpsc` channels.

```
 ui --ClientCommand--> client --SessionCommand--> session --SchedulerEvent--> scheduler
                         ^                          ^                          ^  |  ^
 accept_loop ------------+      trackers -----------+                PeerEvent |  |  | DiskResponse
                                                                               |  |  |
                                           run_peer (reader + writer) ---------+  |  +--- disk
                                                   ^------------ PeerCommand -----+--DiskEvent--^
```

| component | source | state | operations | what is hard | what makes it correct |
|---|---|---|---|---|---|
| boot, accept loops | `main.rs` | two listeners | accept, read a handshake, forward | one silent connection delays the others | a loop that has read a handshake comes back to accept |
| ui | `ui/` | a window, the sender of the client's channel | pick a file, send `AddTorrent` | a send that waits for the client | `AddTorrent` is sent in the end |
| client | `client/` | map info hash -> session | AddTorrent, IncomingPeer | the same torrent added twice; a session that takes nothing | peers reach a session of their torrent; it is at no one's mercy but a stuck scheduler's |
| session | `session/` | torrent, trackers | spawn scheduler and trackers, pass on reports and peers | routing while channels are full | trackers and incoming peers are both heard |
| scheduler | `scheduler/` | known addresses, slab of peer handles, piece buffers, counter | 14 handlers, timeout scan | events of many peers in any order, late answers, failures of a piece, removal of a peer | every block is asked for, by one peer, and every piece verified whole and once |
| peer connection | `peers/` | socket halves, command queue | handshake, read, write, end | abort of one half while the other sends | one Disconnect per slot, nothing after it |
| disk task | `disk/` | output files, savefile | read the savefile, hash, write, answer | deferred write errors, crash between answer and savefile | every byte goes to its place; only confirmed pieces are saved; every piece gets one verdict |
| UDP tracker | `trackers/udp.rs` | a socket and a connection id for each address family | connect, announce, wait the interval | lost, late and repeated datagrams, no time-out, two families at once | what is reported belongs to this announce; announces end |
| HTTP tracker | `trackers/http.rs` | client, interval | announce, wait | failing requests | one report for each announce |
| parser | `parser/` | none | torrent file, peer lists, handshake | inconsistent input | total, exact decoding |
| tokio, slab, OS | external | channels, tasks, slab keys | send, recv, abort, insert, remove | an abort takes effect later; keys are reused | |

### Interaction

* The session sends the scheduler lists of addresses (`LaunchPeers`) and accepted
  connections (`IncomingPeer`). Both are deduplicated on `existing_peers`.
* For a tracker peer the scheduler spawns a connection attempt, which posts `Connect` or
  `ConnectFailed` on `peer_rx`. For an incoming peer the scheduler posts `Connect` itself,
  on the channel it alone reads.
* `Connect` allocates a slot of the slab and spawns `run_peer`, which shakes hands, runs a
  reader and a writer, and posts `Disconnect` as its last act. It aborts the half that is
  still running without waiting for it.
* The reader posts what the peer sends: `Bitfield`, `Have`, `Choke`, `Unchoke`,
  `Interested`, `NotInterested` and `Data`.
* Several handlers end in `maybe_push_blocks`, which marks blocks `Requested`, records them in
  the peer's `in_flight` list and asks the peer for them.
* A piece whose blocks have all arrived moves to the disk task, which answers with
  `PieceHashedAndWritten`, `HashFailed` or `WriteFailed`. Its very first answer,
  `CompletedPieces`, is the content of the savefile. It may come when peers have been asked
  already.
* A watchdog releases every request older than `REQUEST_TIMEOUT`.

* A tracker task asks for peers again and again and reports each time on the one channel all
  trackers of a session share. The session passes a success on as `LaunchPeers`.
* The accept loops and the window send to the client, the client to a session, the session to
  its scheduler: four bounded channels in a row, in each of which a sender waits for room.

## 2. Modules

| module | content |
|---|---|
| `Geometry` | how a torrent is cut into pieces and blocks: `piece_len_for_index`, `lazy_init`, the requests of `push_blocks` |
| `Scheduler` | the state machine: every handler of the scheduler, the connection, peer and disk tasks around it |
| `SchedulerProperties` | the type invariant, safety and liveness properties, and the refinement mapping |
| `Download` | the abstract specification: a piece is missing, being verified, or had |
| `MCScheduler` | model values and symmetry for the scheduler's configurations |
| `Disk` | the disk task: opening the files, savefile, hash, write loop, with tokio's deferred writes, faults, kill and restart |
| `DiskProperties` | the type invariant, safety and liveness properties, and the refinement mapping |
| `Verifier` | the abstract disk task: the saved pieces first, then one verdict per piece in order |
| `MCDisk` | a layout of files for TLC |
| `TrackerChannel` | what the trackers of a session share: the channel they report on, and the swarm |
| `UDPTracker` | a UDP tracker task, the network and the tracker |
| `HTTPTracker` | an HTTP tracker task |
| `Trackers` | both side by side, as a session spawns them, with their properties |
| `Announcer` | the abstract tracker task: one report for each announce, of peers of this announce |
| `MCTrackers` | torrents for TLC |
| `Channels` | scheduler, peer readers and writers and disk task over bounded channels: who waits for whom |
| `Program` | window, accept loops, client and sessions over bounded channels |
| `SchedulerProofs` | the requests for a piece tile it; type correctness and the in-flight bound |
| `ConnectionProofs` | slots and addresses are held once, events are of known peers |
| `RequestProofs` | no requested block is orphaned or asked for twice, every request is owed an answer, answers find their buffer, what panics |
| `PipelineProofs` | verification, finality of a piece, refinement of `Download` |
| `DiskProofs` | bytes in place, no panic, confirmed pieces are stored, refinement of `Verifier` |
| `ChannelProofs` | scheduler and disk task never wait for each other; type correctness |
| `TrackerProofs` | nothing stale, the backlog is bounded, refinement of `Announcer`; type correctness |
| `ProgramProofs` | peers reach the latest session of their torrent; type correctness |

How the models meet:

* `Scheduler` and `Disk` meet in `Verifier`: `Scheduler`'s own actions `ReadSavefile` and
  `TryHashAndWrite` do to the two channels what `Announce` and `Answer` of `Verifier` do, and
  `Disk`, which is driven by the part of the scheduler it sees (`Submit`, `HandleResponse`),
  implements `Verifier`.
* `Channels` is the same scheduler seen from its sends: the handlers are those of `Scheduler`,
  what they compute is left out, and every send waits for room as in the code. `Scheduler`
  keeps the data and has one wait only, on `peer_rx`.
* Each of the three waiting models assumes of its surroundings what another one shows.
  `Channels` shows that a session's send to its scheduler ends unless the scheduler is stuck
  (`SessionIsServed`). `Program` assumes that a scheduler that is neither stuck nor dead takes its
  events, and shows that a session takes the reports of its trackers unless its scheduler is
  stuck (`TrackersAreHeard`). `Trackers` assumes that reports are taken, and shows that
  announces end.
* `Scheduler` takes lists of peers in any order and number: `Trackers` shows what they are.

### State

| variable | in the code |
|---|---|
| `sched` | the scheduler task: running, panicked, or blocked in a send to its own channel |
| `existing_peers`, `slots`, `pieces`, `completed_pieces` | the fields of `Scheduler` |
| `peer_rx` | the `PeerEvent` channel, a bounded FIFO; a sender waits while it is full. A `PeerEvent::Data` is a `Data` event when it is a block as `push_blocks` asks for it, and a `Misfit` event when it is not |
| `connecting` | `TcpStream::connect` calls in progress |
| `tasks` | per slot, the `run_peer` task: none, handshake, running |
| `asked` | per slot and block, how many answers the peer still has to give |
| `late` | events in the hands of readers that have been aborted |
| `disk`, `disk_rx`, `disk_tx` | whether the disk task has read the savefile, and its two channels |

A `PieceBuffer` is a record: `status` is the vector `block_status`, a function on the blocks,
or on nothing when the vector is empty; `data` is the set of blocks for which an answer has been
copied into the buffer;
`blocks_received` and `complete` are the fields of that name. A `PeerHandle` has the fields
the handlers read; `has_bitfield` tells the empty `BitVec` of a new handle from a bitfield
with no bits set. An entry of `in_flight` is the request, a `copy` number that tells apart
entries for the same block (in the code they differ in `sent_at`), and whether
`REQUEST_TIMEOUT` has passed.

In `Disk`, `pc` is the await at which the task waits, `piece`, `idx`, `piece_offset` and
`remaining` are the locals of `Disk::write`, `output_files` and `savefile` are what the
struct's fields and the file of that name hold. A byte stored is a record of its file, its
position and its number in the torrent. `flight` holds the bytes of writes that tokio has handed to a
thread, `err` the files with an error that has not been reported. Data files and savefile survive
a restart, everything else begins anew.

In `UDPTracker`, `task` is where `run` stands, `contexts` and `connection` are the families with a
`UDPContext` and with a connection that has not expired, `step` is how far `announce` has come in
each family, `id` the transaction id it compares, `response` what it returned. `requests` and
`replies` are the datagrams under way, `copies` counts those the network has repeated. In
`HTTPTracker`, `http` is where `run` stands and `outcome` the event it is about to send. `swarm`
are the peers a tracker would list now; `udpKnown` and `httpKnown` record which of them there were
during the announce in progress.

In `Channels` a channel of data is a number or a sequence of senders, and `handing`, `joining`,
`todo` are the sends the handler in progress has still to make. `conn` follows an address from
its connection attempt to the removal of its slot; `writing`, `sending` and `hung` say what the
peer's writer, its reader and its remote do. In `Program`, `listener` and `client` are where
these tasks stand, `session_map` is the field of `Client`, `torrent` the torrents of the
sessions in the order of their start; `scheduler` is what has become of each session's scheduler.

### Actions

Each handler runs to its end before the `select!` loop takes the next event, so each is one
action, with the call of `maybe_push_blocks` it ends in. A handler that panics (`unwrap`,
`expect`, an index out of range) sets `sched` to `"panicked"`; nothing more happens then,
since the torrent has lost its scheduler. Names follow the code: `DedupAndStartPeers`,
`AddIncomingPeer`, `HandleConnect`, `HandleConnectFailed`, `RemovePeer`, `HandleBitfield`,
`HandleHave`, `HandleChoke`, `HandleUnchoke`, `HandleInterest` (both interest handlers),
`HandleData` and `HandleMisfit` (`handle_data` for a block as it is asked for, and for any other),
`ScanTimeouts`, `ParseCompletedPieces`, `OnCompletePiece`, `HandleFailure`.
`EventForMissingPeer` is the `unwrap` that all handlers of a slot's events begin with.

Around them: `ConnectDone`, `HandshakeOk`, `HandshakeFails`, `ReadMessage`, `ReaderEnds`,
`WriterEnds` (the abort), `LateEvent`, `Discards` (a peer that chokes us drops what it was asked),
`TimePasses`, `ReadSavefile`, `TryHashAndWrite`.

The disk task's steps end at its awaits on files: `OpenFile` (one file of
`build_output_files`), `OpenFails`, `ReadSavefile`, `TryHash` (the hash, and the beginning of
`write`), `Seek` and `Write` (the two halves of the loop), `Save`. `write_all` on a tokio
file returns when the bytes are with a thread; `WriteDone` is that thread. The next `seek` on the
file waits for it and keeps its error for the next write, which then fails in its place.

A tracker's steps end at its awaits on the network: `PerformAnnounce` sends the first requests of
both families, `ConnectAnswered` and `AnnounceAnswered` are a `recv` that returns the answer
that is expected, `WrongAnswer` one that returns any other datagram, `Report` is the end of
`join!` and the send to the session. `HTTPTracker` has `Ask`, `Respond`, `RespondError`,
`ParsePeersPanics` and `HTTPReport`.

In `Channels` a handler takes its event and computes in one step and then makes its sends one
by one (`SendToDisk`, `SendToSelf`, `SendToPeer`). `HandshakeFails` leaves `run_peer` with its command
channel until its `Disconnect` has been sent (`TaskReports`); `TaskEnds` is a half that ends after the
handshake, and the command channel goes with the writer. In `Program` each action is what a task does
from one await to the next.

### Abstractions, and what they leave out

* Bytes: a block has arrived or not. A peer answers what it was asked, in time, late or not at all,
  and may drop what it was asked once it has choked us. A stray peer (`"stray"` in `Faults`) also
  sends blocks that nobody asked for and any `Misfit`: a Piece message with another begin or length,
  or of a block or piece there is not. All that `handle_data` tells apart of a `Misfit` is kept: the
  piece, the block that `begin` lies in, and whether the data lie within the buffer (`fits`). A
  `Misfit` that fits counts for its whole block, as in the code; that the bytes are not all there
  only the hash can tell, which is why `SchedulerAssumption` lets pieces fail where peers stray.
* An index of a piece that does not exist is one number, `NumPieces`, in `Have` and in `Misfit`: the
  reader checks none (`peers.rs:230-286`), and the handlers treat all of them alike.
* Time: a request is younger than `REQUEST_TIMEOUT` or not, and time passes for all at once.
* The order of an `in_flight` list does not matter to the code except in which of two equal
  entries an answer removes: the model may remove either.
* Which slab key a new peer gets: any free one. (The slab takes the one freed last.)
* In `Scheduler` the channels to a peer's writer and to the disk task never fill up; the event
  channel does. That they do fill up is the subject of `Channels`.
* `HashFailed` and `WriteFailed` are one answer, `Failed`: the scheduler treats them alike.
* `FetchInfo`, `ShutdownPeers` and the messages Request, Cancel and Port are `todo!()` in
  the code and are not modelled. A message too short for its fields, or a bitfield of the wrong
  length, ends the reader or is skipped there; every other content reaches the scheduler.
* Fields nobody reads (`peer_choked`) are left out.
* Disk: the data of a piece is what the torrent has there if the hash is right, so bytes are
  known by their number. A chunk is one write (tokio splits those over 2 MiB, and would report
  an error of all but the last part in time). A number in the savefile is written whole or not
  at all, and the savefile belongs to the torrent. Creating directories and `set_len` fail
  like opening. A kill loses writes in flight, or parts of them, and nothing that is done.
* Trackers: an address stands for itself, and a peer list is a set of them. The interval is left
  out: an announce may begin whenever none is in progress. A transaction id is never one that is
  still in use; in the code that is so but for a chance of one in 2^32. The content of a tracker's
  answer that `send_connect` or `send_announce` refuse (action, length, a peer list with a
  remainder) is one kind, `error`. Errors of `send` itself are not modelled.
* `Channels`: a handler makes any of the sends its code could make, so that more may be waiting
  there than in the program; how many pieces there are is kept, since it bounds what is on its way
  to the disk task. The scheduler does not panic (`Scheduler` has that), and no message is `todo!()`.
* `Program`: a torrent file parses or not; a handshake names any info hash. The trackers of a
  session report at any time.

### Variants

Some operators are preceded by one whose comment begins with `Variant:`. A
variant is the operator with one plausible mistake. No action uses it; it shows that the
property that goes with it would notice the mistake (table in section 3).

## 3. What is checked

Run `tlc -config <cfg> <module>` in this directory. All instances of `MCScheduler` have
`BLOCK_SIZE = 1`, so that a piece of two bytes has two blocks, and `MAX_IN_FLIGHT = 2`, so that a
peer can be asked for some blocks but not all, and is asked again with one request outstanding.

| run | module | instance | properties | shows |
|---|---|---|---|---|
| `MCRequests` | `MCScheduler` | 2 seeds, tracked and incoming, 3 blocks in 2 pieces; time-outs, `Have` of any index at any time, disconnects, failing connects and handshakes | `TypeOK`, `InFlightBound`, `NoOrphanedRequest`, `AskedOnce`, `InFlightIsOwed`, `KnownPeer`, `AddressesHeldOnce`, `OneDisconnectPerSlot`, `DataHasBuffer`, `PanicsExplained` | requests are never lost or doubled, an answer finds its buffer however late it comes, addresses and slots are freed exactly once, in any order of answers, time-outs and departures; nothing but a `Have` before the bitfield or beyond its end makes the scheduler panic |
| `MCVerify` | `MCScheduler` | 2 seeds, 1 piece of 2 blocks, which is in the savefile; failures, aborted readers, blocks nobody asked for and answers of another length too | `OneDisconnectPerSlot`, `VerifyOnce`, `WholePieceToDisk`, `DoneIsFinal`, `ImplementsDownload` | the piece is verified whole, once at a time, stays had, as `Download` says, with the savefile read at any moment |
| `MCFinishes` | `MCScheduler` | 1 fair seed, 3 blocks, time-outs, chokes after which it may drop what it was asked | `Finishes`, `OnlyIdlenessStalls` | the download finishes with a seed that does not choke us, though every answer may come too late; with one that does, finitely often, only the missing push of finding 4 can keep it from finishing |
| `MCDisk` | `MCDisk` | 4 bytes in 2 pieces and 3 files; every fault, one restart | `TypeOK`, `BytesInPlace`, `StaysInFiles`, `VerifiedIsStored`, `ImplementsVerifier`, `EveryPieceAnswered` | the write loop and the savefile are right through failures and restarts, and no piece is left without a verdict |
| `MCTrackers` | `MCTrackers` | a UDP or an HTTP tracker, two families, one peer that comes and goes; datagrams lost, late, repeated, errors | `TypeOK`, `NothingStale`, `BacklogBounded`, `UDPImplementsAnnouncer`, `HTTPImplementsAnnouncer`, `AnnounceEnds` | reports belong to their announce, and announces end unless a datagram is lost |
| `MCChannels` | `Channels` | 2 peers, one of which may hang, 2 pieces, every channel of capacity 1 | `TypeOK`, `DiskNeverJammed`, `SchedulerReturns`, `SessionIsServed` | nobody waits for ever, but for the scheduler's own channel, a failed handshake that is to be reported, or a hung remote |
| `MCProgram` | `Program` | 2 listeners, 1 torrent added twice, 1 foreign info hash, every channel of capacity 1 | `TypeOK`, `PeersOfOwnTorrent`, `ReplacedGetsNoPeers`, `ClientIsServed`, `TrackersAreHeard` | peers reach a session of their torrent; only a stuck scheduler holds up the client |
| `MCLatePeer` | `MCScheduler` | 1 peer, abort | `KnownPeer` violated | section 4 |
| `MCLateData` | `MCScheduler` | 2 seeds, time-outs, failures | `DataHasBuffer` violated | section 4 |
| `MCRetry` | `MCScheduler` | 1 fair seed, a failure | `RetryAfterFailure` violated | section 4 |
| `MCIdle` | `MCScheduler` | 2 fair seeds, a disconnect | `IdlePeersAreAsked` violated | section 4 |
| `MCDiskLoses` | `MCDisk` | as `MCDisk`, writes may fail | `LostPieceIsRetried` violated | section 4 |

`KnownPeer` is checked twice: it holds as long as no reader is aborted in the middle of a
send (`MCRequests`) and fails when one is (`MCLatePeer`). So is `DataHasBuffer`: it holds as long
as no piece fails verification (`MCRequests`) and fails when one does (`MCLateData`).
`PanicsExplained` is the other side of these two violations: it lists what can make the scheduler panic,
message by message and fault by fault, and says that there is nothing else. In `MCRequests`, where no
reader is aborted, no piece fails and nobody strays, what is left of the list is the `Have` of
`scheduler.rs:321`; the theorem `PanicsAreExplained` is about the list as a whole. `AskedOnce` claims nothing once a
piece may fail verification: entries then outlive the buffer they refer to.
`OneDisconnectPerSlot` is in two runs, for the events of aborted readers are in the second only.

### Bounds

* `MaxAsked` (2): time passes, and verification fails, only while no peer owes two answers for
  the same block. Two is enough for an answer that was given up and asked for again; more
  would only repeat it. Without it `asked` would grow for ever.
* `MaxLate` (0 or 1): events held by aborted readers. One is enough to overtake a
  `Disconnect` and to meet a reused slot.
* `PEER_CHANNEL` (1 or 2): at 1 an event waits while another is being handled and everyone
  else waits for room; at 2 two events of different peers, or a `Disconnect` and a late
  event, are queued in either order.
* `Faults` and `Chatter` select per run what may go wrong and what peers say unasked. Every
  fault and every message occurs in some run; `Interested` and `NotInterested`, which set one field that
  no handler reads, are in one run each.
* `Strays` is one answer of another length (`MCVerify`): with the blocks that nobody asked for, which
  are all of them, it is what can be counted although nothing was asked, and panics while its piece is not
  begun. One that does not fit, or of a piece there is not, does nothing but panic; the theorems are
  about every set of `Strays`.
* Two peers suffice for every property over pairs of slots; the proofs do without the bound.
* Symmetry (addresses, slots) is used only in runs without liveness properties.
* The disk's files have 1, 0 and 3 bytes and its pieces 3 and 1: a piece over three files, an
  empty file in the middle of it, a file shared by two pieces, and a short last piece that ends
  with the last file. `MaxRestarts` is 1: a restart finds whatever the first run left, and a second
  one would find nothing of another kind.
* `MCTrackers`: one peer suffices to tell a list of this announce from one of an earlier; the
  other family lists nobody, so that success of one family alone occurs too. Three `Ids`: one in
  use, one left over, one fresh. `MaxCopies` is 1: it leaves a family one answer behind, which is
  the state the code does not get out of. `TRACKER_RESP` is 1, so that a report waits.
* `MCChannels` and `MCProgram`: at capacity 1 a channel is full after one message and every wait
  occurs. Two peers make the order of the sends to the peers matter, and one may hang while the other
  does not. One is found by a tracker, the other one comes in: both ways to a slot, with half the states
  of two peers that take both. `NumPieces` is 2, as many as the two channels of the disk task hold: the most
  `DiskNeverJammed` allows (with 3 TLC finds the two waiting for each other). `MaxAdds` is 2: the same
  torrent twice.
* Deadlock is not checked in the runs of `MCScheduler`, `MCDisk`, `Channels` and `Program`: a
  finished download stops, a panicked scheduler and a disk task that is gone do nothing more, a
  scheduler that waits for itself stops all (`scheduler.rs:276`), and when the client's task is
  gone the program stands still. In `MCTrackers` it is checked.

### Fairness

`FairSpec` adds weak fairness to the scheduler's handlers, connection attempts and the disk
task (tokio polls every ready task again and again), to the announcement of a tracked
address the scheduler does not know (trackers announce periodically), and strong fairness to
what a well-behaved peer must do: introduce itself with a bitfield, unchoke us, answer what
it was asked while it does not choke us. It is strong because a sender competes for room in `peer_rx`: tokio's `mpsc`
channel serves waiting senders in order, so a sender that again and again finds no room does
get it. Time passes and the watchdog, an arm of `select!` that is ready at every tick of its
interval, finds what has expired (weak fairness).
Failures, disconnects and chokes are never forced. A peer that chokes us owes nothing: it may keep or drop
what it was asked. `Finishes` is about peers that never choke us; `OnlyIdlenessStalls` is about peers that
choke us finitely often, and admits that the download may stop with a peer that `CanRequest` holds for and
nobody asks: the budget was full when it unchoked us, and the watchdog, which frees the blocks later, asks
for nothing.
`Disk`'s `FairSpec` adds weak fairness to the task, to the threads that write and to the scheduler's
handling of answers.
In `Trackers` the runtime runs a task that can go on, a datagram that is not lost is answered and
arrives, the session takes reports; the two sends that compete for room in one channel are
strongly fair, since tokio serves waiting senders in order. No announce is ever forced to begin.
In `Channels` the scheduler's sends, the disk task, and the writer and the handshake of every remote
that does not hang are weakly fair, and handling the session's events is strongly fair: `select!`
looks at its branches in random order, so a channel with something in it is not left out for ever
because others have something too. No remote has to send anything, end its connection or fail its
handshake; a task whose handshake has failed, or whose halves have ended, reports it once there is room.
In `Program` the client, a session's send and a scheduler that is not stuck are weakly fair,
the two branches of a session's `select!` strongly. No user, remote or tracker has to do anything;
a connection may be silent for ever.

### Variants and the properties that notice them

| property | variant of | mistake |
|---|---|---|
| `NoOrphanedRequest` | `RemovePeer` | the leaving peer's blocks are not released |
| `AskedOnce` | `ScanTimeouts` | expired blocks are released, their entries kept |
| `InFlightIsOwed` | `WithoutEntry` | an answered request stays in the list |
| `KnownPeer` | `TaskEnds` | the task goes on after its `Disconnect` |
| `VerifyOnce` | `HandOver` | the piece is not marked complete when handed over |
| `WholePieceToDisk` | `Reset` | the counter survives the reset |
| `DoneIsFinal` | `Candidates` | complete pieces are not skipped |
| `ImplementsDownload` | `CompleteAndCleanup` | a full reset after success |
| `AddressesHeldOnce` | `HandleConnectFailed` | the address is not forgotten |
| `OneDisconnectPerSlot` | `HandshakeFails`, `TaskEnds` | no `Disconnect` after a failed handshake; the task goes on after its `Disconnect` |
| `TypeOK` | `LazyInit` | the block count is rounded up once too often |
| `InFlightBound` | `MaybePushBlocks` | a full budget at every push |
| `DataHasBuffer` | `CompleteAndCleanup` | a full reset after success |
| `PanicsExplained` | `TaskEnds` | the task goes on after its `Disconnect` |
| `Finishes` | `AcceptData` | no push after a block is stored |
| `OnlyIdlenessStalls` | `ScanTimeouts` | expired entries go, their blocks stay Requested |
| `TypeOK` of `Disk` | `WriteLen` | the file is filled although less is left of the piece |
| `BytesInPlace` | `WriteLen` | all that is left goes to the current file |
| `StaysInFiles` | `FirstFile` | `partition_point` without the `saturating_sub(1)` |
| `ImplementsVerifier` | `TryHash` | no return after `HashFailed` |
| `VerifiedIsStored` | `Advance` | the loop ends after one file |
| `EveryPieceAnswered` | `Seek` | no `WriteFailed` after a failed seek |
| `TypeOK` of `Trackers` | `Send` | an unbounded channel |
| `NothingStale`, `BacklogBounded` | `Report` | `select!` in place of `join!` |
| `UDPImplementsAnnouncer` | `Expected` | the transaction id is not compared |
| `HTTPImplementsAnnouncer` | `HTTPReport` | no return after a failure has been reported |
| `AnnounceEnds` | `NoContext` | a missing context leaves its half of the `join!` pending |
| `TypeOK` of `Channels` | `SessionSends` | a channel without a bound |
| `DiskNeverJammed` | `Submit` | the buffer of a complete piece is submitted again |
| `SchedulerReturns` | `WriterTakes` | reader and writer take turns in one task |
| `SessionIsServed` | `Listening` | the command channel is there until the peer is removed |
| `TypeOK` of `Program` | `SendToClient` | a send that never waits |
| `PeersOfOwnTorrent` | `SessionOf` | the session is not looked up by its info hash |
| `ReplacedGetsNoPeers` | `Entry` | a torrent that is in the map keeps its entry |
| `ClientIsServed` | `SessionSends` | the session waits although the scheduler is gone |
| `TrackersAreHeard` | `TakeReport` | `select!` prefers incoming peers |

## 4. Where code and comments disagree

1. **A late event after `Disconnect`** (`MCLatePeer`). `run_peer` aborts its reader and posts
   `Disconnect` at once (`peers.rs:353-362`). A reader that is just sending may deliver its
   event afterwards. The handlers expect the peer to exist (`scheduler.rs:336` and
   others) and the scheduler panics; if the slot has been given to another peer, the event is
   charged to that one.
2. **An answer for a piece that was reset** (`MCLateData`). A block times out at one peer, the
   other answers, the piece fails verification and is reset; then the first peer answers.
   `handle_data` indexes the empty `block_status` (`scheduler.rs:490`).
3. **"Retry anyway"** (`MCRetry`). `handle_failure` resets the buffer and asks nobody
   (`scheduler.rs:534-540`); with all peers idle, no event ever leads to a request.
4. **"request iff ..."** (`MCIdle`). Blocks freed by a peer that leaves are offered to nobody
   (`scheduler.rs:285-308`, `387`); an idle unchoked peer that has them is never asked. The same happens
   after `scan_timeouts`: a peer that chokes us, drops what it was asked and unchokes us again is not
   asked again when its requests expire, since no event follows (`OnlyIdlenessStalls`).
5. **"either a hash or write failure"** (`MCDiskLoses`). The last write to a file fails after the
   piece has been confirmed, since nothing flushes the handle (`disk.rs:129-135`, `83`). The
   error is reported by the next write to the file, as the failure of another piece, or never.
   The lost piece stays complete and goes to the savefile.

Also in the model, and reached by the runs, though no text of the code promises otherwise:
`Have` before `Bitfield`, or of a piece beyond the last one, panics (`scheduler.rs:321`), and so does a
Piece message of a piece that does not exist (`487`), of one that was never begun or has been reset, or of
a block beyond its end (`490`), or with data that do not lie within the buffer (`497`); an answer of another
length counts for its whole block (`494`) and leaves its request in `in_flight`; `add_incoming_peer` blocks for ever when
`peer_rx` is full (`scheduler.rs:276`); `push_blocks` asks a peer for blocks of pieces it does
not have once another peer has initialised them (`scheduler.rs:439`); a resumed piece that
was already submitted is counted twice in `completed_pieces`, and its late failure makes it
missing again. After a kill the savefile may name a piece of which bytes are missing, because savefile
and data are written by different threads. A disk task that has died of an `expect` is not
noticed by the scheduler (`scheduler.rs:507`).

The following also happens in the models as in the code, and the properties say that nothing
beside it does; no text of the code promises otherwise:

* A remote that hangs, in its handshake or with a full socket, stops its torrent once its command
  channel is full (`scheduler.rs:526`), and so does a full `peer_rx` (`scheduler.rs:276`). One stuck
  scheduler then stops its session, the client, both listeners and the window's tasks
  (`client.rs:50`, `main.rs:49`, `ui.rs:30`), one channel after the other.
* A peer whose handshake has failed waits for room in `peer_rx` to say so (`peers.rs:341`), and still owns
  its command channel, which nobody reads. If the scheduler is just waiting for room there
  (`scheduler.rs:526`), they wait for each other for ever.
* A torrent of more than 2000 pieces could fill both channels of the disk task, and scheduler and disk
  task would wait for each other.
* A silent connection holds the listener of its address family (`main.rs:47`).
* Adding a running torrent again starts a second session that writes to the same files and the same
  savefile; the first one keeps its trackers and peers (`client.rs:31`).
* A lost datagram ends the announces of its tracker for good, in both families: `recv` has no
  time-out, `join!` waits for both, and a command is read between announces only (`udp.rs:78`, `287`).
* One repeated datagram leaves its family one answer behind: each later exchange takes the answer to
  the one before it and fails (`udp.rs:163`).
* A UDP tracker that gives an interval of 0 is asked again at once (`udp.rs:320`); the model has no
  time, but lets announces follow each other without pause.
* A response whose `peers` are neither bytes nor a list ends the HTTP tracker's task
  (`parser.rs:89`); one with nothing but a failure reason does not parse, since `peers` and `interval` are
  required (`trackers/commands.rs:13-15`), and is reported as a parse error.
* Nobody sends a `TrackerCommand`: `ForceReannounce` and `Shutdown` are in the model because the code
  handles them.

## 5. What is proved

All proofs rest on `GeometryAssumption` (the piece hashes cover the content exactly, only the
last piece is short), `SchedulerAssumption` (the constants have their types) and
`DiskAssumption` (the files follow one another and cover the content; they may be empty); those of
`ChannelProofs`, `TrackerProofs` and `ProgramProofs` on `ChannelsAssumption`,
`TrackerChannelAssumption`, `UDPTrackerAssumption` and `ProgramAssumption` (the constants have
their types). They hold for any number of pieces, blocks, peers, files, duplicates, listeners and
torrents, any capacity, any unasked or misfit block, and with all faults, but for the four that say otherwise:
`PeersAreKnown` excludes the abort of a reader, `DataFindsBuffer` and `EveryBlockAskedOnce` a piece
that fails verification (and with it stray blocks), `EveryEntryIsOwed` peers that choke us, since they
drop what they were asked. `PanicsAreExplained` excludes nothing. The runs `MCLatePeer` and `MCLateData` show
that `KnownPeer` and `DataHasBuffer` fail without.

| theorem | module | statement |
|---|---|---|
| `RequestsTilePiece` | `SchedulerProofs` | the requests for a piece are consecutive, none empty or longer than `BLOCK_SIZE`, the last ends where the piece ends |
| `TypeCorrect` | `SchedulerProofs` | `Spec => []TypeOK` |
| `InFlightBounded` | `SchedulerProofs` | `Spec => []InFlightBound` |
| `NoRequestIsOrphaned` | `RequestProofs` | `Spec => []NoOrphanedRequest` |
| `SlotsAreHeldOnce` | `ConnectionProofs` | `Spec => []OneDisconnectPerSlot` |
| `AddressesAreHeldOnce` | `ConnectionProofs` | `Spec => []AddressesHeldOnce` |
| `PeersAreKnown` | `ConnectionProofs` | `"abort" \notin Faults` implies `Spec => []KnownPeer` |
| `EveryEntryIsOwed` | `RequestProofs` | `Spec => []InFlightIsOwed` |
| `EveryBlockAskedOnce` | `RequestProofs` | `Spec => []AskedOnce` |
| `DataFindsBuffer` | `RequestProofs` | `"verify" \notin Faults` implies `Spec => []DataHasBuffer` |
| `PanicsAreExplained` | `RequestProofs` | `Spec => PanicsExplained` |
| `VerifiedOnce` | `PipelineProofs` | `Spec => []VerifyOnce` |
| `OnlyWholePiecesToDisk` | `PipelineProofs` | `Spec => []WholePieceToDisk` |
| `HavingIsFinal` | `PipelineProofs` | `Spec => DoneIsFinal` |
| `DownloadImplemented` | `PipelineProofs` | `Spec => ImplementsDownload` |
| `DiskTypeCorrect` | `DiskProofs` | `Spec => []TypeOK` |
| `EveryByteInPlace` | `DiskProofs` | `Spec => []BytesInPlace` |
| `NeverOutsideFiles` | `DiskProofs` | `Spec => []StaysInFiles` |
| `ConfirmedIsStored` | `DiskProofs` | `Spec => []VerifiedIsStored` |
| `VerifierImplemented` | `DiskProofs` | `Spec => ImplementsVerifier` |
| `NeverJammed` | `ChannelProofs` | `NumPieces <= DISK_EVENT + DISK_RESPONSE` implies `Spec => []DiskNeverJammed` |
| `ChannelsTypeCorrect` | `ChannelProofs` | `Spec => []TypeOK` |
| `TrackersTypeCorrect` | `TrackerProofs` | `Spec => []TypeOK` |
| `BacklogIsBounded` | `TrackerProofs` | `Spec => []BacklogBounded` |
| `NeverStale` | `TrackerProofs` | `Spec => []NothingStale` |
| `UDPAnnouncerImplemented` | `TrackerProofs` | `Spec => UDPImplementsAnnouncer` |
| `HTTPAnnouncerImplemented` | `TrackerProofs` | `Spec => HTTPImplementsAnnouncer` |
| `ProgramTypeCorrect` | `ProgramProofs` | `Spec => []TypeOK` |
| `PeersReachOwnTorrent` | `ProgramProofs` | `Spec => []PeersOfOwnTorrent` |
| `OnlyLatestGetsPeers` | `ProgramProofs` | `Spec => ReplacedGetsNoPeers` |

* `Typed` is `TypeOK /\ InFlightBound`. The two go together: the budget of a push is a
  difference, and is a number only because the lists are finite and within the bound. The
  bound of the list after a push needs a fact about `NewEntry`, that a free copy number always
  exists (`NewEntryTyped`).
* `NoOrphanedRequest` is inductive relative to `Typed`. The step that matters is
  `HandleData`: the entry it removes is the one of the block it marks `Received`, so no other
  block loses its owner; `RemovePeer` and `ScanTimeouts` release exactly the blocks of the
  entries they drop.
* Slots and addresses are counts. `SlotsHeld` says that a task and a queued `Disconnect` hold a slot
  together exactly once, `AddressesHeld` that a connection attempt, a queued `Connect` or
  `ConnectFailed` and a slot hold an address together exactly once. Every step is classified first
  (`ConnectionSteps`): one that moves a connection on, or a quiet one that takes or posts a message.
  Both need `LateFromPeers`: what an aborted reader still holds is a message, never a `Disconnect`, so that
  aborts do not disturb the counts. `AddressesHeld` needs that finitely many slots are in use
  (`FiniteSlots`), for the slots with an address are counted.
* `PeersAreKnown` needs more than its conclusion: the slot of every queued event is in use, and its
  `Disconnect` is behind all its other events (`QueueKnown`). An event is posted while the task lives,
  and then by `SlotsHeld` no `Disconnect` is queued. This is where an aborted reader breaks it.
* `EntriesOwed`, the inductive form of `InFlightIsOwed`, is inductive relative to `Typed`: a push adds
  an entry and an answer owed for each request, an answer that arrives takes one of each, and every
  other step leaves a connected peer more answers than entries. Only `Discards` does not, which needs a
  peer that chokes us.
* `AskedOnce` by itself is not inductive. `Single` adds that a block with an entry is marked `Requested`
  or `Received` (`Marked`), so that it is no candidate for the next push, and `NoneFailed` that no
  verdict on its way is a failure, which would clear the marks while entries live on. It rests on
  `Pipeline`: a verdict is about a piece that is complete.
* `AnswersBuffered` says of every block still owed, queued, or in the hands of an aborted reader that its
  piece is complete or has its vector. No step takes a vector from an unfinished piece but a reset
  (`BuffersStep`), and what a push asks for has one. `PanicsAreExplained` puts the pieces together. Of
  the handlers that can panic on what is no bad message by itself, `KnownPeer` excludes the missing
  peer where no reader is aborted; where no piece can fail, `DataHasBuffer` excludes the index of
  `handle_data` and `Marked` those of `scan_timeouts` and `remove_peer`; where one can, an index out of
  range is one into an empty vector (`NoVector`), since a vector that exists is as long as the piece.
* `Pipeline` is `VerifyOnce /\ WholePieceToDisk`, inductive relative to `Typed`. It needs both
  halves: a piece is whole when its counter reaches the number of its blocks because counter,
  marks and data agree (`BufferConsistent`), and they still agree after a failure because
  `HandleFailure` meets a piece that is complete and submitted once. Every step is classified
  first (`StepKinds`): quiet for all pieces, a submission, an answer taken, a piece hashed, or
  the savefile read.
* `ImplementsDownload` needs `SavefileFirst` as well: the savefile's list is the disk task's
  first answer, so that verdicts come after `Resume`.

* `Layout` is the disk task's inductive invariant: types, the opened files (`Opened`),
  `BytesInPlace`, `StaysInFiles`, and `Position`, the invariant of the write loop: it is in file
  `idx` or at its end, and what is left of the piece ends where the piece does. The step that
  matters is `Write`: when something is left, the file is full, so the next one begins at
  `piece_offset`, and there is a next one because the piece ends within the content.
* `ConfirmedIsStored` adds `Kept`: up to `piece_offset` the piece in hand is stored or in
  flight. `VerifierImplemented` adds `SavedVerified`: what is in the savefile, or on its way
  there, was confirmed.

* `NeverJammed` rests on a count (`Counted`): a piece is missing, in the scheduler's hand, on its
  way to the disk task, with it, or among its answers; and one answer, `CompletedPieces`, is about
  no piece. Both channels full and a piece on either side are more than there can be.
* `UDPInv` has four parts beside types. Without duplicates at most one datagram is under way in each
  family (`OneUnderWay`), and it is the one awaited (`NothingStale`); nothing is awaited between
  announces (`Quiet`), which is where `join!` matters; and a reply that carries the id in use lists
  peers known to this announce (`KnownPeers`), since an id is fresh when it is taken. `KnownPeers`
  holds with duplicates too, and `UDPAnnouncerImplemented` needs no more.

* `Backlog`, the form of `BacklogBounded` that is proved, adds that the sets of datagrams are finite. It is
  inductive relative to `UDPInv`: an exchange begins only when nothing is awaited in its family, which
  makes room for its request, and an answer taken leaves one datagram less.
* The type invariants of `Trackers` and `Channels` are not inductive alone: that contexts are made once
  and a family without one is never awaited (`ContextsKept`) comes with the first, the count of pieces (`Counted`) with
  the second, since `handle_failure` gives a piece back.
* `ProgramInv` has four parts. `CommandsInv` counts: sessions started, pickers at work and `AddTorrent`s on
  their way are no more than the adds, so that the client always has a number left for a session.
  `RoutingInv`: the map holds the latest session of each torrent, and a client that forwards a peer does
  so to the session in the map. Nothing can be added while it forwards, since the client is one task, and
  so `OnlyLatestGetsPeers` follows. `PeersInv` is `PeersOfOwnTorrent`; `TasksInv` are the types of the rest.

Every safety property of a passing run is a theorem. Checked by TLC only are the liveness
properties `Finishes`, `OnlyIdlenessStalls`, `EveryPieceAnswered`, `AnnounceEnds`, `SchedulerReturns`, `SessionIsServed`,
`ClientIsServed` and `TrackersAreHeard`, which rest on fairness and are out of the prover's reach. The
five violated properties are shown by TLC's counterexamples.

## 6. Not modelled, and the plan

In this order:

1. `Torrent`: `Scheduler` with a disk task that may be gone, and the chain from `Disk` over
   `Verifier` to `Scheduler`'s view of the disk as a checked refinement.
2. Savefile: records torn by a kill, and a savefile of another torrent (`disk.rs:56`).
3. `PeerWire`: framing, the cancellation hazard the repository's README tells of, and that the two
   tasks per socket avoid it.
4. The parser's operators (compact peer lists, handshake, bitfield) against reference definitions, and
   which torrents `parse_torrent` lets through that `GeometryAssumption` excludes (`scheduler.rs:315`).

No property covers that `push_blocks` asks peers for blocks they may not have (`scheduler.rs:439`): it
is in the model (`Candidates`), and no text of the code says what should happen instead.

Not planned: bencode decoding and the HTTP client, which are library calls without state of their
own; the layout of the window; time (intervals and the length of time-outs).
