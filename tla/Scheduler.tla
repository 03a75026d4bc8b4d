----------------------------- MODULE Scheduler ------------------------------
(***************************************************************************)
(* The scheduler task of one torrent (scheduler.rs): which peers it knows, *)
(* which blocks it has asked of which peer, what it has received, and what *)
(* it has handed to the disk task.                                         *)
(*                                                                         *)
(* The scheduler runs one handler at a time to its end; every handler is   *)
(* one action here.  Around it run the tasks it talks to: connection       *)
(* attempts, one run_peer task per slot (peers.rs) and the disk task       *)
(* (disk.rs).  They put events on peer_rx and disk_tx at their own pace.   *)
(*                                                                         *)
(* What is abstracted: bytes (a block has arrived or not), lengths of time *)
(* (a request is younger than REQUEST_TIMEOUT or not), and the bounded     *)
(* channels towards peers and disk, which never fill up here.              *)
(***************************************************************************)
EXTENDS Geometry, Sequences, FiniteSets

CONSTANTS
  Addr,           \* socket addresses
  Slot,           \* keys of the slab of PeerHandles
  MAX_IN_FLIGHT,  \* 40 in the code
  PEER_CHANNEL,   \* capacity of the channel behind peer_rx, 1500 in the code
  \* The environment of this instance.
  Tracked,        \* addresses the trackers return
  Incoming,       \* addresses that may connect to us
  Resumed,        \* pieces recorded in the savefile
  Bitfields,      \* the bitfields that peers announce
  Chatter,        \* kinds of message that peers send besides Data
  Strays,         \* the Piece messages that stray peers send and that are no blocks
  Faults,         \* which of FaultKind may happen
  MaxAsked,       \* no timeout or disk failure while a peer owes this many answers for one block
  MaxLate         \* events that aborted readers may still be holding

\* "stray": peers send blocks that nobody asked for, and Strays.
FaultKind == {"connect", "handshake", "disconnect", "abort", "timeout", "verify", "stray"}

\* A Piece message that is no block as push_blocks asks for it: its begin or length is
\* another, or there is no such block or piece.  `fits' says whether its data lie
\* within the piece's buffer.
NoSuchBlock == {<<p, NumBlocks(p)>> : p \in Piece} \cup {<<NumPieces, 0>>}

Misfit ==
  [request : Request, fits : BOOLEAN] \cup [request : NoSuchBlock, fits : {FALSE}]

ASSUME SchedulerAssumption ==
  /\ MAX_IN_FLIGHT \in Nat /\ PEER_CHANNEL \in Nat \ {0}
  /\ Tracked \subseteq Addr /\ Incoming \subseteq Addr
  /\ Resumed \subseteq Piece /\ Bitfields \subseteq SUBSET Piece
  /\ Faults \subseteq FaultKind
  /\ Strays \subseteq Misfit
  /\ "stray" \in Faults => "verify" \in Faults  \* what nobody asked for may be wrong
  /\ MaxAsked \in Nat /\ MaxLate \in Nat

VARIABLES
  sched,             \* the task: "running", "panicked", or "blocked" for ever
  existing_peers,    \* addresses being connected to or connected
  slots,             \* live slots, each with its PeerHandle
  pieces,            \* one PieceBuffer per piece
  completed_pieces,  \* counter shown to the user
  peer_rx,           \* FIFO of PeerEvents waiting for the scheduler
  connecting,        \* addresses with a TcpStream::connect in progress
  tasks,             \* state of the run_peer task of each slot
  asked,             \* how often a slot's peer still owes the answer for a block
  late,              \* events held by reader tasks that have been aborted
  disk,              \* the disk task: "starting" until it has read the savefile
  disk_rx,           \* FIFO of pieces to hash and write
  disk_tx            \* FIFO of DiskResponses waiting for the scheduler

peerVars == <<connecting, tasks, asked, late>>
diskVars == <<disk, disk_rx, disk_tx>>
schedVars == <<sched, existing_peers, slots, pieces, completed_pieces>>
vars == <<schedVars, peer_rx, peerVars, diskVars>>

-----------------------------------------------------------------------------
(***************************************************************************)
(* Data.  A PieceBuffer's block_status is a function on its blocks, or the *)
(* empty function when the vector is empty; data is the set of blocks for  *)
(* which an answer has been copied into the piece's buffer.                *)
(***************************************************************************)
BlockState == {"NotRequested", "Requested", "Received"}

NoBlocks == [b \in {} |-> "NotRequested"]

EmptyBuffer ==
  [status |-> NoBlocks, data |-> {}, blocks_received |-> 0, complete |-> FALSE]

\* Variant: the block count rounded up once too often.
LazyInitOneTooMany(p, buf) ==
  IF DOMAIN buf.status = {}
  THEN [buf EXCEPT !.status = [b \in 0 .. NumBlocks(p) |-> "NotRequested"], !.complete = FALSE]
  ELSE buf

LazyInit(p, buf) ==
  IF DOMAIN buf.status = {}
  THEN [buf EXCEPT !.status = [b \in Block(p) |-> "NotRequested"], !.complete = FALSE]
  ELSE buf

\* Variant: the full reset in place of the clean-up.
CompleteAndReset(buf) == EmptyBuffer

CompleteAndCleanup(buf) == [buf EXCEPT !.status = NoBlocks, !.data = {}]

\* Variant: the counter survives the reset.
ResetKeepsCount(buf) == [EmptyBuffer EXCEPT !.blocks_received = buf.blocks_received]

Reset(buf) == EmptyBuffer

NewPeerHandle(a) ==
  [addr |-> a, has_bitfield |-> FALSE, bitfield |-> {},
   am_choked |-> TRUE, am_interested |-> FALSE, peer_interested |-> FALSE,
   in_flight |-> {}]

(***************************************************************************)
(* in_flight is a Vec whose order does not matter: a set of entries, where *)
(* `copy' tells apart two entries for the same block (they differ in       *)
(* sent_at) and `expired' says that REQUEST_TIMEOUT has passed.            *)
(***************************************************************************)
NewEntry(entries, r) ==
  [request |-> r,
   copy    |-> CHOOSE k \in 0 .. Cardinality(entries) :
                 \A e \in entries : e.request = r => e.copy # k,
   expired |-> FALSE]

\* What every release of requests does: Requested blocks of unfinished pieces go
\* back to NotRequested.
Release(pcs, entries) ==
  [p \in Piece |->
     IF pcs[p].complete THEN pcs[p]
     ELSE [pcs[p] EXCEPT !.status =
             [b \in DOMAIN @ |->
                IF @[b] = "Requested" /\ \E e \in entries : e.request = <<p, b>>
                THEN "NotRequested" ELSE @[b]]]]

\* The index of the vector block_status is out of range: the handler panics.
ReleasePanics(pcs, entries) ==
  \E e \in entries : LET p == e.request[1] IN
    ~pcs[p].complete /\ e.request[2] \notin DOMAIN pcs[p].status

NothingAsked == [r \in Request |-> 0]

Handle(s) == slots[s]

AllInFlight == UNION {slots[s].in_flight : s \in DOMAIN slots}

-----------------------------------------------------------------------------
(***************************************************************************)
(* Asking a peer for blocks: maybe_push_blocks and push_blocks.            *)
(***************************************************************************)
CanRequest(h) ==
  /\ h.am_interested /\ ~h.am_choked
  /\ Cardinality(h.in_flight) <= MAX_IN_FLIGHT \div 2

\* Variant: complete pieces are not skipped.
CandidatesOfAllPieces(h, pcs) ==
  {r \in Request : LET buf == pcs[r[1]] IN
     IF DOMAIN buf.status = {} THEN r[1] \in h.bitfield
                               ELSE buf.status[r[2]] = "NotRequested"}

\* The blocks the loop of push_blocks would mark.  A piece whose vector exists is
\* searched whether or not the peer has the piece.
Candidates(h, pcs) ==
  {r \in Request : LET buf == pcs[r[1]] IN
     /\ ~buf.complete
     /\ IF DOMAIN buf.status = {} THEN r[1] \in h.bitfield
                                  ELSE buf.status[r[2]] = "NotRequested"}

\* The first n of C in the order of the loop (all of C if it has fewer).
FirstOf(C, n) ==
  {T \in SUBSET C :
     /\ Cardinality(T) = (IF Cardinality(C) < n THEN Cardinality(C) ELSE n)
     /\ \A t \in T, c \in C \ T : Before(t, c)}

MarkRequested(pcs, T) ==
  [p \in Piece |->
     IF \A b \in Block(p) : <<p, b>> \notin T THEN pcs[p]
     ELSE [LazyInit(p, pcs[p]) EXCEPT !.status =
             [b \in DOMAIN @ |-> IF <<p, b>> \in T THEN "Requested" ELSE @[b]]]]

\* Variant: a full budget each time, whatever is in flight already.
PushFullBudget(s, h, pcs) ==
  IF CanRequest(h)
  THEN \E T \in FirstOf(Candidates(h, pcs), MAX_IN_FLIGHT) :
         /\ pieces' = MarkRequested(pcs, T)
         /\ slots' = [slots EXCEPT ![s] =
              [h EXCEPT !.in_flight = @ \cup {NewEntry(@, r) : r \in T}]]
         /\ asked' = [asked EXCEPT ![s] =
              [r \in Request |-> IF r \in T THEN @[r] + 1 ELSE @[r]]]
  ELSE /\ pieces' = pcs
       /\ slots' = [slots EXCEPT ![s] = h]
       /\ UNCHANGED asked

\* The end of several handlers: h is the handle of slot s and pcs the pieces as the
\* handler has left them.
MaybePushBlocks(s, h, pcs) ==
  IF CanRequest(h)
  THEN \E T \in FirstOf(Candidates(h, pcs), MAX_IN_FLIGHT - Cardinality(h.in_flight)) :
         /\ pieces' = MarkRequested(pcs, T)
         /\ slots' = [slots EXCEPT ![s] =
              [h EXCEPT !.in_flight = @ \cup {NewEntry(@, r) : r \in T}]]
         /\ asked' = [asked EXCEPT ![s] =
              [r \in Request |-> IF r \in T THEN @[r] + 1 ELSE @[r]]]
  ELSE /\ pieces' = pcs
       /\ slots' = [slots EXCEPT ![s] = h]
       /\ UNCHANGED asked

-----------------------------------------------------------------------------
Init ==
  /\ sched = "running"
  /\ existing_peers = {}
  /\ slots = [s \in {} |-> NewPeerHandle(s)]
  /\ pieces = [p \in Piece |-> EmptyBuffer]
  /\ completed_pieces = 0
  /\ peer_rx = <<>>
  /\ connecting = {}
  /\ tasks = [s \in Slot |-> "none"]
  /\ asked = [s \in Slot |-> NothingAsked]
  /\ late = {}
  /\ disk = "starting"
  /\ disk_rx = <<>>
  /\ disk_tx = <<>>

Running == sched = "running"
Room == Len(peer_rx) < PEER_CHANNEL
Post(e) == peer_rx' = Append(peer_rx, e)

-----------------------------------------------------------------------------
(***************************************************************************)
(* The scheduler: messages from the session.                               *)
(***************************************************************************)
DedupAndStartPeers(list) ==
  /\ Running
  /\ existing_peers' = existing_peers \cup list
  /\ connecting' = connecting \cup (list \ existing_peers)
  /\ UNCHANGED <<sched, slots, pieces, completed_pieces, peer_rx, tasks, asked, late, diskVars>>

\* The scheduler sends to its own channel: when the channel is full nobody will
\* ever make room.
AddIncomingPeer(a) ==
  /\ Running
  /\ a \notin existing_peers
  /\ existing_peers' = existing_peers \cup {a}
  /\ \/ /\ Room
        /\ Post([type |-> "Connect", addr |-> a])
        /\ UNCHANGED sched
     \/ /\ ~Room
        /\ sched' = "blocked"
        /\ UNCHANGED peer_rx
  /\ UNCHANGED <<slots, pieces, completed_pieces, peerVars, diskVars>>

-----------------------------------------------------------------------------
(***************************************************************************)
(* The scheduler: events from peer tasks.                                  *)
(***************************************************************************)
Take(type) ==
  /\ Running
  /\ peer_rx # <<>>
  /\ Head(peer_rx).type = type
  /\ peer_rx' = Tail(peer_rx)

HasSlot(e) == e.type \notin {"Connect", "ConnectFailed"}

\* Every handler of a slot's event starts with slots.get_mut(slot_id).unwrap().
TakeFrom(type, s) ==
  /\ Take(type)
  /\ Head(peer_rx).slot = s
  /\ s \in DOMAIN slots

EventForMissingPeer ==
  /\ Running
  /\ peer_rx # <<>>
  /\ HasSlot(Head(peer_rx))
  /\ Head(peer_rx).slot \notin DOMAIN slots
  /\ peer_rx' = Tail(peer_rx)
  /\ sched' = "panicked"
  /\ UNCHANGED <<existing_peers, slots, pieces, completed_pieces, peerVars, diskVars>>

HandleConnect ==
  /\ Take("Connect")
  /\ \E s \in Slot \ DOMAIN slots :
       /\ slots' = [t \in DOMAIN slots \cup {s} |->
                      IF t = s THEN NewPeerHandle(Head(peer_rx).addr) ELSE slots[t]]
       /\ tasks' = [tasks EXCEPT ![s] = "handshake"]
  /\ UNCHANGED <<sched, existing_peers, pieces, completed_pieces>>
  /\ UNCHANGED <<connecting, asked, late, diskVars>>

\* Variant: the address is not forgotten.
ConnectFailedKeepsAddress ==
  /\ Take("ConnectFailed")
  /\ UNCHANGED <<schedVars, peerVars, diskVars>>

HandleConnectFailed ==
  /\ Take("ConnectFailed")
  /\ existing_peers' = existing_peers \ {Head(peer_rx).addr}
  /\ UNCHANGED <<sched, slots, pieces, completed_pieces, peerVars, diskVars>>

\* Variant: the peer's requests are not released.
RemovePeerKeepsRequests(s) ==
  /\ TakeFrom("Disconnect", s)
  /\ slots' = [t \in DOMAIN slots \ {s} |-> slots[t]]
  /\ existing_peers' = existing_peers \ {Handle(s).addr}
  /\ asked' = [asked EXCEPT ![s] = NothingAsked]
  /\ UNCHANGED <<sched, pieces, completed_pieces, connecting, tasks, late, diskVars>>

RemovePeer(s) ==
  /\ TakeFrom("Disconnect", s)
  /\ \/ /\ ReleasePanics(pieces, Handle(s).in_flight)
        /\ sched' = "panicked"
        /\ UNCHANGED <<existing_peers, slots, pieces, asked>>
     \/ /\ ~ReleasePanics(pieces, Handle(s).in_flight)
        /\ pieces' = Release(pieces, Handle(s).in_flight)
        /\ slots' = [t \in DOMAIN slots \ {s} |-> slots[t]]
        /\ existing_peers' = existing_peers \ {Handle(s).addr}
        /\ asked' = [asked EXCEPT ![s] = NothingAsked]
        /\ UNCHANGED sched
  /\ UNCHANGED <<completed_pieces, connecting, tasks, late, diskVars>>

HandleBitfield(s) ==
  /\ TakeFrom("Bitfield", s)
  /\ MaybePushBlocks(s, [Handle(s) EXCEPT !.has_bitfield = TRUE,
                           !.bitfield = Head(peer_rx).bits, !.am_interested = TRUE], pieces)
  /\ UNCHANGED <<sched, existing_peers, completed_pieces, connecting, tasks, late, diskVars>>

\* Setting a bit beyond the end of the bitfield panics.  That of a new handle is an
\* empty vector.
HavePanics(e) == ~Handle(e.slot).has_bitfield \/ e.piece \notin Piece

HandleHave(s) ==
  /\ TakeFrom("Have", s)
  /\ \/ /\ HavePanics(Head(peer_rx))
        /\ sched' = "panicked"
        /\ UNCHANGED <<slots, pieces, asked>>
     \/ /\ ~HavePanics(Head(peer_rx))
        /\ MaybePushBlocks(s, [Handle(s) EXCEPT !.bitfield = @ \cup {Head(peer_rx).piece},
                                 !.am_interested = TRUE], pieces)
        /\ UNCHANGED sched
  /\ UNCHANGED <<existing_peers, completed_pieces, connecting, tasks, late, diskVars>>

HandleChoke(s) ==
  /\ TakeFrom("Choke", s)
  /\ slots' = [slots EXCEPT ![s].am_choked = TRUE]
  /\ UNCHANGED <<sched, existing_peers, pieces, completed_pieces, peerVars, diskVars>>

HandleUnchoke(s) ==
  /\ TakeFrom("Unchoke", s)
  /\ \/ /\ Handle(s).am_choked
        /\ MaybePushBlocks(s, [Handle(s) EXCEPT !.am_choked = FALSE], pieces)
     \/ /\ ~Handle(s).am_choked
        /\ UNCHANGED <<slots, pieces, asked>>
  /\ UNCHANGED <<sched, existing_peers, completed_pieces, connecting, tasks, late, diskVars>>

HandleInterest(s) ==
  /\ \/ /\ TakeFrom("Interested", s)
        /\ slots' = [slots EXCEPT ![s].peer_interested = TRUE]
     \/ /\ TakeFrom("NotInterested", s)
        /\ slots' = [slots EXCEPT ![s].peer_interested = FALSE]
  /\ UNCHANGED <<sched, existing_peers, pieces, completed_pieces, peerVars, diskVars>>

-----------------------------------------------------------------------------
(***************************************************************************)
(* The scheduler: a block arrives.                                         *)
(***************************************************************************)
\* Variant: the answered request stays in the list.
EntryKept(entries, r) == {entries}

\* The in_flight list once `position' and `swap_remove' have run.
WithoutEntry(entries, r) ==
  LET same == {e \in entries : e.request = r}
  IN  IF same = {} THEN {entries} ELSE {entries \ {e} : e \in same}

StoreBlock(buf, b) ==
  [buf EXCEPT !.status = [@ EXCEPT ![b] = "Received"],
              !.blocks_received = @ + 1, !.data = @ \cup {b}]

AllReceived(buf) == buf.blocks_received = Cardinality(DOMAIN buf.status)

\* Variant: the piece is not marked complete until its verdict.
HandOverIncomplete(buf) == [buf EXCEPT !.data = {}]

\* The piece's data moves to the disk task.
HandOver(buf) == [buf EXCEPT !.complete = TRUE, !.data = {}]

\* A block nobody needs any more: no further request is made.
IgnoreData(s, h) ==
  /\ slots' = [slots EXCEPT ![s] = h]
  /\ UNCHANGED <<sched, pieces, asked, disk_rx>>

\* Variant: no further request once the block is stored.
AcceptDataOnly(s, h, r) ==
  LET p   == r[1]
      buf == StoreBlock(pieces[p], r[2])
  IN  /\ \/ /\ AllReceived(buf)
            /\ disk_rx' = Append(disk_rx, [piece |-> p, data |-> buf.data])
            /\ pieces' = [pieces EXCEPT ![p] = HandOver(buf)]
         \/ /\ ~AllReceived(buf)
            /\ pieces' = [pieces EXCEPT ![p] = buf]
            /\ UNCHANGED disk_rx
      /\ slots' = [slots EXCEPT ![s] = h]
      /\ UNCHANGED <<sched, asked>>

AcceptData(s, h, r) ==
  LET p   == r[1]
      buf == StoreBlock(pieces[p], r[2])
  IN  /\ \/ /\ AllReceived(buf)
            /\ disk_rx' = Append(disk_rx, [piece |-> p, data |-> buf.data])
            /\ MaybePushBlocks(s, h, [pieces EXCEPT ![p] = HandOver(buf)])
         \/ /\ ~AllReceived(buf)
            /\ UNCHANGED disk_rx
            /\ MaybePushBlocks(s, h, [pieces EXCEPT ![p] = buf])
      /\ UNCHANGED sched

HandleData(s) ==
  /\ TakeFrom("Data", s)
  /\ LET r   == Head(peer_rx).request
         buf == pieces[r[1]]
     IN  \E entries \in WithoutEntry(Handle(s).in_flight, r) :
           LET h == [Handle(s) EXCEPT !.in_flight = entries]
           IN  IF buf.complete THEN IgnoreData(s, h)
               ELSE IF r[2] \notin DOMAIN buf.status
               THEN sched' = "panicked" /\ UNCHANGED <<slots, pieces, asked, disk_rx>>
               ELSE IF buf.status[r[2]] = "Received" THEN IgnoreData(s, h)
               ELSE AcceptData(s, h, r)
  /\ UNCHANGED <<existing_peers, completed_pieces, connecting, tasks, late, disk, disk_tx>>

\* Out of range is the index of the piece, the index of the block, or the slice.
MisfitPanics(e) ==
  e.request[1] \in Piece =>
    LET buf == pieces[e.request[1]] IN
      /\ ~buf.complete
      /\ e.request[2] \in DOMAIN buf.status =>
           buf.status[e.request[2]] # "Received" /\ ~e.fits

Wanted(r) == ~pieces[r[1]].complete /\ pieces[r[1]].status[r[2]] # "Received"

\* The same handler for a Misfit.  No entry of in_flight equals it, and it counts as its
\* block all the same: that it does not fill the block only the hash can tell.
HandleMisfit(s) ==
  /\ TakeFrom("Misfit", s)
  /\ LET e == Head(peer_rx) IN
     \/ /\ MisfitPanics(e)
        /\ sched' = "panicked"
        /\ UNCHANGED <<slots, pieces, asked, disk_rx>>
     \/ /\ ~MisfitPanics(e) /\ ~Wanted(e.request)
        /\ IgnoreData(s, Handle(s))
     \/ /\ ~MisfitPanics(e) /\ Wanted(e.request)
        /\ AcceptData(s, Handle(s), e.request)
  /\ UNCHANGED <<existing_peers, completed_pieces, connecting, tasks, late, disk, disk_tx>>

-----------------------------------------------------------------------------
(***************************************************************************)
(* The scheduler: the watchdog and the answers of the disk task.           *)
(***************************************************************************)
\* Variant: expired blocks are released and their entries kept.
ScanKeepsEntries ==
  LET old == {e \in AllInFlight : e.expired} IN
  /\ Running
  /\ old # {}
  /\ ~ReleasePanics(pieces, old)
  /\ pieces' = Release(pieces, old)
  /\ UNCHANGED <<sched, existing_peers, slots, completed_pieces, peer_rx, peerVars, diskVars>>

\* Variant: the expired entries go, their blocks stay Requested.
ScanForgets ==
  LET old == {e \in AllInFlight : e.expired} IN
  /\ Running
  /\ old # {}
  /\ slots' = [s \in DOMAIN slots |->
       [slots[s] EXCEPT !.in_flight = {e \in @ : ~e.expired}]]
  /\ UNCHANGED <<sched, existing_peers, pieces, completed_pieces, peer_rx, peerVars, diskVars>>

ScanTimeouts ==
  LET old == {e \in AllInFlight : e.expired} IN
  /\ Running
  /\ old # {}
  /\ \/ /\ ReleasePanics(pieces, old)
        /\ sched' = "panicked"
        /\ UNCHANGED <<slots, pieces>>
     \/ /\ ~ReleasePanics(pieces, old)
        /\ pieces' = Release(pieces, old)
        /\ slots' = [s \in DOMAIN slots |->
             [slots[s] EXCEPT !.in_flight = {e \in @ : ~e.expired}]]
        /\ UNCHANGED sched
  /\ UNCHANGED <<existing_peers, completed_pieces, peer_rx, peerVars, diskVars>>

TakeResponse(type) ==
  /\ Running
  /\ disk_tx # <<>>
  /\ Head(disk_tx).type = type
  /\ disk_tx' = Tail(disk_tx)

ParseCompletedPieces ==
  /\ TakeResponse("CompletedPieces")
  /\ LET bits == Head(disk_tx).bits IN
     /\ pieces' = [p \in Piece |->
          IF p \in bits THEN [pieces[p] EXCEPT !.complete = TRUE] ELSE pieces[p]]
     /\ completed_pieces' = completed_pieces + Cardinality(bits)
  /\ UNCHANGED <<sched, existing_peers, slots, peer_rx, peerVars, disk, disk_rx>>

OnCompletePiece ==
  /\ TakeResponse("PieceHashedAndWritten")
  /\ pieces' = [pieces EXCEPT ![Head(disk_tx).piece] = CompleteAndCleanup(@)]
  /\ completed_pieces' = completed_pieces + 1
  /\ UNCHANGED <<sched, existing_peers, slots, peer_rx, peerVars, disk, disk_rx>>

HandleFailure ==
  /\ TakeResponse("Failed")
  /\ pieces' = [pieces EXCEPT ![Head(disk_tx).piece] = Reset(@)]
  /\ UNCHANGED <<sched, existing_peers, slots, completed_pieces, peer_rx, peerVars, disk, disk_rx>>

HandlePeerEvent ==
  \/ EventForMissingPeer
  \/ HandleConnect
  \/ HandleConnectFailed
  \/ \E s \in Slot : \/ RemovePeer(s)
                     \/ HandleBitfield(s)
                     \/ HandleHave(s)
                     \/ HandleChoke(s)
                     \/ HandleUnchoke(s)
                     \/ HandleInterest(s)
                     \/ HandleData(s)
                     \/ HandleMisfit(s)

HandleResponse == ParseCompletedPieces \/ OnCompletePiece \/ HandleFailure

SchedulerNext ==
  \/ \E list \in SUBSET Tracked \ {{}} : DedupAndStartPeers(list)
  \/ \E a \in Incoming : AddIncomingPeer(a)
  \/ HandlePeerEvent
  \/ ScanTimeouts
  \/ HandleResponse

-----------------------------------------------------------------------------
(***************************************************************************)
(* The tasks around the scheduler.  A panicked scheduler takes the session *)
(* down with it: nothing more is modelled.                                 *)
(***************************************************************************)
Alive == sched # "panicked"

\* TcpStream::connect ends, in the task that dedup_and_start_peers spawned.
ConnectDone(a) ==
  /\ Alive
  /\ a \in connecting
  /\ Room
  /\ connecting' = connecting \ {a}
  /\ \/ Post([type |-> "Connect", addr |-> a])
     \/ "connect" \in Faults /\ Post([type |-> "ConnectFailed", addr |-> a])
  /\ UNCHANGED <<schedVars, tasks, asked, late, diskVars>>

HandshakeOk(s) ==
  /\ Alive
  /\ tasks[s] = "handshake"
  /\ tasks' = [tasks EXCEPT ![s] = "running"]
  /\ UNCHANGED <<schedVars, peer_rx, connecting, asked, late, diskVars>>

\* Variant: the task reports Disconnect and goes on.
TaskReportsOnly(s) ==
  /\ Alive
  /\ Room
  /\ Post([type |-> "Disconnect", slot |-> s])
  /\ UNCHANGED <<schedVars, connecting, tasks, asked, diskVars>>

\* run_peer ends: its last act is the Disconnect event.  The peer's answers are lost.
TaskEnds(s) ==
  /\ Alive
  /\ Room
  /\ tasks' = [tasks EXCEPT ![s] = "none"]
  /\ asked' = [asked EXCEPT ![s] = NothingAsked]
  /\ Post([type |-> "Disconnect", slot |-> s])
  /\ UNCHANGED <<schedVars, connecting, diskVars>>

\* Variant: a failed handshake returns without the Disconnect event.
HandshakeFailsSilently(s) ==
  /\ "handshake" \in Faults
  /\ Alive
  /\ tasks[s] = "handshake"
  /\ tasks' = [tasks EXCEPT ![s] = "none"]
  /\ UNCHANGED <<schedVars, peer_rx, connecting, asked, late, diskVars>>

HandshakeFails(s) ==
  /\ "handshake" \in Faults
  /\ tasks[s] = "handshake"
  /\ TaskEnds(s)
  /\ UNCHANGED late

\* The messages that the peer of slot s may send now.  The reader checks no index:
\* NumPieces stands for every index of a piece that does not exist.
PeerMessages(s) ==
  {[type |-> k, slot |-> s] :
      k \in Chatter \cap {"Choke", "Unchoke", "Interested", "NotInterested"}}
  \cup {[type |-> k, slot |-> s, bits |-> B] : k \in Chatter \cap {"Bitfield"}, B \in Bitfields}
  \cup {[type |-> k, slot |-> s, piece |-> p] : k \in Chatter \cap {"Have"}, p \in 0 .. NumPieces}
  \cup {[type |-> "Data", slot |-> s, request |-> r] :
           r \in {q \in Request : "stray" \in Faults \/ asked[s][q] > 0}}
  \cup {[type |-> "Misfit", slot |-> s, request |-> m.request, fits |-> m.fits] :
           m \in {n \in Strays : "stray" \in Faults}}

\* The reader half has read a message from the socket and sends it on.
ReadMessage(s, m) ==
  /\ Alive
  /\ tasks[s] = "running"
  /\ Room
  /\ Post(m)
  /\ asked' = IF m.type = "Data" /\ asked[s][m.request] > 0
              THEN [asked EXCEPT ![s][m.request] = @ - 1] ELSE asked
  /\ UNCHANGED <<schedVars, connecting, tasks, late, diskVars>>

\* The peer chokes us, whether or not the scheduler has learned of it yet.
Choking(s) ==
  LET said == {i \in DOMAIN peer_rx :
                 peer_rx[i].type \in {"Choke", "Unchoke"} /\ peer_rx[i].slot = s}
  IN  IF said = {} THEN s \in DOMAIN slots /\ Handle(s).am_choked
      ELSE \E i \in said : peer_rx[i].type = "Choke" /\ \A j \in said : j <= i

\* A peer that chokes us drops what it was asked for, before or after it said so.
Discards(s) ==
  /\ Alive
  /\ "Choke" \in Chatter
  /\ tasks[s] = "running"
  /\ Choking(s)
  /\ asked' = [asked EXCEPT ![s] = NothingAsked]
  /\ UNCHANGED <<schedVars, peer_rx, connecting, tasks, late, diskVars>>

\* The reader half ends by itself: end of file, an error, a bad bitfield.
ReaderEnds(s) ==
  /\ "disconnect" \in Faults
  /\ tasks[s] = "running"
  /\ TaskEnds(s)
  /\ UNCHANGED late

\* The writer half fails and run_peer aborts the reader, which may be about to send
\* a message; run_peer does not wait for it to stop.  (An abort that catches the
\* reader idle looks like ReaderEnds.)
WriterEnds(s) ==
  /\ "abort" \in Faults
  /\ tasks[s] = "running"
  /\ TaskEnds(s)
  /\ Cardinality(late) < MaxLate
  /\ \E m \in PeerMessages(s) : late' = late \cup {m}

LateEvent(m) ==
  /\ Alive
  /\ late' = late \ {m}
  /\ \/ Room /\ Post(m)
     \/ UNCHANGED peer_rx
  /\ UNCHANGED <<schedVars, connecting, tasks, asked, diskVars>>

PeersNext ==
  \/ \E a \in Addr : ConnectDone(a)
  \/ \E s \in Slot : \/ HandshakeOk(s)
                     \/ HandshakeFails(s)
                     \/ \E m \in PeerMessages(s) : ReadMessage(s, m)
                     \/ Discards(s)
                     \/ ReaderEnds(s)
                     \/ WriterEnds(s)
  \/ \E m \in late : LateEvent(m)

Bounded == \A s \in Slot, r \in Request : asked[s][r] < MaxAsked

\* REQUEST_TIMEOUT passes for everything now in flight.
TimePasses ==
  /\ Running
  /\ "timeout" \in Faults /\ Bounded
  /\ \E e \in AllInFlight : ~e.expired
  /\ slots' = [s \in DOMAIN slots |->
       [slots[s] EXCEPT !.in_flight = {[e EXCEPT !.expired = TRUE] : e \in @}]]
  /\ UNCHANGED <<sched, existing_peers, pieces, completed_pieces, peer_rx, peerVars, diskVars>>

ReadSavefile ==
  /\ Alive
  /\ disk = "starting"
  /\ disk' = "ready"
  /\ disk_tx' = Append(disk_tx, [type |-> "CompletedPieces", bits |-> Resumed])
  /\ UNCHANGED <<schedVars, peer_rx, peerVars, disk_rx>>

\* "Failed" stands for HashFailed and WriteFailed, which the scheduler treats alike.
TryHashAndWrite ==
  /\ Alive
  /\ disk = "ready"
  /\ disk_rx # <<>>
  /\ disk_rx' = Tail(disk_rx)
  /\ \E verdict \in {"PieceHashedAndWritten", "Failed"} :
       /\ verdict = "Failed" => "verify" \in Faults /\ Bounded
       /\ disk_tx' = Append(disk_tx, [type |-> verdict, piece |-> Head(disk_rx).piece])
  /\ UNCHANGED <<schedVars, peer_rx, peerVars, disk>>

DiskNext == ReadSavefile \/ TryHashAndWrite

Next == SchedulerNext \/ PeersNext \/ TimePasses \/ DiskNext

Spec == Init /\ [][Next]_vars

(***************************************************************************)
(* Fairness: tokio polls every ready task again and again, the tracker     *)
(* keeps announcing, and a connected peer introduces itself, unchokes us,  *)
(* and answers what it was asked while it does not choke us.  A full       *)
(* channel serves waiting senders in order, hence strong fairness for what *)
(* peers send.  Time passes, and the watchdog finds expired requests.      *)
(* Faults and chokes are never forced.                                     *)
(***************************************************************************)
Introduces(s) ==
  /\ s \in DOMAIN slots
  /\ ~Handle(s).has_bitfield
  /\ \E m \in PeerMessages(s) : m.type = "Bitfield" /\ ReadMessage(s, m)

Unchokes(s) ==
  /\ s \in DOMAIN slots
  /\ Handle(s).am_choked
  /\ \E m \in PeerMessages(s) : m.type = "Unchoke" /\ ReadMessage(s, m)

Answers(s, r) ==
  /\ ~Choking(s)
  /\ asked[s][r] > 0
  /\ ReadMessage(s, [type |-> "Data", slot |-> s, request |-> r])

Fairness ==
  /\ \A a \in Tracked : WF_vars(DedupAndStartPeers({a}) /\ a \notin existing_peers)
  /\ \A a \in Addr : WF_vars(ConnectDone(a))
  /\ WF_vars(HandlePeerEvent) /\ WF_vars(HandleResponse)
  /\ WF_vars(TimePasses) /\ WF_vars(ScanTimeouts)
  /\ WF_vars(DiskNext)
  /\ \A s \in Slot :
       /\ WF_vars(HandshakeOk(s))
       /\ SF_vars(Introduces(s)) /\ SF_vars(Unchokes(s))
       /\ \A r \in Request : SF_vars(Answers(s, r))

FairSpec == Spec /\ Fairness
=============================================================================
