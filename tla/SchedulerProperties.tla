------------------------ MODULE SchedulerProperties -------------------------
(***************************************************************************)
(* What the scheduler of one torrent promises.                             *)
(***************************************************************************)
EXTENDS Scheduler

EntryType == [request : Request, copy : Nat, expired : BOOLEAN]

HandleType ==
  [addr : Addr, has_bitfield : BOOLEAN, bitfield : SUBSET Piece,
   am_choked : BOOLEAN, am_interested : BOOLEAN, peer_interested : BOOLEAN,
   in_flight : SUBSET EntryType]

BufferType(p) ==
  [status : [{} -> BlockState] \cup [Block(p) -> BlockState],
   data : SUBSET Block(p), blocks_received : Nat, complete : BOOLEAN]

EventType ==
  [type : {"Connect", "ConnectFailed"}, addr : Addr]
  \cup [type : {"Disconnect", "Choke", "Unchoke", "Interested", "NotInterested"}, slot : Slot]
  \cup [type : {"Bitfield"}, slot : Slot, bits : SUBSET Piece]
  \cup [type : {"Have"}, slot : Slot, piece : 0 .. NumPieces]
  \cup [type : {"Data"}, slot : Slot, request : Request]
  \cup [type : {"Misfit"}, slot : Slot, request : Request \cup NoSuchBlock, fits : BOOLEAN]

Verdict == {"PieceHashedAndWritten", "Failed"}

ResponseType ==
  [type : {"CompletedPieces"}, bits : SUBSET Piece]
  \cup [type : Verdict, piece : Piece]

SlotsType ==
  /\ DOMAIN slots \subseteq Slot
  /\ \A s \in DOMAIN slots : slots[s] \in HandleType /\ IsFiniteSet(slots[s].in_flight)

PiecesType ==
  /\ DOMAIN pieces = Piece
  /\ \A p \in Piece : pieces[p] \in BufferType(p)

DiskType ==
  /\ disk \in {"starting", "ready"}
  /\ disk_rx \in Seq([piece : Piece, data : SUBSET Nat])
  /\ disk_tx \in Seq(ResponseType)

\* Every variable has the shape the Rust types give it: a block_status vector is
\* empty or as long as the piece has blocks (lazy_init), queues hold the enums of
\* peers/commands.rs and disk/commands.rs.
TypeOK ==
  /\ sched \in {"running", "panicked", "blocked"}
  /\ existing_peers \subseteq Addr
  /\ completed_pieces \in Nat
  /\ SlotsType
  /\ PiecesType
  /\ peer_rx \in Seq(EventType)
  /\ connecting \subseteq Addr
  /\ tasks \in [Slot -> {"none", "handshake", "running"}]
  /\ asked \in [Slot -> [Request -> Nat]]
  /\ late \subseteq EventType
  /\ DiskType

-----------------------------------------------------------------------------
(***************************************************************************)
(* Where a piece is.                                                       *)
(***************************************************************************)
Verdicts == {i \in DOMAIN disk_tx : disk_tx[i].type \in Verdict}

\* The piece is with the disk task, or its verdict is on the way back.
Submitted(p) ==
  \/ \E i \in DOMAIN disk_rx : disk_rx[i].piece = p
  \/ \E i \in Verdicts : disk_tx[i].piece = p

Done(p) == pieces[p].complete /\ ~Submitted(p)

-----------------------------------------------------------------------------
(***************************************************************************)
(* Safety.                                                                 *)
(***************************************************************************)
\* A block marked Requested in an unfinished piece is in the in_flight list of some
\* peer, so that an answer, the watchdog or the removal of that peer frees it again:
\* handle_data, scan_timeouts and remove_peer never orphan a block.
NoOrphanedRequest ==
  \A p \in Piece : ~pieces[p].complete =>
    \A b \in DOMAIN pieces[p].status : pieces[p].status[b] = "Requested" =>
      \E s \in DOMAIN slots : \E e \in slots[s].in_flight : e.request = <<p, b>>

\* A piece is handed to the disk task at most once until its verdict has been
\* handled, and stays complete meanwhile, so that no peer is asked for it again:
\* whatever late or repeated answers handle_data sees.
VerifyOnce ==
  /\ \A i, j \in DOMAIN disk_rx : disk_rx[i].piece = disk_rx[j].piece => i = j
  /\ \A i, j \in Verdicts : disk_tx[i].piece = disk_tx[j].piece => i = j
  /\ \A i \in DOMAIN disk_rx, j \in Verdicts : disk_rx[i].piece # disk_tx[j].piece
  /\ \A p \in Piece : Submitted(p) => pieces[p].complete

\* The blocks counted, the blocks marked Received and the blocks for which an answer
\* was copied into the buffer of an unfinished piece are the same ones.
BufferConsistent(buf) ==
  ~buf.complete =>
    /\ buf.data = {b \in DOMAIN buf.status : buf.status[b] = "Received"}
    /\ buf.blocks_received = Cardinality(buf.data)

\* handle_data hands a piece to the disk task when for every one of its blocks an answer
\* has been copied into the buffer since the piece was begun, after any failures,
\* timeouts, duplicate and unasked answers: the counter blocks_received never runs ahead
\* of the data.  (An answer of another length counts for its whole block.)
WholePieceToDisk ==
  /\ \A i \in DOMAIN disk_rx : disk_rx[i].data = Block(disk_rx[i].piece)
  /\ \A p \in Piece : BufferConsistent(pieces[p])

\* maybe_push_blocks never lets more than MAX_IN_FLIGHT requests to one peer be
\* outstanding, whatever triggers it and however many blocks there are.
InFlightBound ==
  \A s \in DOMAIN slots : Cardinality(slots[s].in_flight) <= MAX_IN_FLIGHT

\* As long as no piece fails verification, a block is asked of one peer at a time,
\* and once: timeouts, disconnects and late answers never leave it in two in_flight
\* lists.
AskedOnce ==
  "verify" \notin Faults =>
    \A s, t \in DOMAIN slots : \A e \in slots[s].in_flight, f \in slots[t].in_flight :
      e.request = f.request => s = t /\ e = f

Owed(s, r) ==
  asked[s][r] + Cardinality({i \in DOMAIN peer_rx :
                    /\ peer_rx[i].type = "Data"
                    /\ peer_rx[i].slot = s
                    /\ peer_rx[i].request = r})

\* As long as peers do not choke us, and drop what they were asked, every entry of a
\* connected peer's in_flight list has an answer still to come: an entry that none can
\* remove uses up the peer's request budget until it expires.
InFlightIsOwed ==
  ("Choke" \notin Chatter /\ sched = "running") =>
    \A s \in DOMAIN slots : tasks[s] # "none" =>
      \A r \in Request :
        Cardinality({e \in slots[s].in_flight : e.request = r}) <= Owed(s, r)

\* How many connection attempts, queued connection events and slots have address a.
Holders(a) ==
  Cardinality(connecting \cap {a})
  + Cardinality({i \in DOMAIN peer_rx : ~HasSlot(peer_rx[i]) /\ peer_rx[i].addr = a})
  + Cardinality({s \in DOMAIN slots : slots[s].addr = a})

\* existing_peers, on which both tracker peers and incoming peers are deduplicated,
\* is exactly the addresses being connected to, announced or in a slot, each of them
\* once: no address is connected twice and none is barred for ever once it has
\* left (the debug_assert of run's Connect arm is a part of it).
AddressesHeldOnce ==
  sched # "blocked" =>
    \A a \in Addr : Holders(a) = IF a \in existing_peers THEN 1 ELSE 0

Disconnects(s) ==
  {i \in DOMAIN peer_rx : peer_rx[i].type = "Disconnect" /\ peer_rx[i].slot = s}

\* A slot is in use exactly while its run_peer task lives or its one Disconnect is
\* queued: the slab key is never reused under a living task, and remove_peer's
\* "Received removal event for unknown peer" is never reached.
OneDisconnectPerSlot ==
  sched # "panicked" =>
    \A s \in Slot :
      (IF tasks[s] = "none" THEN 0 ELSE 1) + Cardinality(Disconnects(s))
        = IF s \in DOMAIN slots THEN 1 ELSE 0

\* An event names a slot that is in use when the scheduler takes it: "Peer doesnt
\* exist", say the handlers' expects.
KnownPeer ==
  (Running /\ peer_rx # <<>> /\ HasSlot(Head(peer_rx))) => Head(peer_rx).slot \in DOMAIN slots

\* A block that arrives for an unfinished piece finds the piece's buffer: handle_data
\* "append[s] the data to an existing vector" (index and slice in range).
DataHasBuffer ==
  (Running /\ peer_rx # <<>> /\ Head(peer_rx).type = "Data") =>
    LET r == Head(peer_rx).request IN
      ~pieces[r[1]].complete => r[2] \in DOMAIN pieces[r[1]].status

\* The next event is one that its handler does not survive whatever it was sent for.
BadMessage ==
  /\ peer_rx # <<>>
  /\ LET e == Head(peer_rx) IN
       \/ e.type = "Have" /\ e.slot \in DOMAIN slots /\ HavePanics(e)
       \/ e.type = "Misfit" /\ MisfitPanics(e)

MissingPeer ==
  peer_rx # <<>> /\ HasSlot(Head(peer_rx)) /\ Head(peer_rx).slot \notin DOMAIN slots

\* The next answer, or a request in some list, is of an unfinished piece without a vector.
MissingBuffer ==
  \E r \in Request :
    /\ ~pieces[r[1]].complete /\ pieces[r[1]].status = NoBlocks
    /\ \/ \E e \in AllInFlight : e.request = r
       \/ peer_rx # <<>> /\ Head(peer_rx).type = "Data" /\ Head(peer_rx).request = r

\* What can make the scheduler panic: a Have before the bitfield or beyond its end, or a
\* Piece message that is no block we ask for; an event that overtakes its Disconnect,
\* only if readers are aborted; and a request or an answer for a piece that has been
\* reset, or was never begun, only if pieces may fail.  Nothing else does: in
\* particular no order of answers, timeouts, removals and reused slots.
PanicsExplained ==
  [][Running /\ sched' = "panicked" =>
       \/ BadMessage
       \/ "abort" \in Faults /\ MissingPeer
       \/ "verify" \in Faults /\ MissingBuffer]_vars

\* A piece whose verification is over and that is complete stays complete: neither a
\* late block nor push_blocks (lazy_init clears `complete') starts it again.
DoneIsFinal ==
  [][\A p \in Piece : Done(p) => pieces'[p].complete]_vars

-----------------------------------------------------------------------------
(***************************************************************************)
(* Refinement.                                                             *)
(***************************************************************************)
StateOf(p) ==
  CASE Submitted(p) -> "verifying"
    [] Done(p)      -> "have"
    [] OTHER        -> "missing"

SavefileHandled ==
  /\ disk = "ready"
  /\ \A i \in DOMAIN disk_tx : disk_tx[i].type # "CompletedPieces"

D == INSTANCE Download WITH
       state   <- [p \in Piece |-> StateOf(p)],
       resumed <- SavefileHandled,
       count   <- completed_pieces

\* Scheduler and disk task, with all their peers, implement the abstract download:
\* pieces are submitted, confirmed, rejected and resumed only as Download allows.
ImplementsDownload == D!Spec

-----------------------------------------------------------------------------
(***************************************************************************)
(* Liveness, under FairSpec.                                               *)
(***************************************************************************)
AllDone == \A p \in Piece : Done(p)

ChokeQueued == \E i \in DOMAIN peer_rx : peer_rx[i].type = "Choke"

\* A peer that does not choke us serves the whole torrent, even if each of its answers
\* comes after REQUEST_TIMEOUT and its block has been given up.
Finishes == []~ChokeQueued => <>AllDone

CouldRequest(s) ==
  /\ Running
  /\ s \in DOMAIN slots
  /\ tasks[s] = "running"
  /\ CanRequest(slots[s])
  /\ Candidates(slots[s], pieces) # {}

\* A peer that chokes us, drops what it was asked, and unchokes us again does not lose
\* us any block: if it chokes us finitely often, the download finishes, or nothing keeps
\* the peer from being asked again but that nobody does (IdlePeersAreAsked).
OnlyIdlenessStalls ==
  <>[]~ChokeQueued => <>AllDone \/ <>[](\E s \in Slot : CouldRequest(s))

FailedVerdict(p) == \E i \in DOMAIN disk_tx : disk_tx[i] = [type |-> "Failed", piece |-> p]

InFlight(p) == ~pieces[p].complete /\ \E e \in AllInFlight : e.request[1] = p

\* "Retry anyway, either a hash or write failure" (handle_failure): a piece that
\* fails is asked for again.
RetryAfterFailure == \A p \in Piece : FailedVerdict(p) ~> InFlight(p)

\* "request iff I am interested, not choked, and I have <= max requests in flight / 2"
\* (maybe_push_blocks): a peer that could be asked for a block that is not requested
\* does not stay idle for ever.
IdlePeersAreAsked == \A s \in Slot : CouldRequest(s) ~> ~CouldRequest(s)
=============================================================================
