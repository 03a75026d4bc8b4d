-------------------------- MODULE ConnectionProofs --------------------------
(***************************************************************************)
(* Who holds an address and a slot: for any number of peers, whatever they *)
(* do, the scheduler, its queue and the tasks around it agree.             *)
(***************************************************************************)
EXTENDS SchedulerProofs

USE DEF schedVars, peerVars, diskVars

-----------------------------------------------------------------------------
(***************************************************************************)
(* Counting in a queue.                                                    *)
(***************************************************************************)
Positions(q, E) == {i \in DOMAIN q : q[i] \in E}

\* How many elements of the queue q are in E.
CountIn(q, E) == Cardinality(Positions(q, E))

LEMMA CountNatural ==
  ASSUME NEW S, NEW q \in Seq(S), NEW E
  PROVE  IsFiniteSet(Positions(q, E)) /\ CountIn(q, E) \in Nat
<1>1. IsFiniteSet(1 .. Len(q)) /\ Positions(q, E) \in SUBSET (1 .. Len(q))
  BY FS_Interval DEF Positions
<1> QED
  BY <1>1, FS_Subset, FS_CardinalityType DEF CountIn

LEMMA CountEmpty == \A E : CountIn(<<>>, E) = 0
<1>1. \A E : Positions(<<>>, E) = {}
  BY DEF Positions
<1> QED
  BY <1>1, FS_EmptySet DEF CountIn

\* Posting an element counts it if it is in E.
LEMMA CountAppend ==
  ASSUME NEW S, NEW q \in Seq(S), NEW e \in S, NEW E
  PROVE  CountIn(Append(q, e), E) = CountIn(q, E) + (IF e \in E THEN 1 ELSE 0)
<1> DEFINE n == Len(q) + 1
<1>1. Append(q, e) \in Seq(S) /\ DOMAIN Append(q, e) = DOMAIN q \cup {n} /\ n \notin DOMAIN q
  OBVIOUS
<1>2. Append(q, e)[n] = e /\ \A i \in DOMAIN q : Append(q, e)[i] = q[i]
  OBVIOUS
<1>3. Positions(Append(q, e), E) = IF e \in E THEN Positions(q, E) \cup {n} ELSE Positions(q, E)
  BY <1>1, <1>2 DEF Positions
<1>4. IsFiniteSet(Positions(q, E)) /\ CountIn(q, E) \in Nat /\ n \notin Positions(q, E)
  BY <1>1, CountNatural DEF Positions
<1> HIDE DEF n
<1>5. CASE e \in E
  <2>1. Cardinality(Positions(q, E) \cup {n}) = Cardinality(Positions(q, E)) + 1
    BY <1>4, FS_AddElement
  <2> QED
    BY <1>3, <1>5, <2>1 DEF CountIn
<1>6. CASE e \notin E
  BY <1>3, <1>4, <1>6 DEF CountIn
<1> QED
  BY <1>5, <1>6

\* Taking the head counts it no more if it is in E.
LEMMA CountTail ==
  ASSUME NEW S, NEW q \in Seq(S), q # <<>>, NEW E
  PROVE  CountIn(q, E) = CountIn(Tail(q), E) + (IF Head(q) \in E THEN 1 ELSE 0)
<1> DEFINE P == Positions(q, E) \ {1}
           T == Positions(Tail(q), E)
           f == [i \in P |-> i - 1]
<1>1. /\ Tail(q) \in Seq(S) /\ Len(q) \in Nat \ {0} /\ Len(Tail(q)) = Len(q) - 1
      /\ DOMAIN q = 1 .. Len(q) /\ DOMAIN Tail(q) = 1 .. Len(Tail(q))
      /\ Head(q) = q[1]
      /\ \A i \in 1 .. Len(Tail(q)) : Tail(q)[i] = q[i + 1]
  OBVIOUS
<1>2. IsFiniteSet(Positions(q, E)) /\ IsFiniteSet(P) /\ CountIn(q, E) \in Nat
  BY CountNatural, FS_RemoveElement
<1>3. f \in [P -> T]
  <2>1. \A i \in P : i - 1 \in 1 .. Len(Tail(q)) /\ (i - 1) + 1 = i
    BY <1>1 DEF Positions
  <2> QED
    BY <1>1, <2>1 DEF Positions
<1>4. \A i, j \in P : f[i] = f[j] => i = j
  BY <1>1 DEF Positions
<1>5. \A k \in T : \E i \in P : f[i] = k
  <2>1. SUFFICES ASSUME NEW k \in T PROVE k + 1 \in P /\ (k + 1) - 1 = k
    OBVIOUS
  <2> QED
    BY <1>1 DEF Positions
<1>6. ExistsBijection(P, T)
  <2> HIDE DEF P, T, f
  <2>1. f \in Injection(P, T)
    BY <1>3, <1>4 DEF Injection, IsInjective
  <2>2. f \in Surjection(P, T)
    BY <1>3, <1>5 DEF Surjection
  <2> QED
    BY <2>1, <2>2 DEF Bijection, ExistsBijection
<1>7. Cardinality(T) = Cardinality(P)
  BY <1>2, <1>6, FS_Bijection
<1>8. 1 \in Positions(q, E) <=> Head(q) \in E
  BY <1>1 DEF Positions
<1>9. Cardinality(P) = IF Head(q) \in E THEN CountIn(q, E) - 1 ELSE CountIn(q, E)
  BY <1>2, <1>8, FS_RemoveElement DEF CountIn
<1> QED
  BY <1>2, <1>7, <1>9 DEF CountIn
-----------------------------------------------------------------------------
(***************************************************************************)
(* What the steps do to connections.  Most of them do nothing to them: they*)
(* take or post at most one message of a connected peer.                   *)
(***************************************************************************)
SlotMessage(e) == HasSlot(e) /\ e.type # "Disconnect"

\* What an aborted reader still holds is a message.
LateFromPeers == \A m \in late : SlotMessage(m)

SameConnections ==
  /\ UNCHANGED <<existing_peers, connecting>>
  /\ DOMAIN slots' = DOMAIN slots
  /\ \A t \in DOMAIN slots : slots'[t].addr = slots[t].addr
  /\ \A t \in Slot : tasks'[t] = "none" <=> tasks[t] = "none"
  /\ late' \subseteq late
  /\ sched' = sched \/ (Running /\ sched' = "panicked")

MessageTaken ==
  /\ peer_rx # <<>>
  /\ peer_rx' = Tail(peer_rx)
  /\ SlotMessage(Head(peer_rx))

\* By a task that runs, or by an aborted one.
MessagePosted ==
  \E m \in EventType :
    /\ peer_rx' = Append(peer_rx, m)
    /\ SlotMessage(m)
    /\ m \in late \/ tasks[m.slot] # "none"

QuietStep == SameConnections /\ (UNCHANGED peer_rx \/ MessageTaken \/ MessagePosted)

\* run_peer ends on its own, with its Disconnect.
TaskStops(s) ==
  /\ tasks[s] # "none"
  /\ TaskEnds(s)
  /\ late' \subseteq late \cup PeerMessages(s)
  /\ "abort" \notin Faults => late' = late

LEMMA PeerMessageIsMessage ==
  ASSUME NEW s \in Slot, NEW m \in PeerMessages(s)
  PROVE  m \in EventType /\ SlotMessage(m) /\ m.slot = s
<1>1. m \in EventType
  BY MessageTyped
<1>2. SlotMessage(m) /\ m.slot = s
  BY DEF PeerMessages, SlotMessage, HasSlot
<1> QED
  BY <1>1, <1>2

\* A push changes no address and no slot.
LEMMA PushSame ==
  ASSUME NEW s \in DOMAIN slots, NEW h \in HandleType, h.addr = slots[s].addr,
         NEW pcs, MaybePushBlocks(s, h, pcs)
  PROVE  /\ DOMAIN slots' = DOMAIN slots
         /\ \A t \in DOMAIN slots : slots'[t].addr = slots[t].addr
<1>1. PICK entries : slots' = [slots EXCEPT ![s] = [h EXCEPT !.in_flight = entries]]
                     \/ slots' = [slots EXCEPT ![s] = h]
  BY DEF MaybePushBlocks
<1>2. [h EXCEPT !.in_flight = entries].addr = slots[s].addr
  BY DEF HandleType
<1> HIDE DEF HandleType
<1> QED
  BY <1>1, <1>2

LEMMA MessageIsQuiet ==
  ASSUME Typed, NEW s \in Slot,
         \/ HandleBitfield(s) \/ HandleHave(s) \/ HandleChoke(s)
         \/ HandleUnchoke(s) \/ HandleInterest(s) \/ HandleData(s) \/ HandleMisfit(s)
  PROVE  QuietStep
<1>1. /\ s \in DOMAIN slots /\ Running
      /\ \E type \in {"Bitfield", "Have", "Choke", "Unchoke", "Interested", "NotInterested",
                      "Data", "Misfit"} :
           TakeFrom(type, s)
  BY DEF HandleBitfield, HandleHave, HandleChoke, HandleUnchoke, HandleInterest, HandleData,
         HandleMisfit, TakeFrom, Take
<1>2. MessageTaken
  BY <1>1 DEF TakeFrom, Take, MessageTaken, SlotMessage, HasSlot
<1>3. /\ UNCHANGED <<existing_peers, connecting, tasks, late>>
  BY DEF HandleBitfield, HandleHave, HandleChoke, HandleUnchoke, HandleInterest, HandleData,
         HandleMisfit
<1>4. sched' = sched \/ sched' = "panicked"
  BY DEF HandleBitfield, HandleHave, HandleChoke, HandleUnchoke, HandleInterest, HandleData,
         HandleMisfit, IgnoreData, AcceptData
<1>5. Handle(s) \in HandleType /\ Handle(s) = slots[s] /\ Head(peer_rx) \in EventType
  BY <1>1, TakeTyped DEF Typed, TypeOK, SlotsType, Handle, TakeFrom
<1>6. /\ DOMAIN slots' = DOMAIN slots
      /\ \A t \in DOMAIN slots : slots'[t].addr = slots[t].addr
  <2>1. CASE HandleBitfield(s)
    <3> DEFINE h == [Handle(s) EXCEPT !.has_bitfield = TRUE,
                       !.bitfield = Head(peer_rx).bits, !.am_interested = TRUE]
    <3>1. Head(peer_rx).bits \in SUBSET Piece
      BY <1>5, <2>1, EventFields DEF HandleBitfield, TakeFrom, Take
    <3>2. h \in HandleType /\ h.addr = slots[s].addr
      BY <1>5, <3>1 DEF HandleType
    <3>3. MaybePushBlocks(s, h, pieces)
      BY <2>1 DEF HandleBitfield
    <3> HIDE DEF h
    <3> QED
      BY <1>1, <3>2, <3>3, PushSame
  <2>2. CASE HandleHave(s)
    <3> DEFINE h == [Handle(s) EXCEPT !.bitfield = @ \cup {Head(peer_rx).piece}, !.am_interested = TRUE]
    <3>1. UNCHANGED slots \/ (MaybePushBlocks(s, h, pieces) /\ Head(peer_rx).piece \in Piece)
      BY <2>2 DEF HandleHave, HavePanics
    <3>2. Head(peer_rx).piece \in Piece => h \in HandleType /\ h.addr = slots[s].addr
      BY <1>5 DEF HandleType
    <3> HIDE DEF h
    <3> QED
      BY <1>1, <3>1, <3>2, PushSame
  <2>3. CASE HandleUnchoke(s)
    <3> DEFINE h == [Handle(s) EXCEPT !.am_choked = FALSE]
    <3>1. h \in HandleType /\ h.addr = slots[s].addr
      BY <1>5 DEF HandleType
    <3>2. MaybePushBlocks(s, h, pieces) \/ UNCHANGED slots
      BY <2>3 DEF HandleUnchoke
    <3> HIDE DEF h
    <3> QED
      BY <1>1, <3>1, <3>2, PushSame
  <2>4. CASE HandleChoke(s) \/ HandleInterest(s)
    BY <1>1, <1>5, <2>4 DEF HandleChoke, HandleInterest, HandleType
  <2>5. CASE HandleData(s)
    <3> DEFINE r == Head(peer_rx).request
    <3>1. PICK entries \in WithoutEntry(Handle(s).in_flight, r) :
            LET h == [Handle(s) EXCEPT !.in_flight = entries] IN
            IgnoreData(s, h) \/ UNCHANGED slots \/ AcceptData(s, h, r)
      BY <2>5 DEF HandleData
    <3> DEFINE h == [Handle(s) EXCEPT !.in_flight = entries]
    <3>2. entries \subseteq Handle(s).in_flight
      BY DEF WithoutEntry
    <3>3. h \in HandleType /\ h.addr = slots[s].addr
      BY <1>5, <3>2 DEF HandleType
    <3>4. slots' = [slots EXCEPT ![s] = h] \/ UNCHANGED slots \/ \E pcs : MaybePushBlocks(s, h, pcs)
      BY <3>1 DEF IgnoreData, AcceptData
    <3> HIDE DEF h
    <3> QED
      BY <1>1, <3>3, <3>4, PushSame
  <2>6. CASE HandleMisfit(s)
    <3>1. \/ slots' = [slots EXCEPT ![s] = Handle(s)] \/ UNCHANGED slots
          \/ \E pcs : MaybePushBlocks(s, Handle(s), pcs)
      BY <2>6 DEF HandleMisfit, IgnoreData, AcceptData
    <3> QED
      BY <1>1, <1>5, <3>1, PushSame
  <2> QED
    BY <2>1, <2>2, <2>3, <2>4, <2>5, <2>6
<1> QED
  BY <1>1, <1>2, <1>3, <1>4, <1>6 DEF QuietStep, SameConnections

\* The watchdog, the verdicts and the passing of time.
LEMMA TimeoutsAndVerdictsAreQuiet ==
  ASSUME Typed, ScanTimeouts \/ ParseCompletedPieces \/ OnCompletePiece \/ HandleFailure \/ TimePasses
  PROVE  QuietStep
<1>1. UNCHANGED <<existing_peers, connecting, tasks, late, peer_rx>>
  BY DEF ScanTimeouts, ParseCompletedPieces, OnCompletePiece, HandleFailure, TimePasses
<1>2. sched' = sched \/ (Running /\ sched' = "panicked")
  BY DEF ScanTimeouts, ParseCompletedPieces, OnCompletePiece, HandleFailure, TimePasses
<1>3. \A t \in DOMAIN slots : \A E : [slots[t] EXCEPT !.in_flight = E].addr = slots[t].addr
  BY DEF Typed, TypeOK, SlotsType, HandleType
<1>4. \/ UNCHANGED slots
      \/ /\ DOMAIN slots' = DOMAIN slots
         /\ \A t \in DOMAIN slots : \E E : slots'[t] = [slots[t] EXCEPT !.in_flight = E]
  <2>1. CASE ScanTimeouts
    BY <2>1 DEF ScanTimeouts
  <2>2. CASE TimePasses
    BY <2>2 DEF TimePasses
  <2>3. CASE ParseCompletedPieces \/ OnCompletePiece \/ HandleFailure
    BY <2>3 DEF ParseCompletedPieces, OnCompletePiece, HandleFailure
  <2> QED
    BY <2>1, <2>2, <2>3
<1>5. /\ DOMAIN slots' = DOMAIN slots
      /\ \A t \in DOMAIN slots : slots'[t].addr = slots[t].addr
  BY <1>3, <1>4
<1> QED
  BY <1>1, <1>2, <1>5 DEF QuietStep, SameConnections

\* The tasks: a message is read or arrives late, a handshake ends, a peer drops what it was
\* asked, the disk task works.
LEMMA TasksAreQuiet ==
  ASSUME Typed, LateFromPeers,
         \/ \E s \in Slot : HandshakeOk(s)
         \/ \E s \in Slot : \E m \in PeerMessages(s) : ReadMessage(s, m)
         \/ \E m \in late : LateEvent(m)
         \/ \E s \in Slot : Discards(s)
         \/ DiskNext
         \/ UNCHANGED vars
  PROVE  QuietStep
<1>1. CASE \E s \in Slot : HandshakeOk(s)
  BY <1>1 DEF HandshakeOk, QuietStep, SameConnections, Typed, TypeOK
<1>2. CASE \E s \in Slot : \E m \in PeerMessages(s) : ReadMessage(s, m)
  <2>1. PICK s \in Slot : \E m \in PeerMessages(s) : ReadMessage(s, m)
    BY <1>2
  <2>2. PICK m \in PeerMessages(s) : ReadMessage(s, m)
    BY <2>1
  <2>3. m \in EventType /\ SlotMessage(m) /\ m.slot = s
    BY PeerMessageIsMessage
  <2>4. MessagePosted
    BY <2>2, <2>3 DEF MessagePosted, ReadMessage, Post
  <2> QED
    BY <2>2, <2>4 DEF ReadMessage, QuietStep, SameConnections
<1>3. CASE \E m \in late : LateEvent(m)
  <2>1. PICK m \in late : LateEvent(m)
    BY <1>3
  <2>2. m \in EventType /\ SlotMessage(m)
    BY DEF LateFromPeers, Typed, TypeOK
  <2>3. MessagePosted \/ UNCHANGED peer_rx
    BY <2>1, <2>2 DEF MessagePosted, LateEvent, Post
  <2> QED
    BY <2>1, <2>3 DEF LateEvent, QuietStep, SameConnections
<1>4. CASE (\E s \in Slot : Discards(s)) \/ DiskNext \/ UNCHANGED vars
  BY <1>4 DEF Discards, DiskNext, ReadSavefile, TryHashAndWrite, vars, QuietStep, SameConnections
<1> QED
  BY <1>1, <1>2, <1>3, <1>4

LEMMA TaskEndsStops ==
  ASSUME NEW s \in Slot, HandshakeFails(s) \/ ReaderEnds(s) \/ WriterEnds(s)
  PROVE  TaskStops(s)
BY DEF HandshakeFails, ReaderEnds, WriterEnds, TaskStops

\* Every step is one that moves a connection on, or a quiet one.
LEMMA ConnectionSteps ==
  ASSUME Typed, LateFromPeers, [Next]_vars
  PROVE  \/ \E list \in SUBSET Tracked \ {{}} : DedupAndStartPeers(list)
         \/ \E a \in Incoming : AddIncomingPeer(a)
         \/ \E a \in Addr : ConnectDone(a)
         \/ HandleConnect
         \/ HandleConnectFailed
         \/ EventForMissingPeer
         \/ \E s \in Slot : RemovePeer(s)
         \/ \E s \in Slot : TaskStops(s)
         \/ QuietStep
<1>1. CASE SchedulerNext
  BY <1>1, MessageIsQuiet, TimeoutsAndVerdictsAreQuiet
     DEF SchedulerNext, HandlePeerEvent, HandleResponse
<1>2. CASE PeersNext
  BY <1>2, TasksAreQuiet, TaskEndsStops DEF PeersNext
<1>3. CASE TimePasses \/ DiskNext \/ UNCHANGED vars
  BY <1>3, TasksAreQuiet, TimeoutsAndVerdictsAreQuiet
<1> QED
  BY <1>1, <1>2, <1>3 DEF Next
\* A quiet step changes the number of no other events in the queue.
LEMMA QuietCount ==
  ASSUME Typed, QuietStep, NEW E, \A e \in E : ~SlotMessage(e)
  PROVE  CountIn(peer_rx', E) = CountIn(peer_rx, E)
<1>1. peer_rx \in Seq(EventType) /\ CountIn(peer_rx, E) \in Nat
  BY CountNatural DEF Typed, TypeOK
<1>2. CASE MessageTaken
  <2>1. Head(peer_rx) \notin E /\ peer_rx # <<>> /\ peer_rx' = Tail(peer_rx)
    BY <1>2 DEF MessageTaken
  <2>2. Tail(peer_rx) \in Seq(EventType)
    BY <1>1, <2>1
  <2>3. CountIn(Tail(peer_rx), E) \in Nat
    BY <2>2, CountNatural
  <2> QED
    BY <1>1, <2>1, <2>3, CountTail
<1>3. CASE MessagePosted
  BY <1>1, <1>3, CountAppend DEF MessagePosted
<1> QED
  BY <1>2, <1>3 DEF QuietStep

\* Readers that are aborted hold messages, never a Disconnect or a new connection.
LEMMA LateStep ==
  ASSUME Typed, LateFromPeers, [Next]_vars
  PROVE  LateFromPeers'
<1>1. CASE \E s \in Slot : TaskStops(s)
  BY <1>1, PeerMessageIsMessage DEF TaskStops, LateFromPeers, SlotMessage, HasSlot
<1>2. CASE late' \subseteq late
  BY <1>2 DEF LateFromPeers, SlotMessage, HasSlot
<1> QED
  BY <1>1, <1>2, ConnectionSteps
     DEF DedupAndStartPeers, AddIncomingPeer, ConnectDone, HandleConnect, HandleConnectFailed,
         EventForMissingPeer, RemovePeer, QuietStep, SameConnections

\* A scheduler that has panicked, or waits for ever in a send, does nothing more.
LEMMA EndIsFinal ==
  ASSUME Typed, LateFromPeers, [Next]_vars
  PROVE  sched' # sched => sched = "running"
BY ConnectionSteps
   DEF DedupAndStartPeers, AddIncomingPeer, ConnectDone, HandleConnect, HandleConnectFailed, Take, TakeFrom,
       EventForMissingPeer, RemovePeer, TaskStops, TaskEnds, QuietStep, SameConnections, Running

-----------------------------------------------------------------------------
(***************************************************************************)
(* Slots.                                                                  *)
(***************************************************************************)
DisconnectOf(s) == {e \in EventType : e.type = "Disconnect" /\ e.slot = s}

Living(s) == IF tasks[s] = "none" THEN 0 ELSE 1

\* A slot is held by its task or by its Disconnect.
HeldOnce(s) == Living(s) + CountIn(peer_rx, DisconnectOf(s)) = IF s \in DOMAIN slots THEN 1 ELSE 0

SlotsHeld == sched # "panicked" => \A s \in Slot : HeldOnce(s)

LEMMA DisconnectsCounted ==
  ASSUME TypeOK, NEW s
  PROVE  Cardinality(Disconnects(s)) = CountIn(peer_rx, DisconnectOf(s))
<1>1. \A i \in DOMAIN peer_rx : peer_rx[i] \in EventType
  BY DEF TypeOK
<1>2. Disconnects(s) = Positions(peer_rx, DisconnectOf(s))
  BY <1>1 DEF Disconnects, Positions, DisconnectOf
<1> QED
  BY <1>2 DEF CountIn

\* A step that keeps a slot's task, its Disconnects and its handle keeps it held.
LEMMA SameHeld ==
  ASSUME NEW s \in Slot, HeldOnce(s),
         tasks'[s] = "none" <=> tasks[s] = "none",
         CountIn(peer_rx', DisconnectOf(s)) = CountIn(peer_rx, DisconnectOf(s)),
         s \in DOMAIN slots' <=> s \in DOMAIN slots
  PROVE  HeldOnce(s)'
BY DEF HeldOnce, Living, DisconnectOf

LEMMA DisconnectCountTaken ==
  ASSUME Typed, peer_rx # <<>>, peer_rx' = Tail(peer_rx), NEW s
  PROVE  /\ CountIn(peer_rx', DisconnectOf(s)) \in Nat
         /\ CountIn(peer_rx, DisconnectOf(s)) = CountIn(peer_rx', DisconnectOf(s))
              + IF Head(peer_rx).type = "Disconnect" /\ Head(peer_rx).slot = s THEN 1 ELSE 0
<1>1. peer_rx \in Seq(EventType) /\ Tail(peer_rx) \in Seq(EventType) /\ Head(peer_rx) \in EventType
  BY QueueTail DEF Typed, TypeOK
<1>2. Head(peer_rx) \in DisconnectOf(s) <=> Head(peer_rx).type = "Disconnect" /\ Head(peer_rx).slot = s
  BY <1>1 DEF DisconnectOf
<1>3. CountIn(Tail(peer_rx), DisconnectOf(s)) \in Nat
  BY <1>1, CountNatural
<1> QED
  BY <1>1, <1>2, <1>3, CountTail

LEMMA DisconnectCountPosted ==
  ASSUME Typed, NEW e \in EventType, Post(e), NEW s
  PROVE  /\ CountIn(peer_rx, DisconnectOf(s)) \in Nat
         /\ CountIn(peer_rx', DisconnectOf(s)) = CountIn(peer_rx, DisconnectOf(s))
              + IF e.type = "Disconnect" /\ e.slot = s THEN 1 ELSE 0
<1>1. peer_rx \in Seq(EventType) /\ peer_rx' = Append(peer_rx, e)
  BY DEF Typed, TypeOK, Post
<1>2. e \in DisconnectOf(s) <=> e.type = "Disconnect" /\ e.slot = s
  BY DEF DisconnectOf
<1> QED
  BY <1>1, <1>2, CountNatural, CountAppend
LEMMA SlotsHeldStep ==
  ASSUME Typed, LateFromPeers, SlotsHeld, [Next]_vars
  PROVE  SlotsHeld'
<1>1. SUFFICES ASSUME sched' # "panicked", NEW s \in Slot PROVE HeldOnce(s)'
  BY DEF SlotsHeld
<1>2. sched # "panicked" /\ HeldOnce(s)
  BY <1>1, EndIsFinal DEF SlotsHeld
<1>3. peer_rx \in Seq(EventType) /\ CountIn(peer_rx, DisconnectOf(s)) \in Nat
  BY CountNatural DEF Typed, TypeOK
<1>4. CASE \E list \in SUBSET Tracked \ {{}} : DedupAndStartPeers(list)
  BY <1>2, <1>4, SameHeld DEF DedupAndStartPeers
<1>5. CASE \E a \in Incoming : AddIncomingPeer(a)
  <2>1. PICK a \in Incoming : AddIncomingPeer(a)
    BY <1>5
  <2> DEFINE e == [type |-> "Connect", addr |-> a]
  <2>2. e \in EventType /\ e.type = "Connect"
    BY EventTyped, SchedulerAssumption
  <2>3. Post(e) \/ UNCHANGED peer_rx
    BY <2>1 DEF AddIncomingPeer
  <2> HIDE DEF e
  <2>4. CountIn(peer_rx', DisconnectOf(s)) = CountIn(peer_rx, DisconnectOf(s))
    BY <1>3, <2>2, <2>3, DisconnectCountPosted
  <2> QED
    BY <1>2, <2>1, <2>4, SameHeld DEF AddIncomingPeer
<1>6. CASE \E a \in Addr : ConnectDone(a)
  <2>1. PICK a \in Addr : ConnectDone(a)
    BY <1>6
  <2>2. PICK e \in EventType : Post(e) /\ e.type # "Disconnect"
    BY <2>1, EventTyped DEF ConnectDone
  <2>3. CountIn(peer_rx', DisconnectOf(s)) = CountIn(peer_rx, DisconnectOf(s))
    BY <2>2, DisconnectCountPosted
  <2> QED
    BY <1>2, <2>1, <2>3, SameHeld DEF ConnectDone
<1>7. CASE HandleConnect
  <2>1. PICK t \in Slot \ DOMAIN slots :
          /\ DOMAIN slots' = DOMAIN slots \cup {t}
          /\ tasks' = [tasks EXCEPT ![t] = "handshake"]
    BY <1>7 DEF HandleConnect
  <2>2. CountIn(peer_rx', DisconnectOf(s)) = CountIn(peer_rx, DisconnectOf(s))
    BY <1>7, DisconnectCountTaken DEF HandleConnect, Take
  <2>3. CASE s # t
    BY <1>2, <2>1, <2>2, <2>3, SameHeld DEF Typed, TypeOK
  <2>4. CASE s = t
    <3>1. tasks[s] = "none" /\ CountIn(peer_rx, DisconnectOf(s)) = 0
      BY <1>2, <1>3, <2>1, <2>4 DEF HeldOnce, Living
    <3>2. tasks'[s] = "handshake" /\ s \in DOMAIN slots'
      BY <2>1, <2>4 DEF Typed, TypeOK
    <3> QED
      BY <2>2, <3>1, <3>2 DEF HeldOnce, Living, DisconnectOf
  <2> QED
    BY <2>3, <2>4
<1>8. CASE HandleConnectFailed
  <2>1. CountIn(peer_rx', DisconnectOf(s)) = CountIn(peer_rx, DisconnectOf(s))
    BY <1>8, DisconnectCountTaken DEF HandleConnectFailed, Take
  <2> QED
    BY <1>2, <1>8, <2>1, SameHeld DEF HandleConnectFailed
<1>9. CASE EventForMissingPeer
  BY <1>1, <1>9 DEF EventForMissingPeer
<1>10. CASE \E t \in Slot : RemovePeer(t)
  <2>1. PICK t \in Slot : RemovePeer(t)
    BY <1>10
  <2>2. /\ peer_rx # <<>> /\ peer_rx' = Tail(peer_rx)
        /\ Head(peer_rx).type = "Disconnect" /\ Head(peer_rx).slot = t
        /\ t \in DOMAIN slots /\ DOMAIN slots' = DOMAIN slots \ {t} /\ tasks' = tasks
    BY <1>1, <2>1 DEF RemovePeer, TakeFrom, Take
  <2>3. CASE s # t
    <3>1. CountIn(peer_rx', DisconnectOf(s)) = CountIn(peer_rx, DisconnectOf(s))
      BY <2>2, <2>3, DisconnectCountTaken
    <3> QED
      BY <1>2, <2>2, <2>3, <3>1, SameHeld
  <2>4. CASE s = t
    <3>1. /\ CountIn(peer_rx', DisconnectOf(s)) \in Nat
          /\ CountIn(peer_rx, DisconnectOf(s)) = CountIn(peer_rx', DisconnectOf(s)) + 1
      BY <2>2, <2>4, DisconnectCountTaken
    <3>2. CountIn(peer_rx', DisconnectOf(s)) = 0 /\ tasks[s] = "none"
      BY <1>2, <2>2, <2>4, <3>1 DEF HeldOnce, Living
    <3> QED
      BY <2>2, <2>4, <3>2 DEF HeldOnce, Living, DisconnectOf
  <2> QED
    BY <2>3, <2>4
<1>11. CASE \E t \in Slot : TaskStops(t)
  <2>1. PICK t \in Slot : TaskStops(t)
    BY <1>11
  <2> DEFINE e == [type |-> "Disconnect", slot |-> t]
  <2>2. e \in EventType /\ e.type = "Disconnect" /\ e.slot = t /\ Post(e)
    BY <2>1, EventTyped DEF TaskStops, TaskEnds
  <2> HIDE DEF e
  <2>3. tasks[t] # "none" /\ tasks' = [tasks EXCEPT ![t] = "none"] /\ slots' = slots
    BY <2>1 DEF TaskStops, TaskEnds
  <2>4. CASE s # t
    <3>1. CountIn(peer_rx', DisconnectOf(s)) = CountIn(peer_rx, DisconnectOf(s))
      BY <2>2, <2>4, DisconnectCountPosted
    <3> QED
      BY <1>2, <2>3, <2>4, <3>1, SameHeld DEF Typed, TypeOK
  <2>5. CASE s = t
    <3>1. CountIn(peer_rx', DisconnectOf(s)) = CountIn(peer_rx, DisconnectOf(s)) + 1
      BY <2>2, <2>5, DisconnectCountPosted
    <3>2. tasks'[s] = "none"
      BY <2>3, <2>5 DEF Typed, TypeOK
    <3> QED
      BY <1>2, <1>3, <2>3, <2>5, <3>1, <3>2 DEF HeldOnce, Living, DisconnectOf
  <2> QED
    BY <2>4, <2>5
<1>12. CASE QuietStep
  <2>1. \A e \in DisconnectOf(s) : ~SlotMessage(e)
    BY DEF DisconnectOf, SlotMessage
  <2>2. CountIn(peer_rx', DisconnectOf(s)) = CountIn(peer_rx, DisconnectOf(s))
    BY <1>12, <2>1, QuietCount
  <2> QED
    BY <1>2, <1>12, <2>2, SameHeld DEF QuietStep, SameConnections
<1> QED
  BY ConnectionSteps, <1>4, <1>5, <1>6, <1>7, <1>8, <1>9, <1>10, <1>11, <1>12

LEMMA InitSlotsHeld == Init => LateFromPeers /\ SlotsHeld
<1> SUFFICES ASSUME Init PROVE LateFromPeers /\ SlotsHeld
  OBVIOUS
<1>1. \A s \in Slot : CountIn(peer_rx, DisconnectOf(s)) = 0
  BY CountEmpty DEF Init
<1> QED
  BY <1>1 DEF Init, LateFromPeers, SlotsHeld, HeldOnce, Living

LEMMA SlotsAlwaysHeld == Spec => [](Typed /\ LateFromPeers /\ SlotsHeld)
<1>1. Typed /\ LateFromPeers /\ SlotsHeld /\ [Next]_vars => LateFromPeers' /\ SlotsHeld'
  BY LateStep, SlotsHeldStep
<1> QED
  BY <1>1, InitTyped, NextTyped, InitSlotsHeld, PTL DEF Spec

\* A slot is in use exactly while its run_peer task lives or its one Disconnect is
\* queued (scheduler.rs, peers.rs), for any number of slots, however tasks end: the
\* slab never gives a key out twice, and no removal finds its peer gone.
THEOREM SlotsAreHeldOnce == Spec => []OneDisconnectPerSlot
<1>1. Typed /\ SlotsHeld => OneDisconnectPerSlot
  BY DisconnectsCounted DEF SlotsHeld, HeldOnce, Living, OneDisconnectPerSlot, Typed
<1> QED
  BY <1>1, SlotsAlwaysHeld, PTL
-----------------------------------------------------------------------------
(***************************************************************************)
(* Addresses.                                                              *)
(***************************************************************************)
ConnectionOf(a) == {e \in EventType : ~HasSlot(e) /\ e.addr = a}

Dialling(a) == IF a \in connecting THEN 1 ELSE 0
SlotsAt(a) == {s \in DOMAIN slots : slots[s].addr = a}

\* An address is dialled, announced or in a slot, and in existing_peers: one of them
\* and then the last, or none.
AddressHeld(a) ==
  Dialling(a) + CountIn(peer_rx, ConnectionOf(a)) + Cardinality(SlotsAt(a))
    = IF a \in existing_peers THEN 1 ELSE 0

FiniteSlots == IsFiniteSet(DOMAIN slots)

AddressesHeld == sched # "blocked" => \A a \in Addr : AddressHeld(a)

LEMMA HoldersCounted ==
  ASSUME TypeOK, NEW a
  PROVE  Holders(a) = Dialling(a) + CountIn(peer_rx, ConnectionOf(a)) + Cardinality(SlotsAt(a))
<1>1. \A i \in DOMAIN peer_rx : peer_rx[i] \in EventType
  BY DEF TypeOK
<1>2. {i \in DOMAIN peer_rx : ~HasSlot(peer_rx[i]) /\ peer_rx[i].addr = a}
        = Positions(peer_rx, ConnectionOf(a))
  BY <1>1 DEF Positions, ConnectionOf
<1>3. connecting \cap {a} = IF a \in connecting THEN {a} ELSE {}
  OBVIOUS
<1>4. Cardinality(connecting \cap {a}) = Dialling(a)
  BY <1>3, FS_EmptySet, FS_Singleton DEF Dialling
<1> QED
  BY <1>2, <1>4 DEF Holders, CountIn, SlotsAt

\* The numbers added up are numbers.
LEMMA HoldersNatural ==
  ASSUME Typed, FiniteSlots, NEW a
  PROVE  /\ Dialling(a) \in Nat
         /\ CountIn(peer_rx, ConnectionOf(a)) \in Nat
         /\ IsFiniteSet(SlotsAt(a)) /\ Cardinality(SlotsAt(a)) \in Nat
<1>1. IsFiniteSet(SlotsAt(a))
  BY FS_Subset DEF SlotsAt, FiniteSlots
<1>2. peer_rx \in Seq(EventType)
  BY DEF Typed, TypeOK
<1> QED
  BY <1>1, <1>2, FS_CardinalityType, CountNatural DEF Dialling

LEMMA ConnectionCountTaken ==
  ASSUME Typed, peer_rx # <<>>, peer_rx' = Tail(peer_rx), NEW a
  PROVE  /\ CountIn(peer_rx', ConnectionOf(a)) \in Nat
         /\ CountIn(peer_rx, ConnectionOf(a)) = CountIn(peer_rx', ConnectionOf(a))
              + IF ~HasSlot(Head(peer_rx)) /\ Head(peer_rx).addr = a THEN 1 ELSE 0
<1>1. peer_rx \in Seq(EventType) /\ Tail(peer_rx) \in Seq(EventType) /\ Head(peer_rx) \in EventType
  BY QueueTail DEF Typed, TypeOK
<1>2. Head(peer_rx) \in ConnectionOf(a) <=> ~HasSlot(Head(peer_rx)) /\ Head(peer_rx).addr = a
  BY <1>1 DEF ConnectionOf
<1>3. CountIn(Tail(peer_rx), ConnectionOf(a)) \in Nat
  BY <1>1, CountNatural
<1> QED
  BY <1>1, <1>2, <1>3, CountTail

LEMMA ConnectionCountPosted ==
  ASSUME Typed, NEW e \in EventType, Post(e), NEW a
  PROVE  CountIn(peer_rx', ConnectionOf(a)) = CountIn(peer_rx, ConnectionOf(a))
           + IF ~HasSlot(e) /\ e.addr = a THEN 1 ELSE 0
<1>1. peer_rx \in Seq(EventType) /\ peer_rx' = Append(peer_rx, e)
  BY DEF Typed, TypeOK, Post
<1>2. e \in ConnectionOf(a) <=> ~HasSlot(e) /\ e.addr = a
  BY DEF ConnectionOf
<1> QED
  BY <1>1, <1>2, CountAppend

\* Slots come and go one at a time.
LEMMA FiniteSlotsStep ==
  ASSUME Typed, LateFromPeers, FiniteSlots, [Next]_vars
  PROVE  FiniteSlots'
<1>1. CASE HandleConnect
  <2>1. PICK t : DOMAIN slots' = DOMAIN slots \cup {t}
    BY <1>1 DEF HandleConnect
  <2> QED
    BY <2>1, FS_AddElement DEF FiniteSlots
<1>2. CASE \E t \in Slot : RemovePeer(t)
  <2>1. PICK t : DOMAIN slots' = DOMAIN slots \ {t} \/ DOMAIN slots' = DOMAIN slots
    BY <1>2 DEF RemovePeer
  <2> QED
    BY <2>1, FS_RemoveElement DEF FiniteSlots
<1>3. CASE DOMAIN slots' = DOMAIN slots
  BY <1>3 DEF FiniteSlots
<1> QED
  BY <1>1, <1>2, <1>3, ConnectionSteps
     DEF DedupAndStartPeers, AddIncomingPeer, ConnectDone, HandleConnectFailed,
         EventForMissingPeer, TaskStops, TaskEnds, QuietStep, SameConnections

\* A step that keeps who holds an address.
LEMMA SameAddressHeld ==
  ASSUME NEW a, AddressHeld(a),
         a \in connecting' <=> a \in connecting,
         CountIn(peer_rx', ConnectionOf(a)) = CountIn(peer_rx, ConnectionOf(a)),
         SlotsAt(a)' = SlotsAt(a),
         a \in existing_peers' <=> a \in existing_peers
  PROVE  AddressHeld(a)'
BY DEF AddressHeld, Dialling, ConnectionOf
\* Messages from the session: an address nobody holds is dialled or announced.
LEMMA NewAddressesHeld ==
  ASSUME Typed, FiniteSlots, NEW a \in Addr, AddressHeld(a), sched' # "blocked",
         \/ \E list \in SUBSET Tracked \ {{}} : DedupAndStartPeers(list)
         \/ \E b \in Incoming : AddIncomingPeer(b)
  PROVE  AddressHeld(a)'
<1>1. CASE \E list \in SUBSET Tracked \ {{}} : DedupAndStartPeers(list)
  <2>1. PICK list \in SUBSET Tracked : DedupAndStartPeers(list)
    BY <1>1
  <2>2. SlotsAt(a)' = SlotsAt(a) /\ CountIn(peer_rx', ConnectionOf(a)) = CountIn(peer_rx, ConnectionOf(a))
    BY <2>1 DEF DedupAndStartPeers, SlotsAt
  <2>3. CASE a \in list \ existing_peers
    <3>1. a \notin connecting /\ a \in connecting' /\ a \in existing_peers'
      BY <2>1, <2>3, HoldersNatural DEF AddressHeld, Dialling, DedupAndStartPeers
    <3> QED
      BY <2>2, <2>3, <3>1, HoldersNatural DEF AddressHeld, Dialling, ConnectionOf
  <2>4. CASE a \notin list \ existing_peers
    BY <2>1, <2>2, <2>4, SameAddressHeld DEF DedupAndStartPeers
  <2> QED
    BY <2>3, <2>4
<1>2. CASE \E b \in Incoming : AddIncomingPeer(b)
  <2>1. PICK b \in Incoming : AddIncomingPeer(b)
    BY <1>2
  <2> DEFINE e == [type |-> "Connect", addr |-> b]
  <2>2. e \in EventType /\ ~HasSlot(e) /\ e.addr = b
    BY EventTyped, SchedulerAssumption DEF HasSlot
  <2>3. Post(e)
    BY <2>1 DEF AddIncomingPeer
  <2> HIDE DEF e
  <2>4. CountIn(peer_rx', ConnectionOf(a)) = CountIn(peer_rx, ConnectionOf(a)) + IF b = a THEN 1 ELSE 0
    BY <2>2, <2>3, ConnectionCountPosted
  <2>5. /\ SlotsAt(a)' = SlotsAt(a) /\ connecting' = connecting
        /\ b \notin existing_peers /\ existing_peers' = existing_peers \cup {b}
    BY <2>1 DEF AddIncomingPeer, SlotsAt
  <2>6. CASE a = b
    BY <2>4, <2>5, <2>6, HoldersNatural DEF AddressHeld, Dialling, ConnectionOf
  <2>7. CASE a # b
    <3>1. CountIn(peer_rx', ConnectionOf(a)) = CountIn(peer_rx, ConnectionOf(a))
      BY <2>4, <2>7, HoldersNatural
    <3> QED
      BY <2>5, <2>7, <3>1, SameAddressHeld
  <2> QED
    BY <2>6, <2>7
<1> QED
  BY <1>1, <1>2

\* A connection attempt ends, and its end is announced.
LEMMA DialledAddressHeld ==
  ASSUME Typed, FiniteSlots, NEW a \in Addr, AddressHeld(a), NEW b \in Addr, ConnectDone(b)
  PROVE  AddressHeld(a)'
<1>1. PICK e \in EventType : Post(e) /\ ~HasSlot(e) /\ e.addr = b
  BY EventTyped DEF ConnectDone, HasSlot
<1>2. CountIn(peer_rx', ConnectionOf(a)) = CountIn(peer_rx, ConnectionOf(a)) + IF b = a THEN 1 ELSE 0
  BY <1>1, ConnectionCountPosted
<1>3. /\ SlotsAt(a)' = SlotsAt(a) /\ existing_peers' = existing_peers
      /\ b \in connecting /\ connecting' = connecting \ {b}
  BY DEF ConnectDone, SlotsAt
<1>4. CASE a = b
  BY <1>2, <1>3, <1>4, HoldersNatural DEF AddressHeld, Dialling, ConnectionOf
<1>5. CASE a # b
  <2>1. CountIn(peer_rx', ConnectionOf(a)) = CountIn(peer_rx, ConnectionOf(a))
    BY <1>2, <1>5, HoldersNatural
  <2> QED
    BY <1>3, <1>5, <2>1, SameAddressHeld
<1> QED
  BY <1>4, <1>5

\* An announced connection gets a slot, or its address is forgotten.
LEMMA AnnouncedAddressHeld ==
  ASSUME Typed, FiniteSlots, NEW a \in Addr, AddressHeld(a), HandleConnect \/ HandleConnectFailed
  PROVE  AddressHeld(a)'
<1> DEFINE b == Head(peer_rx).addr
<1>1. CountIn(peer_rx', ConnectionOf(a)) \in Nat
      /\ CountIn(peer_rx, ConnectionOf(a)) = CountIn(peer_rx', ConnectionOf(a)) + IF b = a THEN 1 ELSE 0
  BY ConnectionCountTaken DEF HandleConnect, HandleConnectFailed, Take, HasSlot
<1>2. CASE HandleConnect
  <2>1. PICK s \in Slot \ DOMAIN slots :
          slots' = [t \in DOMAIN slots \cup {s} |->
                      IF t = s THEN NewPeerHandle(b) ELSE slots[t]]
    BY <1>2 DEF HandleConnect
  <2>2. SlotsAt(a)' = IF b = a THEN SlotsAt(a) \cup {s} ELSE SlotsAt(a)
    BY <2>1 DEF SlotsAt, NewPeerHandle
  <2>3. connecting' = connecting /\ existing_peers' = existing_peers
    BY <1>2 DEF HandleConnect
  <2>4. CASE b = a
    <3>1. Cardinality(SlotsAt(a)') = Cardinality(SlotsAt(a)) + 1
      <4>1. s \notin SlotsAt(a)
        BY <2>1 DEF SlotsAt
      <4> QED
        BY <2>2, <2>4, <4>1, HoldersNatural, FS_AddElement
    <3> QED
      BY <1>1, <2>3, <2>4, <3>1, HoldersNatural DEF AddressHeld, Dialling, ConnectionOf
  <2>5. CASE b # a
    BY <1>1, <2>2, <2>3, <2>5, SameAddressHeld
  <2> QED
    BY <2>4, <2>5
<1>3. CASE HandleConnectFailed
  <2>1. /\ connecting' = connecting /\ existing_peers' = existing_peers \ {b}
        /\ SlotsAt(a)' = SlotsAt(a)
    BY <1>3 DEF HandleConnectFailed, SlotsAt
  <2>2. CASE b = a
    BY <1>1, <2>1, <2>2, HoldersNatural DEF AddressHeld, Dialling, ConnectionOf
  <2>3. CASE b # a
    BY <1>1, <2>1, <2>3, SameAddressHeld
  <2> QED
    BY <2>2, <2>3
<1> QED
  BY <1>2, <1>3

\* A peer is removed from its slot and forgotten, or the scheduler panics.
LEMMA RemovedAddressHeld ==
  ASSUME Typed, FiniteSlots, NEW a \in Addr, AddressHeld(a), NEW s \in Slot, RemovePeer(s)
  PROVE  AddressHeld(a)'
<1>1. /\ peer_rx # <<>> /\ peer_rx' = Tail(peer_rx) /\ Head(peer_rx).type = "Disconnect"
      /\ s \in DOMAIN slots /\ connecting' = connecting
  BY DEF RemovePeer, TakeFrom, Take
<1>2. CountIn(peer_rx', ConnectionOf(a)) = CountIn(peer_rx, ConnectionOf(a))
  BY <1>1, ConnectionCountTaken DEF HasSlot
<1>3. CASE slots' = slots /\ existing_peers' = existing_peers
  <2>1. SlotsAt(a)' = SlotsAt(a)
    BY <1>3 DEF SlotsAt
  <2> QED
    BY <1>1, <1>2, <1>3, <2>1, SameAddressHeld
<1>4. CASE /\ slots' = [t \in DOMAIN slots \ {s} |-> slots[t]]
           /\ existing_peers' = existing_peers \ {slots[s].addr}
  <2>1. SlotsAt(a)' = SlotsAt(a) \ {s}
    BY <1>4 DEF SlotsAt
  <2>2. CASE slots[s].addr = a
    <3>1. s \in SlotsAt(a)
      BY <1>1, <2>2 DEF SlotsAt
    <3>2. Cardinality(SlotsAt(a)') = Cardinality(SlotsAt(a)) - 1
      BY <2>1, <3>1, HoldersNatural, FS_RemoveElement
    <3>3. Cardinality(SlotsAt(a)) # 0
      BY <3>1, HoldersNatural, FS_EmptySet
    <3> QED
      BY <1>1, <1>2, <1>4, <2>2, <3>2, <3>3, HoldersNatural DEF AddressHeld, Dialling, ConnectionOf
  <2>3. CASE slots[s].addr # a
    <3>1. SlotsAt(a)' = SlotsAt(a)
      BY <2>1, <2>3 DEF SlotsAt
    <3> QED
      BY <1>1, <1>2, <1>4, <2>3, <3>1, SameAddressHeld
  <2> QED
    BY <2>2, <2>3
<1> QED
  BY <1>3, <1>4 DEF RemovePeer, Handle

\* Tasks that stop, messages, timeouts and the disk task touch no address.
LEMMA QuietAddressHeld ==
  ASSUME Typed, FiniteSlots, NEW a \in Addr, AddressHeld(a),
         EventForMissingPeer \/ (\E s \in Slot : TaskStops(s)) \/ QuietStep
  PROVE  AddressHeld(a)'
<1>1. CASE EventForMissingPeer
  <2>1. CountIn(peer_rx', ConnectionOf(a)) = CountIn(peer_rx, ConnectionOf(a))
    BY <1>1, ConnectionCountTaken DEF EventForMissingPeer
  <2>2. SlotsAt(a)' = SlotsAt(a)
    BY <1>1 DEF EventForMissingPeer, SlotsAt
  <2> QED
    BY <1>1, <2>1, <2>2, SameAddressHeld DEF EventForMissingPeer
<1>2. CASE \E s \in Slot : TaskStops(s)
  <2>1. PICK s \in Slot : TaskStops(s)
    BY <1>2
  <2> DEFINE e == [type |-> "Disconnect", slot |-> s]
  <2>2. e \in EventType /\ HasSlot(e) /\ Post(e)
    BY <2>1, EventTyped DEF TaskStops, TaskEnds, HasSlot
  <2> HIDE DEF e
  <2>3. CountIn(peer_rx', ConnectionOf(a)) = CountIn(peer_rx, ConnectionOf(a))
    BY <2>2, ConnectionCountPosted, HoldersNatural
  <2>4. SlotsAt(a)' = SlotsAt(a) /\ connecting' = connecting /\ existing_peers' = existing_peers
    BY <2>1 DEF TaskStops, TaskEnds, SlotsAt
  <2> QED
    BY <2>3, <2>4, SameAddressHeld
<1>3. CASE QuietStep
  <2>1. \A e \in ConnectionOf(a) : ~SlotMessage(e)
    BY DEF ConnectionOf, SlotMessage
  <2>2. CountIn(peer_rx', ConnectionOf(a)) = CountIn(peer_rx, ConnectionOf(a))
    BY <1>3, <2>1, QuietCount
  <2>3. SlotsAt(a)' = SlotsAt(a)
    BY <1>3 DEF QuietStep, SameConnections, SlotsAt
  <2> QED
    BY <1>3, <2>2, <2>3, SameAddressHeld DEF QuietStep, SameConnections
<1> QED
  BY <1>1, <1>2, <1>3

LEMMA AddressesHeldStep ==
  ASSUME Typed, LateFromPeers, FiniteSlots, AddressesHeld, [Next]_vars
  PROVE  AddressesHeld'
<1>1. SUFFICES ASSUME sched' # "blocked", NEW a \in Addr PROVE AddressHeld(a)'
  BY DEF AddressesHeld
<1>2. AddressHeld(a)
  BY <1>1, EndIsFinal DEF AddressesHeld
<1> QED
  BY <1>1, <1>2, ConnectionSteps, NewAddressesHeld, DialledAddressHeld, AnnouncedAddressHeld,
     RemovedAddressHeld, QuietAddressHeld

LEMMA InitAddressesHeld == Init => FiniteSlots /\ AddressesHeld
<1> SUFFICES ASSUME Init PROVE FiniteSlots /\ AddressesHeld
  OBVIOUS
<1>1. \A a \in Addr : CountIn(peer_rx, ConnectionOf(a)) = 0
  BY CountEmpty DEF Init
<1>2. \A a \in Addr : SlotsAt(a) = {} /\ Cardinality(SlotsAt(a)) = 0
  BY FS_EmptySet DEF Init, SlotsAt
<1>3. DOMAIN slots = {}
  BY DEF Init
<1> QED
  BY <1>1, <1>2, <1>3, FS_EmptySet
     DEF Init, FiniteSlots, AddressesHeld, AddressHeld, Dialling

\* existing_peers is exactly the addresses dialled, announced or in a slot, each of
\* them once (scheduler.rs, the deduplication of tracker and incoming peers), for any
\* number of addresses: none is connected twice, and none stays barred once it has left.
THEOREM AddressesAreHeldOnce == Spec => []AddressesHeldOnce
<1>1. Typed /\ AddressesHeld => AddressesHeldOnce
  BY HoldersCounted DEF AddressesHeld, AddressHeld, AddressesHeldOnce, Typed
<1>2. Typed /\ LateFromPeers /\ FiniteSlots /\ AddressesHeld /\ [Next]_vars
        => LateFromPeers' /\ FiniteSlots' /\ AddressesHeld'
  BY LateStep, FiniteSlotsStep, AddressesHeldStep
<1> QED
  BY <1>1, <1>2, InitTyped, NextTyped, InitSlotsHeld, InitAddressesHeld, PTL DEF Spec
-----------------------------------------------------------------------------
(***************************************************************************)
(* Events of known peers.  An aborted reader breaks this (a run of         *)
(* KnownPeer shows how); nothing else does.                                *)
(***************************************************************************)
\* The slot of a queued event is in use, and its Disconnect comes last.
KnownAt(i) ==
  HasSlot(peer_rx[i]) =>
    /\ peer_rx[i].slot \in DOMAIN slots
    /\ \A j \in DOMAIN peer_rx :
         peer_rx[j].type = "Disconnect" /\ peer_rx[j].slot = peer_rx[i].slot => i <= j

QueueKnown == sched # "panicked" => \A i \in DOMAIN peer_rx : KnownAt(i)

\* The next event, and those behind it.
LEMMA QueueShift ==
  ASSUME Typed, peer_rx # <<>>
  PROVE  /\ 1 \in DOMAIN peer_rx /\ peer_rx[1] = Head(peer_rx)
         /\ \A i \in DOMAIN Tail(peer_rx) : /\ i + 1 \in DOMAIN peer_rx /\ i \in Nat \ {0}
                                            /\ Tail(peer_rx)[i] = peer_rx[i + 1]
BY DEF Typed, TypeOK

\* Taking an event, with all slots kept.
LEMMA TakenKnown ==
  ASSUME Typed, \A i \in DOMAIN peer_rx : KnownAt(i),
         peer_rx # <<>>, peer_rx' = Tail(peer_rx), DOMAIN slots \subseteq DOMAIN slots'
  PROVE  \A i \in DOMAIN peer_rx' : KnownAt(i)'
<1>1. SUFFICES ASSUME NEW i \in DOMAIN Tail(peer_rx), HasSlot(Tail(peer_rx)[i])
               PROVE  /\ Tail(peer_rx)[i].slot \in DOMAIN slots'
                      /\ \A j \in DOMAIN Tail(peer_rx) :
                           /\ Tail(peer_rx)[j].type = "Disconnect"
                           /\ Tail(peer_rx)[j].slot = Tail(peer_rx)[i].slot
                           => i <= j
  BY DEF KnownAt, HasSlot
<1>2. Tail(peer_rx)[i] = peer_rx[i + 1] /\ KnownAt(i + 1)
  BY QueueShift
<1>3. ASSUME NEW j \in DOMAIN Tail(peer_rx), Tail(peer_rx)[j].type = "Disconnect",
             Tail(peer_rx)[j].slot = Tail(peer_rx)[i].slot
      PROVE  i <= j
  <2>1. j + 1 \in DOMAIN peer_rx /\ Tail(peer_rx)[j] = peer_rx[j + 1] /\ i \in Nat /\ j \in Nat
    BY QueueShift
  <2>2. i + 1 <= j + 1
    BY <1>1, <1>2, <1>3, <2>1 DEF KnownAt
  <2> QED
    BY <2>1, <2>2
<1> QED
  BY <1>1, <1>2, <1>3 DEF KnownAt

\* Posting the event of a peer that is still there.
LEMMA PostedKnown ==
  ASSUME Typed, \A i \in DOMAIN peer_rx : KnownAt(i),
         NEW e \in EventType, peer_rx' = Append(peer_rx, e), DOMAIN slots' = DOMAIN slots,
         HasSlot(e) => e.slot \in DOMAIN slots /\ Disconnects(e.slot) = {}
  PROVE  \A i \in DOMAIN peer_rx' : KnownAt(i)'
<1> DEFINE n == Len(peer_rx) + 1
<1>1. /\ DOMAIN peer_rx' = DOMAIN peer_rx \cup {n} /\ n \in Nat /\ peer_rx'[n] = e
      /\ \A i \in DOMAIN peer_rx : peer_rx'[i] = peer_rx[i] /\ i \in Nat /\ i < n
  BY DEF Typed, TypeOK
<1> HIDE DEF n
<1>2. SUFFICES ASSUME NEW i \in DOMAIN peer_rx', HasSlot(peer_rx'[i])
               PROVE  /\ peer_rx'[i].slot \in DOMAIN slots
                      /\ \A j \in DOMAIN peer_rx' :
                           peer_rx'[j].type = "Disconnect" /\ peer_rx'[j].slot = peer_rx'[i].slot
                           => i <= j
  BY DEF KnownAt, HasSlot
<1>3. CASE i = n
  BY <1>1, <1>2, <1>3 DEF Disconnects
<1>4. CASE i # n
  BY <1>1, <1>2, <1>4 DEF KnownAt
<1> QED
  BY <1>3, <1>4

\* While its task lives, a slot is in use and has no Disconnect in the queue.
LEMMA LivingHasSlot ==
  ASSUME Typed, NEW s \in Slot, HeldOnce(s), tasks[s] # "none"
  PROVE  s \in DOMAIN slots /\ Disconnects(s) = {}
<1>1. peer_rx \in Seq(EventType)
  BY DEF Typed, TypeOK
<1>2. CountIn(peer_rx, DisconnectOf(s)) \in Nat /\ IsFiniteSet(Positions(peer_rx, DisconnectOf(s)))
  BY <1>1, CountNatural
<1>3. s \in DOMAIN slots /\ CountIn(peer_rx, DisconnectOf(s)) = 0
  BY <1>2 DEF HeldOnce, Living
<1>4. Positions(peer_rx, DisconnectOf(s)) = {}
  BY <1>2, <1>3, FS_EmptySet DEF CountIn
<1>5. \A i \in DOMAIN peer_rx : peer_rx[i] \in EventType
  BY <1>1
<1> QED
  BY <1>3, <1>4, <1>5 DEF Positions, Disconnects, DisconnectOf

LEMMA QueueKnownStep ==
  ASSUME Typed, late = {}, SlotsHeld, QueueKnown, [Next]_vars
  PROVE  QueueKnown'
<1>1. LateFromPeers
  BY DEF LateFromPeers
<1>2. SUFFICES ASSUME sched' # "panicked" PROVE \A i \in DOMAIN peer_rx' : KnownAt(i)'
  BY DEF QueueKnown
<1>3. /\ \A i \in DOMAIN peer_rx : KnownAt(i)
      /\ \A s \in Slot : HeldOnce(s)
  BY <1>1, <1>2, EndIsFinal DEF QueueKnown, SlotsHeld
<1>4. CASE UNCHANGED <<peer_rx, slots>>
  BY <1>3, <1>4 DEF KnownAt, HasSlot
<1>5. CASE \E a \in Incoming : AddIncomingPeer(a)
  <2>1. PICK a \in Incoming : AddIncomingPeer(a)
    BY <1>5
  <2> DEFINE e == [type |-> "Connect", addr |-> a]
  <2>2. e \in EventType /\ ~HasSlot(e)
    BY EventTyped, SchedulerAssumption DEF HasSlot
  <2>3. slots' = slots /\ (peer_rx' = Append(peer_rx, e) \/ peer_rx' = peer_rx)
    BY <2>1 DEF AddIncomingPeer, Post
  <2> HIDE DEF e
  <2> QED
    BY <1>3, <1>4, <2>2, <2>3, PostedKnown
<1>6. CASE \E a \in Addr : ConnectDone(a)
  <2>1. PICK e \in EventType : peer_rx' = Append(peer_rx, e) /\ ~HasSlot(e)
    BY <1>6, EventTyped DEF ConnectDone, Post, HasSlot
  <2>2. slots' = slots
    BY <1>6 DEF ConnectDone
  <2> QED
    BY <1>3, <2>1, <2>2, PostedKnown
<1>7. CASE HandleConnect \/ HandleConnectFailed
  <2>1. /\ peer_rx # <<>> /\ peer_rx' = Tail(peer_rx)
        /\ DOMAIN slots \subseteq DOMAIN slots'
    BY <1>7 DEF HandleConnect, HandleConnectFailed, Take
  <2> QED
    BY <1>3, <2>1, TakenKnown
<1>8. CASE \E s \in Slot : RemovePeer(s)
  <2>1. PICK s \in Slot : RemovePeer(s)
    BY <1>8
  <2>2. /\ peer_rx # <<>> /\ peer_rx' = Tail(peer_rx)
        /\ Head(peer_rx).type = "Disconnect" /\ Head(peer_rx).slot = s
        /\ DOMAIN slots' = DOMAIN slots \ {s}
    BY <1>2, <2>1 DEF RemovePeer, TakeFrom, Take
  <2>3. \A i \in DOMAIN peer_rx : HasSlot(peer_rx[i]) /\ peer_rx[i].slot = s => i <= 1
    BY <1>3, <2>2, QueueShift DEF KnownAt
  <2>4. SUFFICES ASSUME NEW i \in DOMAIN Tail(peer_rx), HasSlot(Tail(peer_rx)[i])
                 PROVE  /\ Tail(peer_rx)[i].slot \in DOMAIN slots'
                        /\ \A j \in DOMAIN Tail(peer_rx) :
                             /\ Tail(peer_rx)[j].type = "Disconnect"
                             /\ Tail(peer_rx)[j].slot = Tail(peer_rx)[i].slot
                             => i <= j
    BY <2>2 DEF KnownAt, HasSlot
  <2>5. /\ Tail(peer_rx)[i] = peer_rx[i + 1] /\ i + 1 \in DOMAIN peer_rx
        /\ i \in Nat \ {0} /\ KnownAt(i + 1)
    BY <1>3, <2>2, QueueShift
  <2>6. Tail(peer_rx)[i].slot \in DOMAIN slots'
    BY <2>2, <2>3, <2>4, <2>5 DEF KnownAt
  <2>7. ASSUME NEW j \in DOMAIN Tail(peer_rx), Tail(peer_rx)[j].type = "Disconnect",
               Tail(peer_rx)[j].slot = Tail(peer_rx)[i].slot
        PROVE  i <= j
    <3>1. j + 1 \in DOMAIN peer_rx /\ Tail(peer_rx)[j] = peer_rx[j + 1] /\ j \in Nat
      BY <2>2, QueueShift
    <3>2. i + 1 <= j + 1
      BY <2>4, <2>5, <2>7, <3>1 DEF KnownAt
    <3> QED
      BY <2>5, <3>1, <3>2
  <2> QED
    BY <2>6, <2>7
<1>9. CASE \E s \in Slot : TaskStops(s)
  <2>1. PICK s \in Slot : TaskStops(s)
    BY <1>9
  <2> DEFINE e == [type |-> "Disconnect", slot |-> s]
  <2>2. e \in EventType /\ e.slot = s
    BY EventTyped
  <2>3. tasks[s] # "none" /\ slots' = slots /\ peer_rx' = Append(peer_rx, e)
    BY <2>1 DEF TaskStops, TaskEnds, Post
  <2> HIDE DEF e
  <2> QED
    BY <1>3, <2>2, <2>3, LivingHasSlot, PostedKnown
<1>10. CASE QuietStep
  <2>1. DOMAIN slots' = DOMAIN slots
    BY <1>10 DEF QuietStep, SameConnections
  <2>2. CASE UNCHANGED peer_rx
    BY <1>3, <2>1, <2>2 DEF KnownAt, HasSlot
  <2>3. CASE MessageTaken
    BY <1>3, <2>1, <2>3, TakenKnown DEF MessageTaken
  <2>4. CASE MessagePosted
    <3>1. PICK m \in EventType : peer_rx' = Append(peer_rx, m) /\ HasSlot(m) /\ tasks[m.slot] # "none"
      BY <2>4 DEF MessagePosted, SlotMessage
    <3>2. m.slot \in Slot
      BY <3>1, EventFields
    <3> QED
      BY <1>3, <2>1, <3>1, <3>2, LivingHasSlot, PostedKnown
  <2> QED
    BY <1>10, <2>2, <2>3, <2>4 DEF QuietStep
<1> QED
  BY <1>1, <1>2, <1>4, <1>5, <1>6, <1>7, <1>8, <1>9, <1>10, ConnectionSteps
     DEF DedupAndStartPeers, EventForMissingPeer

\* Without aborted readers nothing arrives late.
NothingLate == late = {}

LEMMA NothingLateStep ==
  ASSUME Typed, "abort" \notin Faults, NothingLate, [Next]_vars
  PROVE  NothingLate'
<1>1. LateFromPeers
  BY DEF NothingLate, LateFromPeers
<1> QED
  BY <1>1, ConnectionSteps
     DEF NothingLate, DedupAndStartPeers, AddIncomingPeer, ConnectDone, HandleConnect, HandleConnectFailed,
         EventForMissingPeer, RemovePeer, TaskStops, QuietStep, SameConnections

\* Unless run_peer aborts a reader that is about to send (peers.rs), every event the
\* scheduler takes is of a peer that it knows, for any number of peers and events: the
\* handlers' "Peer doesnt exist" can only be the doing of an aborted reader.
THEOREM PeersAreKnown ==
  ASSUME "abort" \notin Faults
  PROVE  Spec => []KnownPeer
<1>1. Init => NothingLate /\ QueueKnown
  BY DEF Init, QueueKnown, NothingLate
<1>2. Typed /\ NothingLate /\ SlotsHeld /\ QueueKnown /\ [Next]_vars => NothingLate' /\ QueueKnown'
  BY QueueKnownStep, NothingLateStep DEF NothingLate
<1>3. Typed /\ QueueKnown => KnownPeer
  BY QueueShift DEF QueueKnown, KnownAt, KnownPeer, Running
<1> QED
  BY <1>1, <1>2, <1>3, InitTyped, NextTyped, SlotsAlwaysHeld, PTL DEF Spec
=============================================================================
