-------------------------- MODULE SchedulerProofs ---------------------------
(***************************************************************************)
(* What holds of the scheduler for every torrent, every number of peers    *)
(* and every bound.                                                        *)
(***************************************************************************)
EXTENDS SchedulerProperties, FiniteSetTheorems, TLAPS

USE DEF schedVars, peerVars, diskVars

-----------------------------------------------------------------------------
(***************************************************************************)
(* Data.                                                                   *)
(***************************************************************************)
\* No piece is empty.
LEMMA PieceLenPositive == \A p \in Piece : PieceLenForIndex(p) \in Nat \ {0}
<1>1. ASSUME NEW p \in Piece PROVE PieceLenForIndex(p) \in Nat \ {0}
  BY GeometryAssumption DEF PieceLenForIndex, Piece
<1> QED
  BY <1>1

\* A piece has finitely many blocks, numbered from 0.
LEMMA BlockFinite == \A p \in Piece : IsFiniteSet(Block(p)) /\ Block(p) \subseteq Nat
<1>1. SUFFICES ASSUME NEW p \in Piece PROVE IsFiniteSet(Block(p)) /\ Block(p) \subseteq Nat
  OBVIOUS
<1>2. PieceLenForIndex(p) \in Nat
  BY <1>1, PieceLenPositive
<1>3. NumBlocks(p) \in Nat
  BY <1>2, GeometryAssumption DEF NumBlocks
<1> QED
  BY <1>3, FS_Interval DEF Block

\* Rounding up: the block count is the least one that covers the piece.
LEMMA RoundUp ==
  ASSUME NEW L \in Nat \ {0}, NEW K \in Nat \ {0}, NEW N, N = (L + (K - 1)) \div K
  PROVE  /\ N \in Nat \ {0}
         /\ (N - 1) * K < L
         /\ L <= N * K
<1>1. N \in Nat /\ N * K <= L + (K - 1) /\ L + (K - 1) < (N + 1) * K
  OBVIOUS
<1>2. (N + 1) * K = N * K + K /\ (N - 1) * K = N * K - K
  BY <1>1
<1>3. N # 0
  BY <1>1, <1>2
<1> QED
  BY <1>1, <1>2, <1>3

\* push_blocks asks for block_index * BLOCK_SIZE and up to BLOCK_SIZE bytes: the
\* subtraction never underflows, no request is empty or longer than BLOCK_SIZE, each
\* begins where the one before it ends, and the last ends where the piece does.
THEOREM RequestsTilePiece ==
  \A p \in Piece :
    /\ \A b \in Block(p) :
         /\ RequestLen(p, b) \in 1 .. BLOCK_SIZE
         /\ b + 1 \in Block(p) => b * BLOCK_SIZE + RequestLen(p, b) = (b + 1) * BLOCK_SIZE
         /\ b + 1 \notin Block(p) => b * BLOCK_SIZE + RequestLen(p, b) = PieceLenForIndex(p)
    /\ 0 \in Block(p)
<1>1. SUFFICES ASSUME NEW p \in Piece
      PROVE  /\ \A b \in Block(p) :
                  /\ RequestLen(p, b) \in 1 .. BLOCK_SIZE
                  /\ b + 1 \in Block(p) => b * BLOCK_SIZE + RequestLen(p, b) = (b + 1) * BLOCK_SIZE
                  /\ b + 1 \notin Block(p) => b * BLOCK_SIZE + RequestLen(p, b) = PieceLenForIndex(p)
             /\ 0 \in Block(p)
  OBVIOUS
<1> DEFINE L == PieceLenForIndex(p)
           K == BLOCK_SIZE
           N == NumBlocks(p)
<1>2. L \in Nat \ {0} /\ K \in Nat \ {0}
  BY <1>1, PieceLenPositive, GeometryAssumption
<1>3. N = (L + (K - 1)) \div K
  BY DEF NumBlocks
<1> HIDE DEF L, K, N
<1>4. N \in Nat \ {0} /\ (N - 1) * K < L /\ L <= N * K
  BY <1>2, <1>3, RoundUp
<1>5. Block(p) = 0 .. N - 1
  BY DEF Block, N
<1>6. ASSUME NEW b \in Block(p)
      PROVE  /\ RequestLen(p, b) \in 1 .. K
             /\ b + 1 \in Block(p) => b * K + RequestLen(p, b) = (b + 1) * K
             /\ b + 1 \notin Block(p) => b * K + RequestLen(p, b) = L
  <2>1. b \in Nat /\ b <= N - 1
    BY <1>4, <1>5
  <2>2. (b + 1) * K = b * K + K
    BY <1>2, <2>1
  <2>3. RequestLen(p, b) = IF K < L - b * K THEN K ELSE L - b * K
    BY DEF RequestLen, L, K
  <2>4. CASE b = N - 1
    <3>1. b * K < L /\ L <= b * K + K /\ b * K \in Nat
      <4>1. L <= (b + 1) * K
        BY <1>4, <2>1, <2>4
      <4> QED
        BY <1>2, <1>4, <2>1, <2>2, <2>4, <4>1
    <3>2. b + 1 \notin Block(p)
      BY <1>4, <1>5, <2>1, <2>4
    <3>3. RequestLen(p, b) = L - b * K
      BY <1>2, <2>3, <3>1
    <3> QED
      BY <1>2, <3>1, <3>2, <3>3
  <2>5. CASE b < N - 1
    <3>1. b + 1 <= N - 1 /\ (b + 1) * K <= (N - 1) * K
      <4>1. \A i, j, k \in Nat : i <= j => i * k <= j * k
        OBVIOUS
      <4> QED
        BY <1>2, <1>4, <2>1, <2>5, <4>1
    <3>2. b * K + K < L /\ b * K \in Nat
      BY <1>2, <1>4, <2>1, <2>2, <3>1
    <3> QED
      BY <1>2, <1>5, <2>1, <2>2, <2>3, <2>5, <3>1, <3>2
  <2> QED
    BY <1>4, <2>1, <2>4, <2>5
<1>7. 0 \in Block(p)
  BY <1>4, <1>5
<1> QED
  BY <1>6, <1>7 DEF K, L

\* A request is a piece and one of its blocks.
LEMMA RequestParts ==
  /\ \A r \in Request : r[1] \in Piece /\ r[2] \in Block(r[1]) /\ r = <<r[1], r[2]>>
  /\ \A p \in Piece : \A b \in Block(p) : <<p, b>> \in Request
  BY DEF Request

\* The events that the actions post.
LEMMA EventTyped ==
  /\ \A a \in Addr : /\ [type |-> "Connect", addr |-> a] \in EventType
                     /\ [type |-> "ConnectFailed", addr |-> a] \in EventType
  /\ \A s \in Slot : [type |-> "Disconnect", slot |-> s] \in EventType
  BY DEF EventType

\* What the handlers read from an event.
LEMMA EventFields ==
  \A e \in EventType :
    /\ e.type \in {"Connect", "ConnectFailed"} => e.addr \in Addr
    /\ HasSlot(e) => e.slot \in Slot
    /\ e.type = "Bitfield" => e.bits \in SUBSET Piece
    /\ e.type = "Have" => e.piece \in 0 .. NumPieces
    /\ e.type = "Data" => e.request \in Request
    /\ e.type = "Misfit" => e.request \in Request \cup NoSuchBlock
  BY DEF EventType, HasSlot

\* What peers send is an event.
LEMMA MessageTyped == \A s \in Slot : PeerMessages(s) \subseteq EventType
<1>1. SUFFICES ASSUME NEW s \in Slot, NEW m \in PeerMessages(s) PROVE m \in EventType
  OBVIOUS
<1>2. CASE m.type = "Misfit"
  <2>1. PICK n \in Strays : m = [type |-> "Misfit", slot |-> s, request |-> n.request, fits |-> n.fits]
    BY <1>2 DEF PeerMessages
  <2>2. n.request \in Request \cup NoSuchBlock /\ n.fits \in BOOLEAN
    BY SchedulerAssumption DEF Misfit
  <2> QED
    BY <2>1, <2>2 DEF EventType
<1>3. CASE m.type # "Misfit"
  BY <1>3, SchedulerAssumption DEF PeerMessages, EventType
<1> QED
  BY <1>2, <1>3

\* Taking the head of a queue leaves a queue.
LEMMA QueueTail ==
  ASSUME NEW S, NEW q \in Seq(S), q # <<>>
  PROVE  Head(q) \in S /\ Tail(q) \in Seq(S)
  OBVIOUS

LEMMA QueueAppend ==
  ASSUME NEW S, NEW q \in Seq(S), NEW e \in S
  PROVE  Append(q, e) \in Seq(S)
  OBVIOUS
-----------------------------------------------------------------------------
\* A new or reset buffer, and a buffer whose vector has been allocated.
LEMMA BufferTyped ==
  ASSUME NEW p \in Piece
  PROVE  /\ EmptyBuffer \in BufferType(p)
         /\ \A buf \in BufferType(p) :
              /\ LazyInit(p, buf) \in BufferType(p)
              /\ CompleteAndCleanup(buf) \in BufferType(p)
              /\ Reset(buf) \in BufferType(p)
              /\ HandOver(buf) \in BufferType(p)
              /\ \A b \in Block(p) : b \in DOMAIN buf.status => StoreBlock(buf, b) \in BufferType(p)
<1>1. EmptyBuffer \in BufferType(p)
  BY DEF EmptyBuffer, BufferType, NoBlocks, BlockState
<1>2. ASSUME NEW buf \in BufferType(p) PROVE LazyInit(p, buf) \in BufferType(p)
  BY <1>2 DEF LazyInit, BufferType, BlockState
<1>3. ASSUME NEW buf \in BufferType(p)
      PROVE  CompleteAndCleanup(buf) \in BufferType(p) /\ Reset(buf) \in BufferType(p) /\ HandOver(buf) \in BufferType(p)
  BY <1>1, <1>3 DEF CompleteAndCleanup, Reset, HandOver, NoBlocks, BufferType, BlockState
<1>4. ASSUME NEW buf \in BufferType(p), NEW b \in Block(p), b \in DOMAIN buf.status
      PROVE  StoreBlock(buf, b) \in BufferType(p)
  <2>1. buf.status \in [Block(p) -> BlockState]
    BY <1>4 DEF BufferType
  <2>2. [buf.status EXCEPT ![b] = "Received"] \in [Block(p) -> BlockState]
    BY <2>1 DEF BlockState
  <2> DEFINE st == [buf.status EXCEPT ![b] = "Received"]
  <2>3. StoreBlock(buf, b) =
          [buf EXCEPT !.status = st, !.blocks_received = buf.blocks_received + 1,
                      !.data = buf.data \cup {b}]
    BY DEF StoreBlock
  <2>4. st \in [{} -> BlockState] \cup [Block(p) -> BlockState]
    BY <2>2
  <2>5. buf.blocks_received + 1 \in Nat /\ buf.data \cup {b} \in SUBSET Block(p)
    BY <1>4 DEF BufferType
  <2> HIDE DEF st
  <2> QED
    BY <1>4, <2>3, <2>4, <2>5 DEF BufferType
<1> QED
  BY <1>1, <1>2, <1>3, <1>4

\* Every piece of pcs has a buffer of its type.
Buffers(pcs) == \A p \in Piece : pcs[p] \in BufferType(p)

LEMMA ReleaseTyped ==
  ASSUME NEW pcs, Buffers(pcs), NEW entries
  PROVE  Buffers(Release(pcs, entries)) /\ DOMAIN Release(pcs, entries) = Piece
<1>1. SUFFICES ASSUME NEW p \in Piece PROVE Release(pcs, entries)[p] \in BufferType(p)
  BY DEF Buffers, Release
<1>2. CASE pcs[p].complete
  BY <1>2 DEF Release, Buffers
<1>3. CASE ~pcs[p].complete
  <2> DEFINE buf == pcs[p]
             st == [b \in DOMAIN buf.status |->
                      IF buf.status[b] = "Requested" /\ \E e \in entries : e.request = <<p, b>>
                      THEN "NotRequested" ELSE buf.status[b]]
  <2>1. buf \in BufferType(p)
    BY DEF Buffers
  <2>2. st \in [{} -> BlockState] \cup [Block(p) -> BlockState]
    BY <2>1 DEF BufferType, BlockState
  <2>3. Release(pcs, entries)[p] = [buf EXCEPT !.status = st]
    BY <1>3 DEF Release
  <2> HIDE DEF buf, st
  <2> QED
    BY <2>1, <2>2, <2>3 DEF BufferType
<1> QED
  BY <1>2, <1>3

LEMMA MarkTyped ==
  ASSUME NEW pcs, Buffers(pcs), NEW T
  PROVE  Buffers(MarkRequested(pcs, T)) /\ DOMAIN MarkRequested(pcs, T) = Piece
<1>1. SUFFICES ASSUME NEW p \in Piece PROVE MarkRequested(pcs, T)[p] \in BufferType(p)
  BY DEF Buffers, MarkRequested
<1> DEFINE buf == LazyInit(p, pcs[p])
           st == [b \in DOMAIN buf.status |-> IF <<p, b>> \in T THEN "Requested" ELSE buf.status[b]]
<1>2. buf \in BufferType(p) /\ pcs[p] \in BufferType(p)
  BY BufferTyped DEF Buffers
<1>3. st \in [{} -> BlockState] \cup [Block(p) -> BlockState]
  BY <1>2 DEF BufferType, BlockState
<1>4. MarkRequested(pcs, T)[p] \in {pcs[p], [buf EXCEPT !.status = st]}
  BY DEF MarkRequested
<1> HIDE DEF buf, st
<1> QED
  BY <1>2, <1>3, <1>4 DEF BufferType

\* A function's range is no larger than its domain.
LEMMA FunctionImage ==
  ASSUME NEW S, IsFiniteSet(S), NEW f, f = [x \in S |-> f[x]]
  PROVE  LET T == {f[x] : x \in S} IN IsFiniteSet(T) /\ Cardinality(T) <= Cardinality(S)
<1> DEFINE T == {f[x] : x \in S}
<1>1. f \in Surjection(S, T)
  BY DEF Surjection
<1> QED
  BY <1>1, FS_Surjection

\* New entries of an in_flight list are numbered apart from those there are.
LEMMA NewEntryTyped ==
  ASSUME NEW entries, IsFiniteSet(entries), NEW r \in Request
  PROVE  /\ NewEntry(entries, r) \in EntryType
         /\ NewEntry(entries, r) \notin entries
<1> DEFINE K == {e.copy : e \in entries}
           free(k) == \A e \in entries : e.request = r => e.copy # k
<1>1. IsFiniteSet(K) /\ Cardinality(K) <= Cardinality(entries) /\ Cardinality(entries) \in Nat
  <2> DEFINE f == [e \in entries |-> e.copy]
  <2>1. K = {f[e] : e \in entries} /\ f = [e \in entries |-> f[e]]
    OBVIOUS
  <2> HIDE DEF f, K
  <2>2. IsFiniteSet(K) /\ Cardinality(K) <= Cardinality(entries)
    BY <2>1, FunctionImage
  <2> QED
    BY <2>2, FS_CardinalityType
<1>2. \E k \in 0 .. Cardinality(entries) : k \notin K
  <2>1. SUFFICES ASSUME 0 .. Cardinality(entries) \subseteq K PROVE FALSE
    OBVIOUS
  <2>2. Cardinality(0 .. Cardinality(entries)) = Cardinality(entries) + 1
    BY <1>1, FS_Interval
  <2>3. Cardinality(0 .. Cardinality(entries)) <= Cardinality(K)
    BY <2>1, <1>1, FS_Subset
  <2> QED
    BY <1>1, <2>2, <2>3, FS_CardinalityType
<1>3. \E k \in 0 .. Cardinality(entries) : free(k)
  BY <1>2
<1>4. NewEntry(entries, r).copy \in 0 .. Cardinality(entries) /\ free(NewEntry(entries, r).copy)
  BY <1>3 DEF NewEntry
<1> QED
  BY <1>1, <1>4 DEF NewEntry, EntryType

\* There are finitely many requests.
LEMMA RequestFinite == IsFiniteSet(Request)
<1> DEFINE f == [p \in Piece |-> {p} \X Block(p)]
<1>1. Request = UNION {f[p] : p \in Piece} /\ f = [p \in Piece |-> f[p]]
  BY DEF Request
<1>2. IsFiniteSet(Piece)
  BY GeometryAssumption, FS_Interval DEF Piece
<1>3. \A p \in Piece : IsFiniteSet(f[p])
  BY BlockFinite, FS_Singleton, FS_Product
<1> HIDE DEF f
<1>4. IsFiniteSet({f[p] : p \in Piece})
  BY <1>1, <1>2, FunctionImage
<1> QED
  BY <1>1, <1>3, <1>4, FS_UNION

\* What a push adds to an in_flight list keeps it finite and within MAX_IN_FLIGHT.
LEMMA PushBounded ==
  ASSUME NEW entries \in SUBSET EntryType, IsFiniteSet(entries),
         NEW C \in SUBSET Request,
         Cardinality(entries) <= MAX_IN_FLIGHT \div 2,
         NEW T \in FirstOf(C, MAX_IN_FLIGHT - Cardinality(entries))
  PROVE  LET all == entries \cup {NewEntry(entries, r) : r \in T} IN
         /\ T \in SUBSET C
         /\ all \in SUBSET EntryType
         /\ IsFiniteSet(all)
         /\ Cardinality(all) <= MAX_IN_FLIGHT
<1> DEFINE f == [r \in T |-> NewEntry(entries, r)]
           new == {f[r] : r \in T}
<1>1. T \in SUBSET C /\ IsFiniteSet(T) /\ IsFiniteSet(C)
  BY RequestFinite, FS_Subset DEF FirstOf
<1>2. Cardinality(T) <= MAX_IN_FLIGHT - Cardinality(entries)
  <2>1. Cardinality(T) = IF Cardinality(C) < MAX_IN_FLIGHT - Cardinality(entries)
                         THEN Cardinality(C) ELSE MAX_IN_FLIGHT - Cardinality(entries)
    BY DEF FirstOf
  <2> QED
    BY <2>1, <1>1, FS_CardinalityType, SchedulerAssumption
<1>3. new = {NewEntry(entries, r) : r \in T} /\ f = [r \in T |-> f[r]]
  OBVIOUS
<1>4. new \in SUBSET EntryType
  BY <1>1, NewEntryTyped
<1> HIDE DEF f
<1>5. IsFiniteSet(new) /\ Cardinality(new) <= Cardinality(T)
  BY <1>1, <1>3, FunctionImage
<1>6. IsFiniteSet(entries \cup new) /\ Cardinality(entries \cup new) <= Cardinality(entries) + Cardinality(new)
  <2>1. IsFiniteSet(entries \cap new)
    BY <1>5, FS_Subset
  <2>2. /\ Cardinality(entries) \in Nat /\ Cardinality(new) \in Nat
        /\ Cardinality(entries \cap new) \in Nat
    BY <2>1, <1>5, FS_CardinalityType
  <2>3. /\ IsFiniteSet(entries \cup new)
        /\ Cardinality(entries \cup new)
             = Cardinality(entries) + Cardinality(new) - Cardinality(entries \cap new)
    BY <1>5, FS_Union
  <2> QED
    BY <2>2, <2>3
<1>7. Cardinality(entries \cup new) <= MAX_IN_FLIGHT
  BY <1>1, <1>2, <1>5, <1>6, FS_CardinalityType, SchedulerAssumption
<1> QED
  BY <1>1, <1>3, <1>4, <1>6, <1>7

-----------------------------------------------------------------------------
(***************************************************************************)
(* A push: what the handlers that end with maybe_push_blocks leave.        *)
(***************************************************************************)
\* A handle of its type, with no more in flight than it may have.
GoodHandle(h) ==
  /\ h \in HandleType
  /\ IsFiniteSet(h.in_flight)
  /\ Cardinality(h.in_flight) <= MAX_IN_FLIGHT

LEMMA PushTyped ==
  ASSUME SlotsType, InFlightBound, asked \in [Slot -> [Request -> Nat]],
         NEW s \in DOMAIN slots, NEW h, GoodHandle(h),
         NEW pcs, Buffers(pcs), DOMAIN pcs = Piece,
         MaybePushBlocks(s, h, pcs)
  PROVE  SlotsType' /\ InFlightBound' /\ PiecesType' /\ asked' \in [Slot -> [Request -> Nat]]
<1>1. CASE CanRequest(h)
  <2>1. PICK T \in FirstOf(Candidates(h, pcs), MAX_IN_FLIGHT - Cardinality(h.in_flight)) :
          /\ pieces' = MarkRequested(pcs, T)
          /\ slots' = [slots EXCEPT ![s] =
               [h EXCEPT !.in_flight = @ \cup {NewEntry(@, r) : r \in T}]]
          /\ asked' = [asked EXCEPT ![s] =
               [r \in Request |-> IF r \in T THEN @[r] + 1 ELSE @[r]]]
    BY <1>1 DEF MaybePushBlocks
  <2> DEFINE all == h.in_flight \cup {NewEntry(h.in_flight, r) : r \in T}
  <2>2. all \in SUBSET EntryType /\ IsFiniteSet(all) /\ Cardinality(all) <= MAX_IN_FLIGHT
    <3>1. Candidates(h, pcs) \in SUBSET Request
      BY DEF Candidates
    <3>2. h.in_flight \in SUBSET EntryType
      BY DEF GoodHandle, HandleType
    <3>3. IsFiniteSet(h.in_flight) /\ Cardinality(h.in_flight) <= MAX_IN_FLIGHT \div 2
      BY <1>1 DEF CanRequest, GoodHandle
    <3> QED
      BY <3>1, <3>2, <3>3, <2>1, PushBounded
  <2>3. slots' = [slots EXCEPT ![s] = [h EXCEPT !.in_flight = all]]
    BY <2>1
  <2> HIDE DEF all
  <2>4. GoodHandle([h EXCEPT !.in_flight = all])
    BY <2>2 DEF GoodHandle, HandleType
  <2>5. SlotsType' /\ InFlightBound'
    BY <2>3, <2>4 DEF SlotsType, InFlightBound, GoodHandle
  <2>6. PiecesType'
    BY <2>1, MarkTyped DEF PiecesType, Buffers
  <2>7. asked' \in [Slot -> [Request -> Nat]]
    <3>1. s \in Slot /\ asked[s] \in [Request -> Nat]
      BY DEF SlotsType
    <3>2. [r \in Request |-> IF r \in T THEN asked[s][r] + 1 ELSE asked[s][r]] \in [Request -> Nat]
      BY <3>1
    <3> QED
      BY <2>1, <3>2
  <2> QED
    BY <2>5, <2>6, <2>7
<1>2. CASE ~CanRequest(h)
  <2>1. pieces' = pcs /\ slots' = [slots EXCEPT ![s] = h] /\ asked' = asked
    BY <1>2 DEF MaybePushBlocks
  <2> QED
    BY <2>1 DEF SlotsType, InFlightBound, GoodHandle, PiecesType, Buffers
<1> QED
  BY <1>1, <1>2

-----------------------------------------------------------------------------
(***************************************************************************)
(* Type correctness and the bound on requests in flight, together: a push  *)
(* adds no more than the bound leaves, and that needs finite lists.        *)
(***************************************************************************)
Typed == TypeOK /\ InFlightBound

\* Initially everything is empty.
LEMMA InitTyped == Init => Typed
<1>1. Init => PiecesType
  BY BufferTyped DEF Init, PiecesType
<1>2. Init => SlotsType /\ InFlightBound
  BY DEF Init, SlotsType, InFlightBound
<1>3. Init => DiskType
  BY DEF Init, DiskType
<1> QED
  BY <1>1, <1>2, <1>3 DEF Init, Typed, TypeOK, NothingAsked

\* Taking an event from peer_rx.
LEMMA TakeTyped ==
  ASSUME TypeOK, NEW type, Take(type)
  PROVE  /\ peer_rx' \in Seq(EventType)
         /\ Head(peer_rx) \in EventType
         /\ Head(peer_rx).type = type
  BY QueueTail DEF TypeOK, Take

\* Messages from the session, and connection events.
LEMMA ConnectionsTyped ==
  ASSUME Typed,
         \/ \E list \in SUBSET Tracked \ {{}} : DedupAndStartPeers(list)
         \/ \E a \in Incoming : AddIncomingPeer(a)
         \/ EventForMissingPeer
         \/ HandleConnect
         \/ HandleConnectFailed
  PROVE  Typed'
<1> USE DEF Typed
<1>1. CASE \E list \in SUBSET Tracked \ {{}} : DedupAndStartPeers(list)
  BY <1>1, SchedulerAssumption
     DEF DedupAndStartPeers, TypeOK, SlotsType, PiecesType, DiskType, InFlightBound
<1>2. CASE \E a \in Incoming : AddIncomingPeer(a)
  <2>1. PICK a \in Incoming : AddIncomingPeer(a)
    BY <1>2
  <2>2. a \in Addr /\ [type |-> "Connect", addr |-> a] \in EventType
    BY SchedulerAssumption, EventTyped
  <2>3. peer_rx' \in Seq(EventType)
    BY <2>1, <2>2, QueueAppend DEF AddIncomingPeer, Post, TypeOK
  <2> QED
    BY <2>1, <2>2, <2>3 DEF AddIncomingPeer, TypeOK, SlotsType, PiecesType, DiskType, InFlightBound
<1>3. CASE EventForMissingPeer
  BY <1>3, QueueTail
     DEF EventForMissingPeer, TypeOK, SlotsType, PiecesType, DiskType, InFlightBound
<1>4. CASE HandleConnect
  <2>1. peer_rx' \in Seq(EventType) /\ Head(peer_rx).addr \in Addr
    BY <1>4, TakeTyped, EventFields DEF HandleConnect
  <2>2. PICK s \in Slot \ DOMAIN slots :
          /\ slots' = [t \in DOMAIN slots \cup {s} |->
                         IF t = s THEN NewPeerHandle(Head(peer_rx).addr) ELSE slots[t]]
          /\ tasks' = [tasks EXCEPT ![s] = "handshake"]
    BY <1>4 DEF HandleConnect
  <2>3. GoodHandle(NewPeerHandle(Head(peer_rx).addr))
    BY <2>1, FS_EmptySet, SchedulerAssumption DEF GoodHandle, NewPeerHandle, HandleType
  <2>4. SlotsType' /\ InFlightBound'
    BY <2>2, <2>3 DEF TypeOK, SlotsType, InFlightBound, GoodHandle
  <2> QED
    BY <1>4, <2>1, <2>2, <2>4 DEF HandleConnect, TypeOK, PiecesType, DiskType
<1>5. CASE HandleConnectFailed
  BY <1>5, TakeTyped
     DEF HandleConnectFailed, TypeOK, SlotsType, PiecesType, DiskType, InFlightBound
<1> QED
  BY <1>1, <1>2, <1>3, <1>4, <1>5

\* A peer leaves.
LEMMA RemovePeerTyped ==
  ASSUME Typed, NEW s \in Slot, RemovePeer(s)
  PROVE  Typed'
<1> USE DEF Typed
<1>1. peer_rx' \in Seq(EventType)
  BY TakeTyped DEF RemovePeer, TakeFrom
<1>2. PiecesType'
  <2>1. pieces' \in {pieces, Release(pieces, Handle(s).in_flight)}
    BY DEF RemovePeer
  <2>2. Buffers(pieces) /\ DOMAIN pieces = Piece
    BY DEF TypeOK, PiecesType, Buffers
  <2> QED
    BY <2>1, <2>2, ReleaseTyped DEF PiecesType, Buffers
<1>3. SlotsType' /\ InFlightBound'
  BY DEF RemovePeer, TypeOK, SlotsType, InFlightBound
<1>4. asked' \in [Slot -> [Request -> Nat]]
  <2>1. asked' \in {asked, [asked EXCEPT ![s] = NothingAsked]}
    BY DEF RemovePeer
  <2>2. NothingAsked \in [Request -> Nat]
    BY DEF NothingAsked
  <2> QED
    BY <2>1, <2>2 DEF TypeOK
<1> QED
  BY <1>1, <1>2, <1>3, <1>4 DEF RemovePeer, TypeOK, DiskType

\* A peer's messages other than Data.
LEMMA MessagesTyped ==
  ASSUME Typed, NEW s \in Slot,
         \/ HandleBitfield(s) \/ HandleHave(s) \/ HandleChoke(s)
         \/ HandleUnchoke(s) \/ HandleInterest(s)
  PROVE  Typed'
<1> USE DEF Typed
<1>1. ASSUME s \in DOMAIN slots PROVE GoodHandle(Handle(s))
  BY <1>1 DEF TypeOK, SlotsType, InFlightBound, GoodHandle, Handle
<1>2. Buffers(pieces) /\ DOMAIN pieces = Piece
  BY DEF TypeOK, PiecesType, Buffers
<1>3. CASE HandleBitfield(s)
  <2> DEFINE h == [Handle(s) EXCEPT !.has_bitfield = TRUE,
                     !.bitfield = Head(peer_rx).bits, !.am_interested = TRUE]
  <2>1. s \in DOMAIN slots /\ peer_rx' \in Seq(EventType) /\ Head(peer_rx).bits \in SUBSET Piece
    BY <1>3, TakeTyped, EventFields DEF HandleBitfield, TakeFrom
  <2>2. GoodHandle(h)
    BY <1>1, <2>1 DEF GoodHandle, HandleType
  <2>3. MaybePushBlocks(s, h, pieces)
    BY <1>3 DEF HandleBitfield
  <2> HIDE DEF h
  <2>4. SlotsType' /\ InFlightBound' /\ PiecesType' /\ asked' \in [Slot -> [Request -> Nat]]
    BY <1>2, <2>1, <2>2, <2>3, PushTyped DEF TypeOK
  <2> QED
    BY <1>3, <2>1, <2>4 DEF HandleBitfield, TypeOK, DiskType
<1>4. CASE HandleHave(s)
  <2> DEFINE h == [Handle(s) EXCEPT !.bitfield = @ \cup {Head(peer_rx).piece}, !.am_interested = TRUE]
  <2>1. s \in DOMAIN slots /\ peer_rx' \in Seq(EventType)
    BY <1>4, TakeTyped DEF HandleHave, TakeFrom
  <2>2. CASE ~HavePanics(Head(peer_rx))
    <3>1. Head(peer_rx).piece \in Piece
      BY <2>2 DEF HavePanics
    <3>2. GoodHandle(h)
      BY <1>1, <2>1, <3>1 DEF GoodHandle, HandleType
    <3>3. MaybePushBlocks(s, h, pieces) /\ UNCHANGED sched
      BY <1>4, <2>2 DEF HandleHave
    <3> HIDE DEF h
    <3>4. SlotsType' /\ InFlightBound' /\ PiecesType' /\ asked' \in [Slot -> [Request -> Nat]]
      BY <1>2, <2>1, <3>2, <3>3, PushTyped DEF TypeOK
    <3> QED
      BY <1>4, <2>1, <3>3, <3>4 DEF HandleHave, TypeOK, DiskType
  <2>3. CASE HavePanics(Head(peer_rx))
    BY <1>4, <2>1, <2>3 DEF HandleHave, TypeOK, SlotsType, PiecesType, DiskType, InFlightBound
  <2> QED
    BY <2>2, <2>3
<1>5. CASE HandleChoke(s)
  <2>1. s \in DOMAIN slots /\ peer_rx' \in Seq(EventType)
    BY <1>5, TakeTyped DEF HandleChoke, TakeFrom
  <2>2. GoodHandle([Handle(s) EXCEPT !.am_choked = TRUE])
    BY <1>1, <2>1 DEF GoodHandle, HandleType
  <2>3. slots' = [slots EXCEPT ![s] = [Handle(s) EXCEPT !.am_choked = TRUE]]
    BY <1>5 DEF HandleChoke, Handle
  <2>4. SlotsType' /\ InFlightBound'
    BY <2>2, <2>3 DEF TypeOK, SlotsType, InFlightBound, GoodHandle
  <2> QED
    BY <1>5, <2>1, <2>4 DEF HandleChoke, TypeOK, PiecesType, DiskType
<1>6. CASE HandleUnchoke(s)
  <2> DEFINE h == [Handle(s) EXCEPT !.am_choked = FALSE]
  <2>1. s \in DOMAIN slots /\ peer_rx' \in Seq(EventType)
    BY <1>6, TakeTyped DEF HandleUnchoke, TakeFrom
  <2>2. GoodHandle(h)
    BY <1>1, <2>1 DEF GoodHandle, HandleType
  <2>3. CASE Handle(s).am_choked
    <3>1. MaybePushBlocks(s, h, pieces)
      BY <1>6, <2>3 DEF HandleUnchoke
    <3> HIDE DEF h
    <3>2. SlotsType' /\ InFlightBound' /\ PiecesType' /\ asked' \in [Slot -> [Request -> Nat]]
      BY <1>2, <2>1, <2>2, <3>1, PushTyped DEF TypeOK
    <3> QED
      BY <1>6, <2>1, <3>2 DEF HandleUnchoke, TypeOK, DiskType
  <2>4. CASE ~Handle(s).am_choked
    BY <1>6, <2>1, <2>4 DEF HandleUnchoke, TypeOK, SlotsType, PiecesType, DiskType, InFlightBound
  <2> QED
    BY <2>3, <2>4
<1>7. CASE HandleInterest(s)
  <2>1. s \in DOMAIN slots /\ peer_rx' \in Seq(EventType)
    BY <1>7, TakeTyped DEF HandleInterest, TakeFrom
  <2>2. PICK i \in BOOLEAN : slots' = [slots EXCEPT ![s] = [Handle(s) EXCEPT !.peer_interested = i]]
    BY <1>7 DEF HandleInterest, Handle
  <2>3. GoodHandle([Handle(s) EXCEPT !.peer_interested = i])
    BY <1>1, <2>1 DEF GoodHandle, HandleType
  <2>4. SlotsType' /\ InFlightBound'
    BY <2>2, <2>3 DEF TypeOK, SlotsType, InFlightBound, GoodHandle
  <2> QED
    BY <1>7, <2>1, <2>4 DEF HandleInterest, TypeOK, PiecesType, DiskType
<1> QED
  BY <1>3, <1>4, <1>5, <1>6, <1>7

\* A block is stored, and its piece handed over if it was the last.
LEMMA AcceptTyped ==
  ASSUME Typed, NEW s \in DOMAIN slots, NEW h, GoodHandle(h),
         NEW r \in Request, r[2] \in DOMAIN pieces[r[1]].status,
         AcceptData(s, h, r)
  PROVE  /\ SlotsType' /\ InFlightBound' /\ PiecesType'
         /\ asked' \in [Slot -> [Request -> Nat]]
         /\ disk_rx' \in Seq([piece : Piece, data : SUBSET Nat])
         /\ UNCHANGED sched
<1> USE DEF Typed
<1> DEFINE buf == pieces[r[1]]
           new == StoreBlock(buf, r[2])
<1>1. r[1] \in Piece /\ r[2] \in Block(r[1]) /\ buf \in BufferType(r[1])
  BY RequestParts DEF TypeOK, PiecesType
<1>2. Buffers(pieces) /\ DOMAIN pieces = Piece
  BY DEF TypeOK, PiecesType, Buffers
<1>3. new \in BufferType(r[1]) /\ HandOver(new) \in BufferType(r[1])
  BY <1>1, BufferTyped
<1>4. new.data \in SUBSET Nat
  BY <1>1, <1>3, BlockFinite DEF BufferType
<1>5. PICK last \in {new, HandOver(new)} :
        MaybePushBlocks(s, h, [pieces EXCEPT ![r[1]] = last])
  BY DEF AcceptData
<1>6. /\ disk_rx' \in {disk_rx, Append(disk_rx, [piece |-> r[1], data |-> new.data])}
      /\ UNCHANGED sched
  BY DEF AcceptData
<1> HIDE DEF new, buf
<1>7. Buffers([pieces EXCEPT ![r[1]] = last]) /\ DOMAIN [pieces EXCEPT ![r[1]] = last] = Piece
  BY <1>1, <1>2, <1>3 DEF Buffers
<1>8. SlotsType' /\ InFlightBound' /\ PiecesType' /\ asked' \in [Slot -> [Request -> Nat]]
  BY <1>5, <1>7, PushTyped DEF TypeOK
<1>9. disk_rx' \in Seq([piece : Piece, data : SUBSET Nat])
  <2> DEFINE Message == [piece : Piece, data : SUBSET Nat]
             e == [piece |-> r[1], data |-> new.data]
  <2>1. e \in Message
    BY <1>1, <1>4
  <2>2. disk_rx \in Seq(Message)
    BY DEF TypeOK, DiskType
  <2>3. disk_rx' = disk_rx \/ disk_rx' = Append(disk_rx, e)
    BY <1>6
  <2> HIDE DEF Message, e
  <2>4. disk_rx' \in Seq(Message)
    BY <2>1, <2>2, <2>3, QueueAppend
  <2> QED
    BY <2>4 DEF Message
<1> QED
  BY <1>6, <1>8, <1>9

\* A block nobody needs.
LEMMA IgnoreTyped ==
  ASSUME Typed, NEW s \in DOMAIN slots, NEW h, GoodHandle(h), IgnoreData(s, h)
  PROVE  /\ SlotsType' /\ InFlightBound'
         /\ UNCHANGED <<sched, pieces, asked, disk_rx>>
<1>1. slots' = [slots EXCEPT ![s] = h] /\ UNCHANGED <<sched, pieces, asked, disk_rx>>
  BY DEF IgnoreData
<1> QED
  BY <1>1 DEF Typed, TypeOK, SlotsType, InFlightBound, GoodHandle

\* A request outside the vectors panics: what does not, and is wanted, is a block.
LEMMA WantedIsBlock ==
  ASSUME PiecesType, NEW e, e.request \in Request \cup NoSuchBlock,
         ~MisfitPanics(e), Wanted(e.request)
  PROVE  /\ e.request \in Request
         /\ e.request[2] \in DOMAIN pieces[e.request[1]].status
         /\ e.fits
<1> DEFINE r == e.request
<1>1. r[1] \in Piece /\ ~pieces[r[1]].complete /\ r[2] \in DOMAIN pieces[r[1]].status /\ e.fits
  BY DEF MisfitPanics, Wanted
<1>2. r[2] \in Block(r[1])
  BY <1>1 DEF PiecesType, BufferType
<1>3. r = <<r[1], r[2]>>
  BY RequestParts DEF NoSuchBlock
<1> QED
  BY <1>1, <1>2, <1>3, RequestParts

\* A block arrives.
LEMMA DataTyped ==
  ASSUME Typed, NEW s \in Slot, HandleData(s)
  PROVE  Typed'
<1> USE DEF Typed
<1>1. /\ s \in DOMAIN slots /\ peer_rx' \in Seq(EventType)
      /\ Head(peer_rx).request \in Request
  BY TakeTyped, EventFields DEF HandleData, TakeFrom
<1>2. PICK entries \in WithoutEntry(Handle(s).in_flight, Head(peer_rx).request) :
        LET r   == Head(peer_rx).request
            buf == pieces[r[1]]
            h   == [Handle(s) EXCEPT !.in_flight = entries]
        IN  IF buf.complete THEN IgnoreData(s, h)
            ELSE IF r[2] \notin DOMAIN buf.status
            THEN sched' = "panicked" /\ UNCHANGED <<slots, pieces, asked, disk_rx>>
            ELSE IF buf.status[r[2]] = "Received" THEN IgnoreData(s, h)
            ELSE AcceptData(s, h, r)
  BY DEF HandleData
<1> DEFINE r   == Head(peer_rx).request
           buf == pieces[r[1]]
           h   == [Handle(s) EXCEPT !.in_flight = entries]
<1>3. GoodHandle(h)
  <2>1. GoodHandle(Handle(s))
    BY <1>1 DEF TypeOK, SlotsType, InFlightBound, GoodHandle, Handle
  <2>2. entries \in SUBSET Handle(s).in_flight
    BY DEF WithoutEntry
  <2>3. entries \in SUBSET EntryType
    BY <2>1, <2>2 DEF GoodHandle, HandleType
  <2>4. IsFiniteSet(entries) /\ Cardinality(entries) <= MAX_IN_FLIGHT
    BY <2>1, <2>2, FS_Subset, FS_CardinalityType, SchedulerAssumption DEF GoodHandle
  <2> QED
    BY <2>1, <2>3, <2>4 DEF GoodHandle, HandleType
<1> HIDE DEF h
<1>4. CASE IgnoreData(s, h)
  <2>1. SlotsType' /\ InFlightBound' /\ UNCHANGED <<sched, pieces, asked, disk_rx>>
    BY <1>1, <1>3, <1>4, IgnoreTyped
  <2> QED
    BY <2>1, <1>1 DEF HandleData, TypeOK, PiecesType, DiskType
<1>5. CASE AcceptData(s, h, r) /\ r[2] \in DOMAIN buf.status
  <2>1. /\ SlotsType' /\ InFlightBound' /\ PiecesType'
        /\ asked' \in [Slot -> [Request -> Nat]]
        /\ disk_rx' \in Seq([piece : Piece, data : SUBSET Nat])
        /\ UNCHANGED sched
    BY <1>1, <1>3, <1>5, AcceptTyped
  <2> QED
    BY <1>1, <2>1 DEF HandleData, TypeOK, DiskType
<1>6. CASE sched' = "panicked" /\ UNCHANGED <<slots, pieces, asked, disk_rx>>
  BY <1>1, <1>6 DEF HandleData, TypeOK, SlotsType, PiecesType, DiskType, InFlightBound
<1> QED
  BY <1>2, <1>4, <1>5, <1>6 DEF h

\* A Piece message that is no block arrives.
LEMMA MisfitTyped ==
  ASSUME Typed, NEW s \in Slot, HandleMisfit(s)
  PROVE  Typed'
<1> USE DEF Typed
<1> DEFINE e == Head(peer_rx)
<1>1. /\ s \in DOMAIN slots /\ peer_rx' \in Seq(EventType)
      /\ e.request \in Request \cup NoSuchBlock
  BY TakeTyped, EventFields DEF HandleMisfit, TakeFrom
<1>2. GoodHandle(Handle(s))
  BY <1>1 DEF TypeOK, SlotsType, InFlightBound, GoodHandle, Handle
<1>3. CASE sched' = "panicked" /\ UNCHANGED <<slots, pieces, asked, disk_rx>>
  BY <1>1, <1>3 DEF HandleMisfit, TypeOK, SlotsType, PiecesType, DiskType, InFlightBound
<1>4. CASE IgnoreData(s, Handle(s))
  <2>1. SlotsType' /\ InFlightBound' /\ UNCHANGED <<sched, pieces, asked, disk_rx>>
    BY <1>1, <1>2, <1>4, IgnoreTyped
  <2> QED
    BY <2>1, <1>1 DEF HandleMisfit, TypeOK, PiecesType, DiskType
<1>5. CASE ~MisfitPanics(e) /\ Wanted(e.request) /\ AcceptData(s, Handle(s), e.request)
  <2>1. e.request \in Request /\ e.request[2] \in DOMAIN pieces[e.request[1]].status
    BY <1>1, <1>5, WantedIsBlock DEF TypeOK
  <2>2. /\ SlotsType' /\ InFlightBound' /\ PiecesType'
        /\ asked' \in [Slot -> [Request -> Nat]]
        /\ disk_rx' \in Seq([piece : Piece, data : SUBSET Nat])
        /\ UNCHANGED sched
    BY <1>1, <1>2, <1>5, <2>1, AcceptTyped
  <2> QED
    BY <1>1, <2>2 DEF HandleMisfit, TypeOK, DiskType
<1> QED
  BY <1>3, <1>4, <1>5 DEF HandleMisfit

\* The watchdog and the answers of the disk task.
LEMMA TimeoutsAndVerdictsTyped ==
  ASSUME Typed,
         ScanTimeouts \/ ParseCompletedPieces \/ OnCompletePiece \/ HandleFailure
  PROVE  Typed'
<1> USE DEF Typed
<1>1. Buffers(pieces) /\ DOMAIN pieces = Piece
  BY DEF TypeOK, PiecesType, Buffers
<1>2. CASE ScanTimeouts
  <2>1. PiecesType'
    <3>1. PICK old : pieces' \in {pieces, Release(pieces, old)}
      BY <1>2 DEF ScanTimeouts
    <3> QED
      BY <1>1, <3>1, ReleaseTyped DEF PiecesType, Buffers
  <2>2. SlotsType' /\ InFlightBound'
    <3>1. CASE UNCHANGED slots
      BY <3>1 DEF TypeOK, SlotsType, InFlightBound
    <3>2. CASE slots' = [s \in DOMAIN slots |->
                 [slots[s] EXCEPT !.in_flight = {e \in @ : ~e.expired}]]
      <4>1. SUFFICES ASSUME NEW s \in DOMAIN slots PROVE GoodHandle(slots'[s])
        BY <3>2 DEF TypeOK, SlotsType, InFlightBound, GoodHandle
      <4> DEFINE kept == {e \in slots[s].in_flight : ~e.expired}
      <4>2. GoodHandle(slots[s])
        BY DEF TypeOK, SlotsType, InFlightBound, GoodHandle
      <4>3. kept \in SUBSET EntryType
        BY <4>2 DEF GoodHandle, HandleType
      <4>4. IsFiniteSet(kept) /\ Cardinality(kept) <= MAX_IN_FLIGHT
        BY <4>2, FS_Subset, FS_CardinalityType, SchedulerAssumption DEF GoodHandle
      <4>5. slots'[s] = [slots[s] EXCEPT !.in_flight = kept]
        BY <3>2
      <4> HIDE DEF kept
      <4> QED
        BY <4>2, <4>3, <4>4, <4>5 DEF GoodHandle, HandleType
    <3> QED
      BY <1>2, <3>1, <3>2 DEF ScanTimeouts
  <2> QED
    BY <1>2, <2>1, <2>2 DEF ScanTimeouts, TypeOK, DiskType
<1>3. ASSUME disk_tx # <<>>, disk_tx' = Tail(disk_tx)
      PROVE  Head(disk_tx) \in ResponseType /\ disk_tx' \in Seq(ResponseType)
  BY <1>3, QueueTail DEF TypeOK, DiskType
<1>4. CASE ParseCompletedPieces
  <2>1. Head(disk_tx).bits \in SUBSET Piece /\ disk_tx' \in Seq(ResponseType)
    BY <1>3, <1>4 DEF ParseCompletedPieces, TakeResponse, ResponseType, Verdict
  <2>2. Cardinality(Head(disk_tx).bits) \in Nat
    <3>1. IsFiniteSet(Piece)
      BY GeometryAssumption, FS_Interval DEF Piece
    <3> QED
      BY <2>1, <3>1, FS_Subset, FS_CardinalityType
  <2>3. PiecesType'
    BY <1>4 DEF ParseCompletedPieces, TypeOK, PiecesType, BufferType
  <2> QED
    BY <1>4, <2>1, <2>2, <2>3
       DEF ParseCompletedPieces, TypeOK, SlotsType, DiskType, InFlightBound
<1>5. CASE OnCompletePiece
  <2>1. Head(disk_tx).piece \in Piece /\ disk_tx' \in Seq(ResponseType)
    BY <1>3, <1>5 DEF OnCompletePiece, TakeResponse, ResponseType, Verdict
  <2>2. PiecesType'
    BY <1>1, <1>5, <2>1, BufferTyped DEF OnCompletePiece, PiecesType, Buffers
  <2> QED
    BY <1>5, <2>1, <2>2 DEF OnCompletePiece, TypeOK, SlotsType, DiskType, InFlightBound
<1>6. CASE HandleFailure
  <2>1. Head(disk_tx).piece \in Piece /\ disk_tx' \in Seq(ResponseType)
    BY <1>3, <1>6 DEF HandleFailure, TakeResponse, ResponseType, Verdict
  <2>2. PiecesType'
    BY <1>1, <1>6, <2>1, BufferTyped DEF HandleFailure, PiecesType, Buffers
  <2> QED
    BY <1>6, <2>1, <2>2 DEF HandleFailure, TypeOK, SlotsType, DiskType, InFlightBound
<1> QED
  BY <1>2, <1>4, <1>5, <1>6

\* Connection attempts, run_peer tasks, the passing of time and the disk task.
LEMMA EnvironmentTyped ==
  ASSUME Typed, PeersNext \/ TimePasses \/ DiskNext
  PROVE  Typed'
<1> USE DEF Typed
<1>1. CASE \E a \in Addr : ConnectDone(a)
  <2>1. peer_rx' \in Seq(EventType)
    <3>1. PICK e \in EventType : peer_rx' = Append(peer_rx, e)
      BY <1>1, EventTyped DEF ConnectDone, Post
    <3> QED
      BY <3>1, QueueAppend DEF TypeOK
  <2> QED
    BY <1>1, <2>1 DEF ConnectDone, TypeOK, SlotsType, PiecesType, DiskType, InFlightBound
<1>2. CASE \E s \in Slot : HandshakeOk(s)
  BY <1>2 DEF HandshakeOk, TypeOK, SlotsType, PiecesType, DiskType, InFlightBound
<1>3. ASSUME NEW s \in Slot, TaskEnds(s), late' \in SUBSET EventType PROVE Typed'
  <2>1. peer_rx' \in Seq(EventType)
    BY <1>3, EventTyped, QueueAppend DEF TaskEnds, Post, TypeOK
  <2>2. NothingAsked \in [Request -> Nat]
    BY DEF NothingAsked
  <2>3. asked' \in [Slot -> [Request -> Nat]]
    BY <1>3, <2>2 DEF TaskEnds, TypeOK
  <2> QED
    BY <1>3, <2>1, <2>3 DEF TaskEnds, TypeOK, SlotsType, PiecesType, DiskType, InFlightBound
<1>4. CASE \E s \in Slot : HandshakeFails(s) \/ ReaderEnds(s) \/ WriterEnds(s)
  <2>1. PICK s \in Slot : HandshakeFails(s) \/ ReaderEnds(s) \/ WriterEnds(s)
    BY <1>4
  <2>2. TaskEnds(s)
    BY <2>1 DEF HandshakeFails, ReaderEnds, WriterEnds
  <2>3. late' \in SUBSET EventType
    BY <2>1, MessageTyped DEF HandshakeFails, ReaderEnds, WriterEnds, TypeOK
  <2> QED
    BY <1>3, <2>2, <2>3
<1>5. CASE \E s \in Slot : \E m \in PeerMessages(s) : ReadMessage(s, m)
  <2>0. PICK s \in Slot : \E m \in PeerMessages(s) : ReadMessage(s, m)
    BY <1>5
  <2>1. PICK m \in PeerMessages(s) : ReadMessage(s, m)
    BY <2>0
  <2>2. peer_rx' \in Seq(EventType)
    BY <2>1, MessageTyped, QueueAppend DEF ReadMessage, Post, TypeOK
  <2>3. asked' \in [Slot -> [Request -> Nat]]
    <3>1. CASE m.type = "Data" /\ asked[s][m.request] > 0
      <4>1. m.request \in Request /\ asked[s][m.request] > 0
        BY <2>1, <3>1, MessageTyped, EventFields
      <4>2. asked[s] \in [Request -> Nat]
        BY DEF TypeOK
      <4>3. [asked[s] EXCEPT ![m.request] = @ - 1] \in [Request -> Nat]
        BY <4>1, <4>2
      <4>4. asked' = [asked EXCEPT ![s] = [asked[s] EXCEPT ![m.request] = @ - 1]]
        BY <2>1, <3>1 DEF ReadMessage
      <4> QED
        BY <4>3, <4>4 DEF TypeOK
    <3>2. CASE ~(m.type = "Data" /\ asked[s][m.request] > 0)
      BY <2>1, <3>2 DEF ReadMessage, TypeOK
    <3> QED
      BY <3>1, <3>2
  <2> QED
    BY <2>1, <2>2, <2>3 DEF ReadMessage, TypeOK, SlotsType, PiecesType, DiskType, InFlightBound
<1>6. CASE \E m \in late : LateEvent(m)
  <2>1. peer_rx' \in Seq(EventType)
    BY <1>6, QueueAppend DEF LateEvent, Post, TypeOK
  <2> QED
    BY <1>6, <2>1 DEF LateEvent, TypeOK, SlotsType, PiecesType, DiskType, InFlightBound
<1>7. CASE TimePasses
  <2>1. SlotsType' /\ InFlightBound'
    <3>1. SUFFICES ASSUME NEW s \in DOMAIN slots PROVE GoodHandle(slots'[s])
      BY <1>7 DEF TimePasses, TypeOK, SlotsType, InFlightBound, GoodHandle
    <3> DEFINE entries == slots[s].in_flight
               f == [e \in entries |-> [e EXCEPT !.expired = TRUE]]
               old == {f[e] : e \in entries}
    <3>2. GoodHandle(slots[s])
      BY DEF TypeOK, SlotsType, InFlightBound, GoodHandle
    <3>3. f = [e \in entries |-> f[e]] /\ slots'[s] = [slots[s] EXCEPT !.in_flight = old]
      BY <1>7 DEF TimePasses
    <3>4. old \in SUBSET EntryType
      BY <3>2 DEF GoodHandle, HandleType, EntryType
    <3> HIDE DEF f
    <3>5. IsFiniteSet(old) /\ Cardinality(old) <= Cardinality(entries)
      BY <3>2, <3>3, FunctionImage DEF GoodHandle
    <3>6. Cardinality(old) <= MAX_IN_FLIGHT
      BY <3>2, <3>5, FS_CardinalityType, SchedulerAssumption DEF GoodHandle
    <3> HIDE DEF old
    <3> QED
      BY <3>2, <3>3, <3>4, <3>5, <3>6 DEF GoodHandle, HandleType
  <2> QED
    BY <1>7, <2>1 DEF TimePasses, TypeOK, PiecesType, DiskType
<1>8. CASE ReadSavefile
  <2>1. [type |-> "CompletedPieces", bits |-> Resumed] \in ResponseType
    BY SchedulerAssumption DEF ResponseType
  <2>2. disk_tx' \in Seq(ResponseType)
    BY <1>8, <2>1, QueueAppend DEF ReadSavefile, TypeOK, DiskType
  <2> QED
    BY <1>8, <2>2 DEF ReadSavefile, TypeOK, SlotsType, PiecesType, DiskType, InFlightBound
<1>9. CASE TryHashAndWrite
  <2>1. PICK verdict \in Verdict :
          disk_tx' = Append(disk_tx, [type |-> verdict, piece |-> Head(disk_rx).piece])
    BY <1>9 DEF TryHashAndWrite, Verdict
  <2>2. /\ disk_rx' \in Seq([piece : Piece, data : SUBSET Nat])
        /\ Head(disk_rx).piece \in Piece
    <3>1. disk_rx # <<>> /\ disk_rx \in Seq([piece : Piece, data : SUBSET Nat])
      BY <1>9 DEF TryHashAndWrite, TypeOK, DiskType
    <3>2. /\ Head(disk_rx) \in [piece : Piece, data : SUBSET Nat]
          /\ Tail(disk_rx) \in Seq([piece : Piece, data : SUBSET Nat])
      BY <3>1, QueueTail
    <3> QED
      BY <1>9, <3>2 DEF TryHashAndWrite
  <2>3. [type |-> verdict, piece |-> Head(disk_rx).piece] \in ResponseType
    BY <2>2 DEF ResponseType
  <2>4. disk_tx' \in Seq(ResponseType)
    BY <2>1, <2>3, QueueAppend DEF TypeOK, DiskType
  <2> QED
    BY <1>9, <2>2, <2>4 DEF TryHashAndWrite, TypeOK, SlotsType, PiecesType, DiskType, InFlightBound
<1>10. CASE \E s \in Slot : Discards(s)
  <2>1. PICK s \in Slot : Discards(s)
    BY <1>10
  <2>2. NothingAsked \in [Request -> Nat]
    BY DEF NothingAsked
  <2>3. asked' \in [Slot -> [Request -> Nat]]
    BY <2>1, <2>2 DEF Discards, TypeOK
  <2> QED
    BY <2>1, <2>3 DEF Discards, TypeOK, SlotsType, PiecesType, DiskType, InFlightBound
<1> QED
  BY <1>1, <1>2, <1>4, <1>5, <1>6, <1>7, <1>8, <1>9, <1>10 DEF PeersNext, DiskNext

\* Every step keeps Typed.
LEMMA NextTyped == Typed /\ [Next]_vars => Typed'
<1> SUFFICES ASSUME Typed, [Next]_vars PROVE Typed'
  OBVIOUS
<1>1. CASE SchedulerNext
  BY <1>1, ConnectionsTyped, RemovePeerTyped, MessagesTyped, DataTyped, MisfitTyped,
     TimeoutsAndVerdictsTyped
     DEF SchedulerNext, HandlePeerEvent, HandleResponse
<1>2. CASE PeersNext \/ TimePasses \/ DiskNext
  BY <1>2, EnvironmentTyped
<1>3. CASE UNCHANGED vars
  BY <1>3 DEF vars, Typed, TypeOK, SlotsType, PiecesType, DiskType, InFlightBound
<1> QED
  BY <1>1, <1>2, <1>3 DEF Next

\* The variables of the scheduler and of the tasks around it keep their shapes, for
\* every torrent geometry and every number of peers.
THEOREM TypeCorrect == Spec => []TypeOK
<1>1. Spec => []Typed
  BY InitTyped, NextTyped, PTL DEF Spec
<1> QED
  BY <1>1, PTL DEF Typed

\* No peer is ever asked for more than MAX_IN_FLIGHT blocks at a time.
THEOREM InFlightBounded == Spec => []InFlightBound
<1>1. Spec => []Typed
  BY InitTyped, NextTyped, PTL DEF Spec
<1> QED
  BY <1>1, PTL DEF Typed
=============================================================================
