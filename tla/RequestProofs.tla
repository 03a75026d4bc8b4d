---------------------------- MODULE RequestProofs ---------------------------
(***************************************************************************)
(* Requests: whatever peers do, a block of an unfinished piece that is     *)
(* marked Requested is in somebody's in_flight list, every entry of such a *)
(* list has an answer still to come, and, while no piece fails             *)
(* verification, a block is in one list only and finds its buffer when it  *)
(* arrives, so that nothing but a Have sent too early makes the scheduler  *)
(* panic.                                                                  *)
(***************************************************************************)
EXTENDS ConnectionProofs, PipelineProofs

USE DEF schedVars, peerVars, diskVars

\* Some handle of hs has a request for block b of piece p in flight.
Owner(hs, p, b) == \E s \in DOMAIN hs : \E e \in hs[s].in_flight : e.request = <<p, b>>

\* NoOrphanedRequest of the pieces pcs and the handles hs.
Owned(pcs, hs) ==
  \A p \in Piece : ~pcs[p].complete =>
    \A b \in DOMAIN pcs[p].status : pcs[p].status[b] = "Requested" => Owner(hs, p, b)

LEMMA OwnedDef == NoOrphanedRequest <=> Owned(pieces, slots)
  BY DEF NoOrphanedRequest, Owned, Owner

LEMMA OwnedDefPrime == NoOrphanedRequest' <=> Owned(pieces', slots')
  BY DEF NoOrphanedRequest, Owned, Owner

\* A new entry is for the request it is made for.
LEMMA NewEntryRequest ==
  ASSUME NEW entries, NEW r
  PROVE  NewEntry(entries, r).request = r
  BY DEF NewEntry

\* A push requests what it enters: if every Requested block had its owner before,
\* each one has afterwards.
LEMMA PushOwned ==
  ASSUME SlotsType, NEW s \in DOMAIN slots, NEW h \in HandleType,
         NEW pcs, Buffers(pcs), Owned(pcs, [slots EXCEPT ![s] = h]),
         MaybePushBlocks(s, h, pcs)
  PROVE  Owned(pieces', slots')
<1>1. CASE ~CanRequest(h)
  BY <1>1 DEF MaybePushBlocks
<1>2. CASE CanRequest(h)
  <2>1. PICK T : /\ pieces' = MarkRequested(pcs, T)
                 /\ slots' = [slots EXCEPT ![s] =
                      [h EXCEPT !.in_flight = @ \cup {NewEntry(@, r) : r \in T}]]
    BY <1>2 DEF MaybePushBlocks
  <2> DEFINE all == h.in_flight \cup {NewEntry(h.in_flight, r) : r \in T}
  <2>2. /\ DOMAIN slots' = DOMAIN slots
        /\ slots'[s].in_flight = all
        /\ \A t \in DOMAIN slots \ {s} : slots'[t] = slots[t]
    BY <2>1 DEF HandleType
  <2>3. SUFFICES ASSUME NEW p \in Piece, ~pieces'[p].complete,
                        NEW b \in DOMAIN pieces'[p].status,
                        pieces'[p].status[b] = "Requested"
                 PROVE  Owner(slots', p, b)
    BY DEF Owned
  <2>4. CASE <<p, b>> \in T
    <3>1. NewEntry(h.in_flight, <<p, b>>) \in all
      BY <2>4
    <3>2. NewEntry(h.in_flight, <<p, b>>).request = <<p, b>>
      BY NewEntryRequest
    <3> QED
      BY <2>2, <3>1, <3>2 DEF Owner
  <2>5. CASE <<p, b>> \notin T
    <3>1. pcs[p] \in BufferType(p)
      BY DEF Buffers
    <3>2. /\ ~pcs[p].complete
          /\ b \in DOMAIN pcs[p].status
          /\ pcs[p].status[b] = "Requested"
      <4>1. CASE pieces'[p] = pcs[p]
        BY <4>1, <2>3
      <4>2. CASE pieces'[p] # pcs[p]
        <5> DEFINE buf == LazyInit(p, pcs[p])
                   st == [c \in DOMAIN buf.status |->
                            IF <<p, c>> \in T THEN "Requested" ELSE buf.status[c]]
        <5>1. pieces'[p] = [buf EXCEPT !.status = st]
          BY <2>1, <4>2 DEF MarkRequested
        <5>2. buf \in BufferType(p)
          BY <3>1, BufferTyped
        <5>3. pieces'[p].status = st /\ pieces'[p].complete = buf.complete
          BY <5>1, <5>2 DEF BufferType
        <5>4. b \in DOMAIN buf.status /\ buf.status[b] = "Requested" /\ ~buf.complete
          BY <2>3, <2>5, <5>3
        <5> QED
          BY <3>1, <5>4 DEF LazyInit, BufferType
      <4> QED
        BY <4>1, <4>2
    <3>3. PICK t \in DOMAIN slots :
            \E e \in [slots EXCEPT ![s] = h][t].in_flight : e.request = <<p, b>>
      BY <3>2 DEF Owned, Owner
    <3>4. [slots EXCEPT ![s] = h][t].in_flight \subseteq slots'[t].in_flight
      BY <2>2
    <3> QED
      BY <2>2, <3>3, <3>4 DEF Owner
  <2> QED
    BY <2>4, <2>5
<1> QED
  BY <1>1, <1>2

\* Releasing the requests of the entries `gone' from the pieces frees exactly the
\* blocks that may lose their owner with them.
LEMMA ReleaseOwned ==
  ASSUME Typed, Owned(pieces, slots), NEW gone, NEW hs,
         \A s \in DOMAIN slots : \A e \in slots[s].in_flight :
           \/ e \in gone
           \/ \E t \in DOMAIN hs : e \in hs[t].in_flight
  PROVE  Owned(Release(pieces, gone), hs)
<1> DEFINE new == Release(pieces, gone)
<1>1. SUFFICES ASSUME NEW p \in Piece, ~new[p].complete,
                      NEW b \in DOMAIN new[p].status, new[p].status[b] = "Requested"
               PROVE  Owner(hs, p, b)
  BY DEF Owned
<1>2. pieces[p] \in BufferType(p)
  BY DEF Typed, TypeOK, PiecesType
<1>3. /\ ~pieces[p].complete
      /\ b \in DOMAIN pieces[p].status
      /\ pieces[p].status[b] = "Requested"
      /\ ~\E e \in gone : e.request = <<p, b>>
  BY <1>1, <1>2 DEF Release, BufferType
<1> QED
  BY <1>3 DEF Owned, Owner

\* Handles that keep their in_flight lists, and pieces that keep their marks.
LEMMA SameOwned ==
  ASSUME Owned(pieces, slots), NEW hs, DOMAIN slots \subseteq DOMAIN hs,
         \A s \in DOMAIN slots : hs[s].in_flight = slots[s].in_flight
  PROVE  Owned(pieces, hs)
  BY DEF Owned, Owner

-----------------------------------------------------------------------------
(***************************************************************************)
(* One step of each kind.                                                  *)
(***************************************************************************)
LEMMA ConnectionsOwned ==
  ASSUME Typed, Owned(pieces, slots),
         \/ \E list \in SUBSET Tracked \ {{}} : DedupAndStartPeers(list)
         \/ \E a \in Incoming : AddIncomingPeer(a)
         \/ EventForMissingPeer
         \/ HandleConnect
         \/ HandleConnectFailed
  PROVE  Owned(pieces', slots')
<1>1. CASE HandleConnect
  <2>1. /\ pieces' = pieces
        /\ DOMAIN slots \subseteq DOMAIN slots'
        /\ \A s \in DOMAIN slots : slots'[s] = slots[s]
    BY <1>1 DEF HandleConnect
  <2> QED
    BY <2>1, SameOwned
<1>2. CASE UNCHANGED <<pieces, slots>>
  BY <1>2
<1> QED
  BY <1>1, <1>2
     DEF DedupAndStartPeers, AddIncomingPeer, EventForMissingPeer, HandleConnectFailed

LEMMA RemovePeerOwned ==
  ASSUME Typed, Owned(pieces, slots), NEW s \in Slot, RemovePeer(s)
  PROVE  Owned(pieces', slots')
<1>1. CASE UNCHANGED <<pieces, slots>>
  BY <1>1
<1>2. CASE /\ pieces' = Release(pieces, Handle(s).in_flight)
           /\ slots' = [t \in DOMAIN slots \ {s} |-> slots[t]]
  <2>1. \A t \in DOMAIN slots : \A e \in slots[t].in_flight :
          \/ e \in Handle(s).in_flight
          \/ \E u \in DOMAIN slots' : e \in slots'[u].in_flight
    BY <1>2 DEF Handle
  <2> QED
    BY <1>2, <2>1, ReleaseOwned
<1> QED
  BY <1>1, <1>2 DEF RemovePeer

\* Slot s gets the handle h.
HandleSet(s, h) ==
  /\ DOMAIN slots' = DOMAIN slots
  /\ slots'[s] = h
  /\ \A t \in DOMAIN slots \ {s} : slots'[t] = slots[t]

\* A message other than Data leaves the peer's in_flight list as it was, for a push or
\* for nothing.
LEMMA MessageEffect ==
  ASSUME Typed, NEW s \in Slot,
         \/ HandleBitfield(s) \/ HandleHave(s) \/ HandleChoke(s)
         \/ HandleUnchoke(s) \/ HandleInterest(s)
  PROVE  /\ s \in DOMAIN slots /\ Running /\ UNCHANGED <<tasks, disk_tx>>
         /\ peer_rx # <<>> /\ peer_rx' = Tail(peer_rx) /\ Head(peer_rx).type # "Data"
         /\ \E h \in HandleType :
              /\ h.in_flight = slots[s].in_flight
              /\ \/ MaybePushBlocks(s, h, pieces)
                 \/ HandleSet(s, h) /\ UNCHANGED <<pieces, asked>>
<1>1. PICK type \in {"Bitfield", "Have", "Choke", "Unchoke", "Interested", "NotInterested"} :
        TakeFrom(type, s)
  BY DEF HandleBitfield, HandleHave, HandleChoke, HandleUnchoke, HandleInterest
<1>2. /\ s \in DOMAIN slots /\ Running /\ UNCHANGED <<tasks, disk_tx>>
      /\ peer_rx # <<>> /\ peer_rx' = Tail(peer_rx) /\ Head(peer_rx).type # "Data"
      /\ Head(peer_rx) \in EventType
  <2>1. UNCHANGED <<tasks, disk_tx>>
    BY DEF HandleBitfield, HandleHave, HandleChoke, HandleUnchoke, HandleInterest
  <2> QED
    BY <1>1, <2>1, TakeTyped DEF TakeFrom, Take, Typed
<1>3. Handle(s) \in HandleType /\ Handle(s) = slots[s]
  BY <1>2 DEF Typed, TypeOK, SlotsType, Handle
<1> DEFINE Effect(h) == \/ MaybePushBlocks(s, h, pieces)
                        \/ HandleSet(s, h) /\ UNCHANGED <<pieces, asked>>
<1>4. SUFFICES \E h \in HandleType : h.in_flight = Handle(s).in_flight /\ Effect(h)
  BY <1>2, <1>3
<1>5. CASE UNCHANGED <<slots, pieces, asked>>
  <2>1. Effect(Handle(s))
    BY <1>3, <1>5 DEF HandleSet
  <2> QED
    BY <1>3, <2>1
<1>6. CASE HandleBitfield(s)
  <2> DEFINE h == [Handle(s) EXCEPT !.has_bitfield = TRUE,
                     !.bitfield = Head(peer_rx).bits, !.am_interested = TRUE]
  <2>1. Head(peer_rx).bits \in SUBSET Piece
    BY <1>2, <1>6, EventFields DEF HandleBitfield, TakeFrom, Take
  <2>2. h \in HandleType /\ h.in_flight = Handle(s).in_flight
    BY <1>3, <2>1 DEF HandleType
  <2>3. MaybePushBlocks(s, h, pieces)
    BY <1>6 DEF HandleBitfield
  <2> QED
    BY <2>2, <2>3
<1>7. CASE HandleHave(s)
  <2> DEFINE h == [Handle(s) EXCEPT !.bitfield = @ \cup {Head(peer_rx).piece}, !.am_interested = TRUE]
  <2>1. \/ UNCHANGED <<slots, pieces, asked>>
        \/ MaybePushBlocks(s, h, pieces) /\ Head(peer_rx).piece \in Piece
    BY <1>7 DEF HandleHave, HavePanics
  <2>2. Head(peer_rx).piece \in Piece => h \in HandleType /\ h.in_flight = Handle(s).in_flight
    BY <1>3 DEF HandleType
  <2> QED
    BY <1>5, <2>1, <2>2
<1>8. CASE HandleUnchoke(s)
  <2> DEFINE h == [Handle(s) EXCEPT !.am_choked = FALSE]
  <2>1. h \in HandleType /\ h.in_flight = Handle(s).in_flight
    BY <1>3 DEF HandleType
  <2>2. MaybePushBlocks(s, h, pieces) \/ UNCHANGED <<slots, pieces, asked>>
    BY <1>8 DEF HandleUnchoke
  <2> QED
    BY <1>5, <2>1, <2>2
<1>9. CASE HandleChoke(s) \/ HandleInterest(s)
  <2>1. PICK h \in {[Handle(s) EXCEPT !.am_choked = TRUE], [Handle(s) EXCEPT !.peer_interested = TRUE],
                    [Handle(s) EXCEPT !.peer_interested = FALSE]} :
          HandleSet(s, h) /\ UNCHANGED <<pieces, asked>>
    BY <1>2, <1>3, <1>9 DEF HandleChoke, HandleInterest, HandleSet
  <2>2. h \in HandleType /\ h.in_flight = Handle(s).in_flight
    BY <1>3 DEF HandleType
  <2> QED
    BY <2>1, <2>2
<1> QED
  BY <1>6, <1>7, <1>8, <1>9

LEMMA MessagesOwned ==
  ASSUME Typed, Owned(pieces, slots), NEW s \in Slot,
         \/ HandleBitfield(s) \/ HandleHave(s) \/ HandleChoke(s)
         \/ HandleUnchoke(s) \/ HandleInterest(s)
  PROVE  Owned(pieces', slots')
<1>1. s \in DOMAIN slots /\ SlotsType /\ Buffers(pieces)
  BY MessageEffect DEF Typed, TypeOK, PiecesType, Buffers
<1>2. PICK h \in HandleType :
        /\ h.in_flight = slots[s].in_flight
        /\ \/ MaybePushBlocks(s, h, pieces)
           \/ HandleSet(s, h) /\ UNCHANGED <<pieces, asked>>
  BY MessageEffect
<1>3. CASE MaybePushBlocks(s, h, pieces)
  <2>1. Owned(pieces, [slots EXCEPT ![s] = h])
    BY <1>1, <1>2, SameOwned
  <2> QED
    BY <1>1, <1>3, <2>1, PushOwned
<1>4. CASE HandleSet(s, h) /\ UNCHANGED <<pieces, asked>>
  <2>1. DOMAIN slots' = DOMAIN slots /\ \A t \in DOMAIN slots : slots'[t].in_flight = slots[t].in_flight
    BY <1>2, <1>4 DEF HandleSet
  <2> QED
    BY <1>4, <2>1, SameOwned
<1> QED
  BY <1>2, <1>3, <1>4

\* Neither the pieces nor any handle changes.
SameRequests ==
  /\ UNCHANGED <<pieces, asked>>
  /\ DOMAIN slots' = DOMAIN slots
  /\ \A t \in DOMAIN slots : slots'[t] = slots[t]

\* A Piece message: nothing becomes of it, or it answers for a block that is not wanted
\* or is stored; at most that block's entry goes.
LEMMA BlockEffect ==
  ASSUME Typed, NEW s \in Slot, HandleData(s) \/ HandleMisfit(s)
  PROVE  /\ s \in DOMAIN slots
         /\ \/ SameRequests
            \/ \E entries \in SUBSET slots[s].in_flight, r \in Request :
                 LET h   == [Handle(s) EXCEPT !.in_flight = entries]
                     buf == pieces[r[1]]
                 IN  /\ \A e \in slots[s].in_flight : e \in entries \/ e.request = r
                     /\ \/ /\ IgnoreData(s, h)
                           /\ buf.complete \/ buf.status[r[2]] = "Received"
                        \/ /\ AcceptData(s, h, r)
                           /\ ~buf.complete /\ r[2] \in DOMAIN buf.status
<1>1. s \in DOMAIN slots /\ Handle(s) = slots[s] /\ Handle(s) \in HandleType
  BY TakeTyped DEF HandleData, HandleMisfit, TakeFrom, Typed, TypeOK, SlotsType, Handle
<1>2. CASE HandleData(s)
  <2> DEFINE r   == Head(peer_rx).request
             buf == pieces[r[1]]
  <2>1. r \in Request
    BY <1>2, TakeTyped, EventFields DEF HandleData, TakeFrom, Typed
  <2>2. PICK entries \in WithoutEntry(Handle(s).in_flight, r) :
          LET h == [Handle(s) EXCEPT !.in_flight = entries]
          IN  IF buf.complete THEN IgnoreData(s, h)
              ELSE IF r[2] \notin DOMAIN buf.status
              THEN sched' = "panicked" /\ UNCHANGED <<slots, pieces, asked, disk_rx>>
              ELSE IF buf.status[r[2]] = "Received" THEN IgnoreData(s, h)
              ELSE AcceptData(s, h, r)
    BY <1>2 DEF HandleData
  <2>3. /\ entries \in SUBSET slots[s].in_flight
        /\ \A e \in slots[s].in_flight : e \in entries \/ e.request = r
    BY <1>1 DEF WithoutEntry
  <2> HIDE DEF r
  <2> QED
    BY <1>1, <2>1, <2>2, <2>3 DEF SameRequests
<1>3. CASE HandleMisfit(s)
  <2> DEFINE e == Head(peer_rx)
  <2>1. e.request \in Request \cup NoSuchBlock
    BY <1>3, TakeTyped, EventFields DEF HandleMisfit, TakeFrom, Typed
  <2>2. CASE UNCHANGED <<slots, pieces, asked>>
    BY <1>1, <2>2 DEF SameRequests
  <2>3. CASE IgnoreData(s, Handle(s))
    BY <1>1, <2>3 DEF IgnoreData, SameRequests
  <2>4. CASE ~MisfitPanics(e) /\ Wanted(e.request) /\ AcceptData(s, Handle(s), e.request)
    <3> DEFINE r == e.request
    <3>1. r \in Request /\ ~pieces[r[1]].complete /\ r[2] \in DOMAIN pieces[r[1]].status
      BY <2>1, <2>4, WantedIsBlock DEF Typed, TypeOK, Wanted
    <3>2. [Handle(s) EXCEPT !.in_flight = slots[s].in_flight] = Handle(s)
      BY <1>1 DEF HandleType
    <3> HIDE DEF r, e
    <3> QED
      BY <1>1, <2>4, <3>1, <3>2 DEF r
  <2> QED
    BY <1>3, <2>2, <2>3, <2>4 DEF HandleMisfit
<1> QED
  BY <1>2, <1>3

LEMMA DataOwned ==
  ASSUME Typed, Owned(pieces, slots), NEW s \in Slot, HandleData(s) \/ HandleMisfit(s)
  PROVE  Owned(pieces', slots')
<1>1. s \in DOMAIN slots
  BY BlockEffect
<1>2. SUFFICES ASSUME ~SameRequests PROVE Owned(pieces', slots')
  BY SameOwned DEF SameRequests
<1>3. PICK entries \in SUBSET slots[s].in_flight, r \in Request :
        LET h   == [Handle(s) EXCEPT !.in_flight = entries]
            buf == pieces[r[1]]
        IN  /\ \A e \in slots[s].in_flight : e \in entries \/ e.request = r
            /\ \/ /\ IgnoreData(s, h)
                  /\ buf.complete \/ buf.status[r[2]] = "Received"
               \/ /\ AcceptData(s, h, r)
                  /\ ~buf.complete /\ r[2] \in DOMAIN buf.status
  BY <1>2, BlockEffect
<1> DEFINE buf == pieces[r[1]]
           h   == [Handle(s) EXCEPT !.in_flight = entries]
           hs  == [slots EXCEPT ![s] = h]
<1>4. /\ Handle(s) \in HandleType /\ SlotsType /\ Buffers(pieces)
      /\ r[1] \in Piece /\ r[2] \in Block(r[1]) /\ r = <<r[1], r[2]>> /\ buf \in BufferType(r[1])
  BY <1>1, RequestParts DEF Typed, TypeOK, SlotsType, PiecesType, Buffers, Handle
<1>5. /\ entries \subseteq Handle(s).in_flight
      /\ \A e \in Handle(s).in_flight : e \in entries \/ e.request = r
  BY <1>3 DEF Handle
<1>6. h \in HandleType
  BY <1>4, <1>5 DEF HandleType
\* Only the block that has arrived can lose its owner.
<1>7. \A p \in Piece : \A b : Owner(slots, p, b) => Owner(hs, p, b) \/ <<p, b>> = r
  <2>1. h.in_flight = entries /\ DOMAIN hs = DOMAIN slots /\ hs[s] = h
    BY <1>1, <1>4 DEF HandleType
  <2> HIDE DEF h
  <2> QED
    BY <1>1, <1>5, <2>1 DEF Owner, Handle
<1> HIDE DEF h, buf
<1>8. CASE IgnoreData(s, h) /\ (buf.complete \/ buf.status[r[2]] = "Received")
  <2>1. pieces' = pieces /\ slots' = hs
    BY <1>8 DEF IgnoreData
  <2>2. \A p \in Piece : \A b : <<p, b>> = r => p = r[1] /\ b = r[2]
    BY <1>4
  <2> HIDE DEF hs
  <2> QED
    BY <1>4, <1>7, <1>8, <2>1, <2>2 DEF Owned, buf
<1>9. CASE /\ AcceptData(s, h, r) /\ ~buf.complete
           /\ r[2] \in DOMAIN buf.status
  <2> DEFINE new == StoreBlock(buf, r[2])
  <2>1. PICK last \in {new, HandOver(new)} :
          MaybePushBlocks(s, h, [pieces EXCEPT ![r[1]] = last])
    BY <1>9 DEF AcceptData, buf
  <2>2. new \in BufferType(r[1]) /\ last \in BufferType(r[1])
    BY <1>4, <1>9, BufferTyped
  <2>3. last.complete \/ last.status = [buf.status EXCEPT ![r[2]] = "Received"]
    BY <1>4, <2>2 DEF StoreBlock, HandOver, BufferType
  <2> DEFINE pcs == [pieces EXCEPT ![r[1]] = last]
  <2>4. Buffers(pcs)
    BY <1>4, <2>2 DEF Buffers
  <2>5. Owned(pcs, hs)
    <3>1. SUFFICES ASSUME NEW p \in Piece, ~pcs[p].complete,
                          NEW b \in DOMAIN pcs[p].status, pcs[p].status[b] = "Requested"
                   PROVE  Owner(hs, p, b)
      BY DEF Owned
    <3>2. DOMAIN pieces = Piece
      BY DEF Typed, TypeOK, PiecesType
    <3>3. CASE p # r[1]
      <4>1. pcs[p] = pieces[p] /\ <<p, b>> # r
        BY <3>2, <3>3, <1>4
      <4>2. Owner(slots, p, b)
        BY <3>1, <4>1 DEF Owned
      <4> QED
        BY <4>1, <4>2, <1>7
    <3>4. CASE p = r[1]
      <4>1. pcs[p] = last
        BY <3>2, <3>4
      <4>2. b # r[2] /\ b \in DOMAIN buf.status /\ buf.status[b] = "Requested"
        BY <2>3, <3>1, <4>1, <1>9
      <4>3. Owner(slots, p, b)
        BY <1>9, <3>4, <4>2 DEF Owned, buf
      <4>4. <<p, b>> # r
        <5>1. <<p, b>>[2] = b
          OBVIOUS
        <5> QED
          BY <4>2, <5>1
      <4> QED
        BY <1>7, <4>3, <4>4
    <3> QED
      BY <3>3, <3>4
  <2> HIDE DEF pcs, new
  <2> QED
    BY <1>1, <1>4, <1>6, <2>1, <2>4, <2>5, PushOwned DEF pcs
<1> QED
  BY <1>3, <1>8, <1>9 DEF h, buf

LEMMA ScanOwned ==
  ASSUME Typed, Owned(pieces, slots), ScanTimeouts
  PROVE  Owned(pieces', slots')
<1> DEFINE old == {e \in AllInFlight : e.expired}
<1>1. CASE UNCHANGED <<pieces, slots>>
  BY <1>1
<1>2. CASE /\ pieces' = Release(pieces, old)
           /\ slots' = [s \in DOMAIN slots |->
                [slots[s] EXCEPT !.in_flight = {e \in @ : ~e.expired}]]
  <2>1. \A s \in DOMAIN slots :
          slots'[s].in_flight = {e \in slots[s].in_flight : ~e.expired}
    BY <1>2 DEF Typed, TypeOK, SlotsType, HandleType
  <2>2. \A s \in DOMAIN slots : \A e \in slots[s].in_flight :
          e \in old \/ \E t \in DOMAIN slots' : e \in slots'[t].in_flight
    BY <1>2, <2>1 DEF AllInFlight
  <2> QED
    BY <1>2, <2>2, ReleaseOwned
<1> QED
  BY <1>1, <1>2 DEF ScanTimeouts

LEMMA VerdictsOwned ==
  ASSUME Typed, Owned(pieces, slots),
         ParseCompletedPieces \/ OnCompletePiece \/ HandleFailure
  PROVE  Owned(pieces', slots')
<1>1. slots' = slots
  BY DEF ParseCompletedPieces, OnCompletePiece, HandleFailure
<1>2. SUFFICES ASSUME NEW p \in Piece
               PROVE  \/ pieces'[p].complete
                      \/ DOMAIN pieces'[p].status = {}
                      \/ pieces'[p] = pieces[p]
  BY <1>1 DEF Owned
<1>3. pieces[p] \in BufferType(p) /\ p \in DOMAIN pieces
  BY DEF Typed, TypeOK, PiecesType
<1>4. CASE ParseCompletedPieces
  BY <1>3, <1>4 DEF ParseCompletedPieces, BufferType
<1>5. CASE OnCompletePiece
  BY <1>3, <1>5 DEF OnCompletePiece, CompleteAndCleanup, BufferType, NoBlocks
<1>6. CASE HandleFailure
  BY <1>3, <1>6 DEF HandleFailure, Reset, EmptyBuffer, NoBlocks
<1> QED
  BY <1>4, <1>5, <1>6

LEMMA EnvironmentOwned ==
  ASSUME Typed, Owned(pieces, slots), PeersNext \/ TimePasses \/ DiskNext
  PROVE  Owned(pieces', slots')
<1>1. CASE TimePasses
  <2>1. \A s \in DOMAIN slots :
          slots'[s].in_flight = {[e EXCEPT !.expired = TRUE] : e \in slots[s].in_flight}
    BY <1>1 DEF TimePasses, Typed, TypeOK, SlotsType, HandleType
  <2>2. \A s \in DOMAIN slots : \A e \in slots[s].in_flight :
          \E f \in slots'[s].in_flight : f.request = e.request
    <3>1. SUFFICES ASSUME NEW s \in DOMAIN slots, NEW e \in slots[s].in_flight
                   PROVE  \E f \in slots'[s].in_flight : f.request = e.request
      OBVIOUS
    <3>2. e \in EntryType
      BY DEF Typed, TypeOK, SlotsType, HandleType
    <3>3. [e EXCEPT !.expired = TRUE].request = e.request
      BY <3>2 DEF EntryType
    <3> QED
      BY <2>1, <3>3
  <2>3. pieces' = pieces /\ DOMAIN slots' = DOMAIN slots
    BY <1>1 DEF TimePasses
  <2>4. \A p, b : Owner(slots, p, b) => Owner(slots', p, b)
    BY <2>2, <2>3 DEF Owner
  <2> QED
    BY <2>3, <2>4 DEF Owned
<1>2. CASE UNCHANGED <<pieces, slots>>
  BY <1>2
<1> QED
  BY <1>1, <1>2
     DEF PeersNext, DiskNext, ConnectDone, HandshakeOk, HandshakeFails, ReadMessage,
         Discards, ReaderEnds, WriterEnds, TaskEnds, LateEvent, ReadSavefile, TryHashAndWrite

LEMMA NextOwned == Typed /\ Owned(pieces, slots) /\ [Next]_vars => Owned(pieces', slots')
<1> SUFFICES ASSUME Typed, Owned(pieces, slots), [Next]_vars PROVE Owned(pieces', slots')
  OBVIOUS
<1>1. CASE SchedulerNext
  BY <1>1, ConnectionsOwned, RemovePeerOwned, MessagesOwned, DataOwned, ScanOwned, VerdictsOwned
     DEF SchedulerNext, HandlePeerEvent, HandleResponse
<1>2. CASE PeersNext \/ TimePasses \/ DiskNext
  BY <1>2, EnvironmentOwned
<1>3. CASE UNCHANGED vars
  BY <1>3 DEF vars
<1> QED
  BY <1>1, <1>2, <1>3 DEF Next

LEMMA InitOwned == Init => NoOrphanedRequest
  BY DEF Init, NoOrphanedRequest, EmptyBuffer, NoBlocks

\* Timeouts, departures, late and repeated answers and failed verifications never
\* leave a block of an unfinished piece marked Requested with nobody to answer for it.
THEOREM NoRequestIsOrphaned == Spec => []NoOrphanedRequest
<1>1. Typed /\ NoOrphanedRequest /\ [Next]_vars => NoOrphanedRequest'
  BY OwnedDef, OwnedDefPrime, NextOwned
<1> QED
  BY <1>1, InitTyped, NextTyped, InitOwned, PTL DEF Spec

-----------------------------------------------------------------------------
(***************************************************************************)
(* Every entry has an answer still to come: the peer owes it, or it is in  *)
(* the queue.                                                              *)
(***************************************************************************)
DataOf(s, r) == {e \in EventType : e.type = "Data" /\ e.slot = s /\ e.request = r}

EntriesFor(entries, r) == {e \in entries : e.request = r}

\* The entries of slot s for request r, and the answers to come.
Entries(s, r) == Cardinality(EntriesFor(slots[s].in_flight, r))
ToCome(s, r) == asked[s][r] + CountIn(peer_rx, DataOf(s, r))

EntriesOwed ==
  sched = "running" =>
    \A s \in DOMAIN slots : tasks[s] # "none" =>
      \A r \in Request : Entries(s, r) <= ToCome(s, r)

NoChokes == "Choke" \notin Chatter

LEMMA OwedCounted == TypeOK => (InFlightIsOwed <=> (NoChokes => EntriesOwed))
<1> SUFFICES ASSUME TypeOK PROVE InFlightIsOwed <=> (NoChokes => EntriesOwed)
  OBVIOUS
<1>1. \A s, r : Owed(s, r) = ToCome(s, r)
  <2>1. SUFFICES ASSUME NEW s, NEW r PROVE Owed(s, r) = ToCome(s, r)
    OBVIOUS
  <2>2. \A i \in DOMAIN peer_rx : peer_rx[i] \in EventType
    BY DEF TypeOK
  <2>3. {i \in DOMAIN peer_rx : peer_rx[i].type = "Data" /\ peer_rx[i].slot = s /\ peer_rx[i].request = r}
          = Positions(peer_rx, DataOf(s, r))
    BY <2>2 DEF Positions, DataOf
  <2> QED
    BY <2>3 DEF Owed, ToCome, CountIn
<1>2. \A s, r : {e \in slots[s].in_flight : e.request = r} = EntriesFor(slots[s].in_flight, r)
  BY DEF EntriesFor
<1> QED
  BY <1>1, <1>2 DEF InFlightIsOwed, EntriesOwed, Entries, NoChokes

\* The numbers compared are natural numbers.
Countable ==
  \A s \in DOMAIN slots, r \in Request :
    /\ IsFiniteSet(EntriesFor(slots[s].in_flight, r)) /\ Entries(s, r) \in Nat
    /\ asked[s][r] \in Nat /\ CountIn(peer_rx, DataOf(s, r)) \in Nat /\ ToCome(s, r) \in Nat

LEMMA TypedCountable == Typed => Countable
<1>1. SUFFICES ASSUME Typed, NEW s \in DOMAIN slots, NEW r \in Request
               PROVE  /\ IsFiniteSet(EntriesFor(slots[s].in_flight, r)) /\ Entries(s, r) \in Nat
                      /\ asked[s][r] \in Nat /\ CountIn(peer_rx, DataOf(s, r)) \in Nat
                      /\ ToCome(s, r) \in Nat
  BY DEF Countable
<1>2. IsFiniteSet(slots[s].in_flight) /\ EntriesFor(slots[s].in_flight, r) \subseteq slots[s].in_flight
  BY <1>1 DEF Typed, TypeOK, SlotsType, EntriesFor
<1>3. IsFiniteSet(EntriesFor(slots[s].in_flight, r)) /\ Entries(s, r) \in Nat
  BY <1>2, FS_Subset, FS_CardinalityType DEF Entries
<1>4. s \in Slot /\ asked[s] \in [Request -> Nat] /\ peer_rx \in Seq(EventType)
  BY <1>1 DEF Typed, TypeOK, SlotsType
<1>5. asked[s][r] \in Nat /\ CountIn(peer_rx, DataOf(s, r)) \in Nat
  BY <1>1, <1>4, CountNatural
<1> QED
  BY <1>3, <1>5 DEF ToCome

LEMMA TypedCountableNext == Typed' => Countable'
  BY TypedCountable, PTL

\* What becomes of the blocks in the queue when an event is taken, or posted.
LEMMA DataTaken ==
  ASSUME Typed, peer_rx # <<>>, peer_rx' = Tail(peer_rx), NEW s, NEW r
  PROVE  /\ CountIn(peer_rx', DataOf(s, r)) \in Nat
         /\ CountIn(peer_rx, DataOf(s, r)) = CountIn(peer_rx', DataOf(s, r))
              + IF Head(peer_rx).type = "Data" /\ Head(peer_rx).slot = s /\ Head(peer_rx).request = r
                THEN 1 ELSE 0
<1>1. peer_rx \in Seq(EventType) /\ Tail(peer_rx) \in Seq(EventType) /\ Head(peer_rx) \in EventType
  BY QueueTail DEF Typed, TypeOK
<1>2. Head(peer_rx) \in DataOf(s, r)
        <=> Head(peer_rx).type = "Data" /\ Head(peer_rx).slot = s /\ Head(peer_rx).request = r
  BY <1>1 DEF DataOf
<1>3. CountIn(Tail(peer_rx), DataOf(s, r)) \in Nat
  BY <1>1, CountNatural
<1> QED
  BY <1>1, <1>2, <1>3, CountTail

LEMMA DataPosted ==
  ASSUME Typed, NEW e \in EventType, Post(e), NEW s, NEW r
  PROVE  /\ CountIn(peer_rx, DataOf(s, r)) \in Nat
         /\ CountIn(peer_rx', DataOf(s, r)) = CountIn(peer_rx, DataOf(s, r))
              + IF e.type = "Data" /\ e.slot = s /\ e.request = r THEN 1 ELSE 0
<1>1. peer_rx \in Seq(EventType) /\ peer_rx' = Append(peer_rx, e)
  BY DEF Typed, TypeOK, Post
<1>2. e \in DataOf(s, r) <=> e.type = "Data" /\ e.slot = s /\ e.request = r
  BY DEF DataOf
<1> QED
  BY <1>1, <1>2, CountAppend, CountNatural

\* A slot that no step has given new entries, and from which no answer was taken.
Untouched(t) ==
  /\ t \in DOMAIN slots
  /\ tasks[t] # "none"
  /\ \A r \in Request : Entries(t, r)' <= Entries(t, r) /\ ToCome(t, r) <= ToCome(t, r)'

LEMMA UntouchedOwed ==
  ASSUME Typed, Typed', EntriesOwed, sched' = "running" => sched = "running",
         \A t \in DOMAIN slots' : tasks'[t] # "none" =>
           \/ Untouched(t)
           \/ \A r \in Request : Entries(t, r)' <= ToCome(t, r)'
  PROVE  EntriesOwed'
<1>1. SUFFICES ASSUME sched' = "running",
                      NEW t \in DOMAIN slots', tasks'[t] # "none", NEW r \in Request, Untouched(t)
               PROVE  Entries(t, r)' <= ToCome(t, r)'
  BY DEF EntriesOwed
<1>2. Entries(t, r) \in Nat /\ ToCome(t, r) \in Nat
  BY <1>1, TypedCountable DEF Countable, Untouched
<1>3. Entries(t, r)' \in Nat /\ ToCome(t, r)' \in Nat
  BY <1>1, TypedCountableNext DEF Countable
<1>4. Entries(t, r) <= ToCome(t, r)
  BY <1>1 DEF EntriesOwed, Untouched
<1> QED
  BY <1>1, <1>2, <1>3, <1>4 DEF Untouched

-----------------------------------------------------------------------------
\* A step that changes no handle and no answer that a peer owes, and loses no block
\* in the queue, leaves the living tasks' slots untouched.
LEMMA SameUntouched ==
  ASSUME Typed, Typed', NEW t \in DOMAIN slots, t \in DOMAIN slots', tasks[t] # "none",
         slots'[t].in_flight \subseteq slots[t].in_flight,
         asked'[t] = asked[t],
         \A r \in Request : CountIn(peer_rx, DataOf(t, r)) <= CountIn(peer_rx', DataOf(t, r))
  PROVE  Untouched(t)
<1>1. SUFFICES ASSUME NEW r \in Request
               PROVE  Entries(t, r)' <= Entries(t, r) /\ ToCome(t, r) <= ToCome(t, r)'
  BY DEF Untouched
<1>2. EntriesFor(slots'[t].in_flight, r) \subseteq EntriesFor(slots[t].in_flight, r)
  BY DEF EntriesFor
<1>3. IsFiniteSet(EntriesFor(slots[t].in_flight, r))
  BY TypedCountable DEF Countable
<1>4. Entries(t, r)' <= Entries(t, r)
  BY <1>2, <1>3, FS_Subset DEF Entries
<1>5. asked[t][r] \in Nat /\ CountIn(peer_rx, DataOf(t, r)) \in Nat /\ CountIn(peer_rx, DataOf(t, r))' \in Nat
  BY TypedCountable, TypedCountableNext DEF Countable
<1>6. CountIn(peer_rx, DataOf(t, r))' = CountIn(peer_rx', DataOf(t, r))
  BY DEF CountIn, Positions, DataOf
<1>7. ToCome(t, r) <= ToCome(t, r)'
  BY <1>5, <1>6 DEF ToCome
<1> QED
  BY <1>4, <1>7

\* Events that are no blocks come and go.
LEMMA OtherTaken ==
  ASSUME Typed, peer_rx # <<>>, peer_rx' = Tail(peer_rx), Head(peer_rx).type # "Data",
         NEW s, NEW r
  PROVE  CountIn(peer_rx, DataOf(s, r)) <= CountIn(peer_rx', DataOf(s, r))
BY DataTaken

LEMMA AnyPosted ==
  ASSUME Typed, NEW e \in EventType, Post(e), NEW s, NEW r
  PROVE  CountIn(peer_rx, DataOf(s, r)) <= CountIn(peer_rx', DataOf(s, r))
BY DataPosted

LEMMA SameQueue ==
  ASSUME Typed, UNCHANGED peer_rx, NEW s \in DOMAIN slots, NEW r \in Request
  PROVE  CountIn(peer_rx, DataOf(s, r)) <= CountIn(peer_rx', DataOf(s, r))
BY TypedCountable DEF Countable

LEMMA ConnectionsOwed ==
  ASSUME Typed, Typed', EntriesOwed,
         \/ \E list \in SUBSET Tracked \ {{}} : DedupAndStartPeers(list)
         \/ \E a \in Incoming : AddIncomingPeer(a)
         \/ \E a \in Addr : ConnectDone(a)
         \/ EventForMissingPeer
         \/ HandleConnect
         \/ HandleConnectFailed
  PROVE  EntriesOwed'
<1>1. ASSUME \E list \in SUBSET Tracked \ {{}} : DedupAndStartPeers(list)
      PROVE  UNCHANGED <<sched, slots, tasks, asked, peer_rx>>
  BY <1>1 DEF DedupAndStartPeers
<1>2. ASSUME NEW a \in Incoming, AddIncomingPeer(a)
      PROVE  /\ UNCHANGED <<slots, tasks, asked>> /\ Running
             /\ UNCHANGED peer_rx \/ \E e \in EventType : Post(e)
  BY <1>2, SchedulerAssumption, EventTyped DEF AddIncomingPeer
<1>3. ASSUME NEW a \in Addr, ConnectDone(a)
      PROVE  /\ UNCHANGED <<sched, slots, tasks, asked>>
             /\ \E e \in EventType : Post(e)
  BY <1>3, EventTyped DEF ConnectDone
<1>4. ASSUME HandleConnectFailed
      PROVE  /\ UNCHANGED <<sched, slots, tasks, asked>>
             /\ peer_rx # <<>> /\ peer_rx' = Tail(peer_rx) /\ Head(peer_rx).type # "Data"
  BY <1>4 DEF HandleConnectFailed, Take
<1>5. CASE /\ UNCHANGED <<slots, tasks, asked>>
           /\ sched' = "running" => sched = "running"
           /\ \/ UNCHANGED peer_rx
              \/ \E e \in EventType : Post(e)
              \/ peer_rx # <<>> /\ peer_rx' = Tail(peer_rx) /\ Head(peer_rx).type # "Data"
  <2>1. \A t \in DOMAIN slots : \A r \in Request :
          CountIn(peer_rx, DataOf(t, r)) <= CountIn(peer_rx', DataOf(t, r))
    BY <1>5, OtherTaken, AnyPosted, SameQueue
  <2>2. \A t \in DOMAIN slots' : tasks'[t] # "none" => Untouched(t)
    BY <1>5, <2>1, SameUntouched
  <2> QED
    BY <1>5, <2>2, UntouchedOwed
<1>6. CASE EventForMissingPeer
  BY <1>6 DEF EventForMissingPeer, EntriesOwed
<1>7. CASE HandleConnect
  <2>1. /\ UNCHANGED <<sched, asked>>
        /\ peer_rx # <<>> /\ peer_rx' = Tail(peer_rx) /\ Head(peer_rx).type # "Data"
    BY <1>7 DEF HandleConnect, Take
  <2>2. PICK s \in Slot \ DOMAIN slots :
          /\ slots' = [t \in DOMAIN slots \cup {s} |->
                         IF t = s THEN NewPeerHandle(Head(peer_rx).addr) ELSE slots[t]]
          /\ tasks' = [tasks EXCEPT ![s] = "handshake"]
    BY <1>7 DEF HandleConnect
  <2>3. \A r \in Request : Entries(s, r)' <= ToCome(s, r)'
    <3>1. SUFFICES ASSUME NEW r \in Request PROVE Entries(s, r)' <= ToCome(s, r)'
      OBVIOUS
    <3>2. slots'[s].in_flight = {}
      BY <2>2 DEF NewPeerHandle
    <3>3. EntriesFor(slots'[s].in_flight, r) = {}
      BY <3>2 DEF EntriesFor
    <3>4. Entries(s, r)' = 0
      BY <3>3, FS_EmptySet DEF Entries
    <3>5. ToCome(s, r)' \in Nat
      BY <2>2, TypedCountableNext DEF Countable
    <3> QED
      BY <3>4, <3>5
  <2>4. ASSUME NEW t \in DOMAIN slots' \ {s}, tasks'[t] # "none" PROVE Untouched(t)
    <3>1. t \in DOMAIN slots /\ slots'[t] = slots[t] /\ t # s
      BY <2>2, <2>4
    <3>2. tasks[t] = tasks'[t]
      BY <2>2, <3>1 DEF Typed, TypeOK, SlotsType
    <3>3. \A r \in Request : CountIn(peer_rx, DataOf(t, r)) <= CountIn(peer_rx', DataOf(t, r))
      BY <2>1, OtherTaken
    <3> QED
      BY <2>1, <2>4, <3>1, <3>2, <3>3, SameUntouched
  <2> QED
    BY <2>1, <2>3, <2>4, UntouchedOwed
<1> QED
  BY <1>1, <1>2, <1>3, <1>4, <1>5, <1>6, <1>7 DEF Running

LEMMA RemovePeerOwed ==
  ASSUME Typed, Typed', EntriesOwed, NEW s \in Slot, RemovePeer(s)
  PROVE  EntriesOwed'
<1>1. CASE sched' = "panicked"
  BY <1>1 DEF EntriesOwed
<1>2. CASE /\ slots' = [t \in DOMAIN slots \ {s} |-> slots[t]]
           /\ asked' = [asked EXCEPT ![s] = NothingAsked]
           /\ UNCHANGED sched
  <2>1. /\ peer_rx # <<>> /\ peer_rx' = Tail(peer_rx) /\ Head(peer_rx).type # "Data"
        /\ UNCHANGED tasks
    BY DEF RemovePeer, TakeFrom, Take
  <2>2. ASSUME NEW t \in DOMAIN slots', tasks'[t] # "none" PROVE Untouched(t)
    <3>1. /\ t \in DOMAIN slots /\ slots'[t] = slots[t] /\ t # s
          /\ asked'[t] = asked[t] /\ tasks[t] # "none"
      BY <1>2, <2>1, <2>2 DEF Typed, TypeOK, SlotsType
    <3>2. \A r \in Request : CountIn(peer_rx, DataOf(t, r)) <= CountIn(peer_rx', DataOf(t, r))
      BY <2>1, OtherTaken
    <3> QED
      BY <2>2, <3>1, <3>2, SameUntouched
  <2> QED
    BY <1>2, <2>2, UntouchedOwed
<1> QED
  BY <1>1, <1>2 DEF RemovePeer

\* The tasks: a block that is owed moves into the queue.
LEMMA ReadMessageOwed ==
  ASSUME Typed, Typed', EntriesOwed, NEW s \in Slot, NEW m \in PeerMessages(s), ReadMessage(s, m)
  PROVE  EntriesOwed'
<1>1. /\ m \in EventType /\ Post(m) /\ m.slot = s /\ UNCHANGED <<sched, slots, tasks>>
      /\ asked' = IF m.type = "Data" /\ asked[s][m.request] > 0
                  THEN [asked EXCEPT ![s][m.request] = @ - 1] ELSE asked
  BY PeerMessageIsMessage DEF ReadMessage
<1>2. ASSUME NEW t \in DOMAIN slots, tasks[t] # "none",
             m.type = "Data" /\ asked[s][m.request] > 0 => t # s
      PROVE  Untouched(t)
  <2>1. asked'[t] = asked[t]
    BY <1>1, <1>2 DEF Typed, TypeOK, SlotsType
  <2>2. \A r \in Request : CountIn(peer_rx, DataOf(t, r)) <= CountIn(peer_rx', DataOf(t, r))
    BY <1>1, AnyPosted
  <2> QED
    BY <1>1, <1>2, <2>1, <2>2, SameUntouched
<1>3. ASSUME s \in DOMAIN slots, tasks[s] # "none", m.type = "Data", asked[s][m.request] > 0
      PROVE  Untouched(s)
  <2>1. SUFFICES ASSUME NEW r \in Request
                 PROVE  Entries(s, r)' <= Entries(s, r) /\ ToCome(s, r) <= ToCome(s, r)'
    BY <1>3 DEF Untouched
  <2>2. Entries(s, r)' = Entries(s, r) /\ Entries(s, r) \in Nat
    BY <1>1, <1>3, TypedCountable DEF Countable, Entries
  <2>3. asked[s] \in [Request -> Nat] /\ asked' = [asked EXCEPT ![s][m.request] = @ - 1]
    BY <1>1, <1>3 DEF Typed, TypeOK
  <2>4. asked'[s][r] = IF r = m.request THEN asked[s][r] - 1 ELSE asked[s][r]
    <3>1. m.request \in Request
      BY <1>1, <1>3, EventFields
    <3> QED
      BY <2>3, <3>1 DEF Typed, TypeOK
  <2>5. CountIn(peer_rx', DataOf(s, r)) = CountIn(peer_rx, DataOf(s, r)) + IF m.request = r THEN 1 ELSE 0
    BY <1>1, <1>3, DataPosted
  <2>6. CountIn(peer_rx, DataOf(s, r))' = CountIn(peer_rx', DataOf(s, r))
    BY DEF CountIn, Positions, DataOf
  <2>7. asked[s][r] \in Nat /\ CountIn(peer_rx, DataOf(s, r)) \in Nat
    BY <1>3, TypedCountable DEF Countable
  <2>8. ToCome(s, r)' = ToCome(s, r)
    BY <2>4, <2>5, <2>6, <2>7 DEF ToCome
  <2>9. ToCome(s, r) \in Nat
    BY <2>7 DEF ToCome
  <2> QED
    BY <2>2, <2>8, <2>9
<1> QED
  BY <1>1, <1>2, <1>3, UntouchedOwed

LEMMA TasksOwed ==
  ASSUME Typed, Typed', NoChokes, EntriesOwed,
         \/ \E s \in Slot : \/ HandshakeOk(s) \/ HandshakeFails(s) \/ ReaderEnds(s) \/ WriterEnds(s)
                            \/ Discards(s)
                            \/ \E m \in PeerMessages(s) : ReadMessage(s, m)
         \/ \E m \in late : LateEvent(m)
         \/ DiskNext
         \/ UNCHANGED vars
  PROVE  EntriesOwed'
<1>1. ASSUME NEW s \in Slot, HandshakeOk(s)
      PROVE  \A t \in DOMAIN slots : tasks'[t] # "none" => Untouched(t)
  <2>1. UNCHANGED <<slots, asked, peer_rx>> /\ \A t \in Slot : tasks'[t] # "none" => tasks[t] # "none"
    BY <1>1 DEF HandshakeOk, Typed, TypeOK
  <2> QED
    BY <2>1, SameQueue, SameUntouched DEF Typed, TypeOK, SlotsType
<1>2. CASE \E s \in Slot : HandshakeOk(s)
  <2>1. UNCHANGED <<sched, slots>>
    BY <1>2 DEF HandshakeOk
  <2> QED
    BY <1>1, <1>2, <2>1, UntouchedOwed
<1>3. ASSUME NEW s \in Slot, TaskEnds(s) PROVE EntriesOwed'
  <2>1. /\ UNCHANGED <<sched, slots>> /\ tasks' = [tasks EXCEPT ![s] = "none"]
        /\ asked' = [asked EXCEPT ![s] = NothingAsked]
        /\ \E e \in EventType : Post(e)
    BY <1>3, EventTyped DEF TaskEnds
  <2>2. ASSUME NEW t \in DOMAIN slots, tasks'[t] # "none" PROVE Untouched(t)
    <3>1. t # s /\ asked'[t] = asked[t] /\ tasks[t] # "none"
      BY <2>1, <2>2 DEF Typed, TypeOK, SlotsType
    <3>2. \A r \in Request : CountIn(peer_rx, DataOf(t, r)) <= CountIn(peer_rx', DataOf(t, r))
      BY <2>1, AnyPosted
    <3> QED
      BY <2>1, <3>1, <3>2, SameUntouched
  <2> QED
    BY <2>1, <2>2, UntouchedOwed
<1>4. CASE \E s \in Slot : HandshakeFails(s) \/ ReaderEnds(s) \/ WriterEnds(s)
  BY <1>3, <1>4 DEF HandshakeFails, ReaderEnds, WriterEnds
<1>5. CASE (\E m \in late : LateEvent(m)) \/ DiskNext \/ UNCHANGED vars
  <2>1. /\ UNCHANGED <<sched, slots, tasks, asked>>
        /\ UNCHANGED peer_rx \/ \E e \in EventType : Post(e)
    BY <1>5 DEF LateEvent, DiskNext, ReadSavefile, TryHashAndWrite, vars, Typed, TypeOK
  <2>2. \A t \in DOMAIN slots : \A r \in Request :
          CountIn(peer_rx, DataOf(t, r)) <= CountIn(peer_rx', DataOf(t, r))
    BY <2>1, AnyPosted, SameQueue
  <2> QED
    BY <2>1, <2>2, SameUntouched, UntouchedOwed
<1>6. ~\E s \in Slot : Discards(s)
  BY DEF Discards, NoChokes
<1> QED
  BY <1>2, <1>4, <1>5, <1>6, ReadMessageOwed

\* The watchdog drops entries, the passing of time ages them.
LEMMA TimeoutsOwed ==
  ASSUME Typed, Typed', EntriesOwed,
         ScanTimeouts \/ ParseCompletedPieces \/ OnCompletePiece \/ HandleFailure \/ TimePasses
  PROVE  EntriesOwed'
<1>1. UNCHANGED <<peer_rx, tasks, asked>> /\ (sched' = "running" => sched = "running")
  BY DEF ScanTimeouts, ParseCompletedPieces, OnCompletePiece, HandleFailure, TimePasses, Running
<1>2. CASE ~TimePasses
  <2>1. /\ DOMAIN slots' = DOMAIN slots
        /\ \A t \in DOMAIN slots : slots'[t].in_flight \subseteq slots[t].in_flight
    <3>1. CASE UNCHANGED slots
      BY <3>1
    <3>2. CASE slots' = [s \in DOMAIN slots |->
                 [slots[s] EXCEPT !.in_flight = {e \in @ : ~e.expired}]]
      BY <3>2 DEF Typed, TypeOK, SlotsType, HandleType
    <3> QED
      BY <1>2, <3>1, <3>2 DEF ScanTimeouts, ParseCompletedPieces, OnCompletePiece, HandleFailure
  <2> QED
    BY <1>1, <2>1, SameQueue, SameUntouched, UntouchedOwed
<1>3. CASE TimePasses
  <2>1. /\ DOMAIN slots' = DOMAIN slots
        /\ \A t \in DOMAIN slots :
             slots'[t].in_flight = {[e EXCEPT !.expired = TRUE] : e \in slots[t].in_flight}
    BY <1>3 DEF TimePasses, Typed, TypeOK, SlotsType, HandleType
  <2>2. ASSUME NEW t \in DOMAIN slots, tasks[t] # "none", NEW r \in Request
        PROVE  Entries(t, r)' <= Entries(t, r) /\ ToCome(t, r) <= ToCome(t, r)'
    <3> DEFINE S == EntriesFor(slots[t].in_flight, r)
               f == [e \in S |-> [e EXCEPT !.expired = TRUE]]
               old == {f[e] : e \in S}
    <3>1. slots[t].in_flight \subseteq EntryType
      BY DEF Typed, TypeOK, SlotsType, HandleType
    <3>2. EntriesFor(slots'[t].in_flight, r) = old
      <4>1. \A e \in slots[t].in_flight : [e EXCEPT !.expired = TRUE].request = e.request
        BY <3>1 DEF EntryType
      <4>2. ASSUME NEW x \in EntriesFor(slots'[t].in_flight, r) PROVE x \in old
        <5>1. PICK e \in slots[t].in_flight : x = [e EXCEPT !.expired = TRUE]
          BY <2>1, <4>2 DEF EntriesFor
        <5>2. e \in S
          BY <4>1, <4>2, <5>1 DEF EntriesFor
        <5> QED
          BY <5>1, <5>2
      <4>3. ASSUME NEW e \in S PROVE f[e] \in EntriesFor(slots'[t].in_flight, r)
        BY <2>1, <4>1, <4>3 DEF EntriesFor
      <4> QED
        BY <4>2, <4>3
    <3>3. IsFiniteSet(S) /\ f = [e \in S |-> f[e]]
      BY TypedCountable DEF Countable
    <3> HIDE DEF f, S
    <3>4. Cardinality(old) <= Cardinality(S)
      BY <3>3, FunctionImage
    <3>5. Entries(t, r)' <= Entries(t, r)
      BY <3>2, <3>4 DEF Entries, S
    <3>6. ToCome(t, r)' = ToCome(t, r) /\ ToCome(t, r) \in Nat
      <4>1. ToCome(t, r) \in Nat
        BY TypedCountable DEF Countable
      <4> QED
        BY <1>1, <4>1 DEF ToCome, CountIn, Positions, DataOf
    <3> QED
      BY <3>5, <3>6
  <2>3. \A t \in DOMAIN slots' : tasks'[t] # "none" => Untouched(t)
    BY <1>1, <2>1, <2>2 DEF Untouched
  <2> QED
    BY <1>1, <2>3, UntouchedOwed
<1> QED
  BY <1>2, <1>3

\* A push asks the peer for every block that it enters.
LEMMA PushOwed ==
  ASSUME Typed, NEW s \in DOMAIN slots, NEW h, GoodHandle(h), NEW pcs,
         MaybePushBlocks(s, h, pcs),
         NEW n, NEW r \in Request, n \in Nat,
         Cardinality(EntriesFor(h.in_flight, r)) <= asked[s][r] + n
  PROVE  Cardinality(EntriesFor(slots'[s].in_flight, r)) <= asked'[s][r] + n
<1>1. IsFiniteSet(EntriesFor(h.in_flight, r)) /\ Cardinality(EntriesFor(h.in_flight, r)) \in Nat
  <2>1. EntriesFor(h.in_flight, r) \subseteq h.in_flight
    BY DEF EntriesFor
  <2> QED
    BY <2>1, FS_Subset, FS_CardinalityType DEF GoodHandle
<1>2. s \in Slot /\ asked \in [Slot -> [Request -> Nat]] /\ asked[s][r] \in Nat
  BY DEF Typed, TypeOK, SlotsType
<1>3. CASE ~CanRequest(h)
  BY <1>3 DEF MaybePushBlocks
<1>4. CASE CanRequest(h)
  <2>1. PICK T : /\ slots' = [slots EXCEPT ![s] =
                      [h EXCEPT !.in_flight = @ \cup {NewEntry(@, q) : q \in T}]]
                 /\ asked' = [asked EXCEPT ![s] =
                      [q \in Request |-> IF q \in T THEN @[q] + 1 ELSE @[q]]]
    BY <1>4 DEF MaybePushBlocks
  <2> DEFINE new == NewEntry(h.in_flight, r)
  <2>2. EntriesFor(slots'[s].in_flight, r)
          = IF r \in T THEN EntriesFor(h.in_flight, r) \cup {new} ELSE EntriesFor(h.in_flight, r)
    <3>1. slots'[s].in_flight = h.in_flight \cup {NewEntry(h.in_flight, q) : q \in T}
      BY <2>1 DEF GoodHandle, HandleType
    <3>2. \A q \in T : NewEntry(h.in_flight, q).request = q
      BY NewEntryRequest
    <3> QED
      BY <3>1, <3>2 DEF EntriesFor
  <2>3. asked'[s][r] = IF r \in T THEN asked[s][r] + 1 ELSE asked[s][r]
    BY <1>2, <2>1
  <2>4. Cardinality(EntriesFor(h.in_flight, r) \cup {new}) <= Cardinality(EntriesFor(h.in_flight, r)) + 1
    <3> HIDE DEF new
    <3>1. Cardinality(EntriesFor(h.in_flight, r) \cup {new})
            \in {Cardinality(EntriesFor(h.in_flight, r)), Cardinality(EntriesFor(h.in_flight, r)) + 1}
      BY <1>1, FS_AddElement
    <3> QED
      BY <1>1, <3>1
  <2>5. Cardinality(EntriesFor(h.in_flight, r) \cup {new}) \in Nat
    BY <1>1, FS_AddElement, FS_CardinalityType
  <2> HIDE DEF new
  <2> QED
    BY <1>1, <1>2, <2>2, <2>3, <2>4, <2>5
<1> QED
  BY <1>3, <1>4

\* What a handler does that ends with a push, or leaves a handle with no new entry:
\* every entry of the handle has its answer, and no other slot is touched.
LEMMA HandlerOwed ==
  ASSUME Typed, Typed', EntriesOwed, NEW s \in DOMAIN slots, NEW h, GoodHandle(h),
         \/ \E pcs : MaybePushBlocks(s, h, pcs)
         \/ HandleSet(s, h) /\ UNCHANGED asked,
         UNCHANGED tasks, sched' = "running" => sched = "running",
         peer_rx # <<>>, peer_rx' = Tail(peer_rx),
         Head(peer_rx).type = "Data" => Head(peer_rx).slot = s,
         tasks[s] # "none" => \A r \in Request :
           Cardinality(EntriesFor(h.in_flight, r)) <= asked[s][r] + CountIn(peer_rx', DataOf(s, r))
  PROVE  EntriesOwed'
<1>1. /\ DOMAIN slots' = DOMAIN slots
      /\ \A t \in DOMAIN slots \ {s} : slots'[t] = slots[t] /\ asked'[t] = asked[t]
  BY DEF MaybePushBlocks, HandleSet, Typed, TypeOK, SlotsType
<1>2. ASSUME NEW t \in DOMAIN slots \ {s}, tasks[t] # "none" PROVE Untouched(t)
  <2>1. \A r \in Request : CountIn(peer_rx, DataOf(t, r)) <= CountIn(peer_rx', DataOf(t, r))
    BY DataTaken
  <2> QED
    BY <1>1, <1>2, <2>1, SameUntouched
<1>3. ASSUME tasks[s] # "none", NEW r \in Request PROVE Entries(s, r)' <= ToCome(s, r)'
  <2> DEFINE n == CountIn(peer_rx', DataOf(s, r))
  <2>1. n \in Nat /\ Cardinality(EntriesFor(h.in_flight, r)) <= asked[s][r] + n
    BY <1>3, DataTaken
  <2> HIDE DEF n
  <2>2. Cardinality(EntriesFor(slots'[s].in_flight, r)) <= asked'[s][r] + n
    <3>1. CASE \E pcs : MaybePushBlocks(s, h, pcs)
      BY <2>1, <3>1, PushOwed
    <3>2. CASE HandleSet(s, h) /\ UNCHANGED asked
      BY <2>1, <3>2 DEF HandleSet
    <3> QED
      BY <3>1, <3>2
  <2>3. Entries(s, r)' = Cardinality(EntriesFor(slots'[s].in_flight, r)) /\ ToCome(s, r)' = asked'[s][r] + n
    BY DEF Entries, ToCome, EntriesFor, CountIn, Positions, DataOf, n
  <2> QED
    BY <2>2, <2>3
<1> QED
  BY <1>1, <1>2, <1>3, UntouchedOwed

LEMMA MessagesOwed ==
  ASSUME Typed, Typed', EntriesOwed, NEW s \in Slot,
         \/ HandleBitfield(s) \/ HandleHave(s) \/ HandleChoke(s)
         \/ HandleUnchoke(s) \/ HandleInterest(s)
  PROVE  EntriesOwed'
<1>1. /\ s \in DOMAIN slots /\ Running /\ UNCHANGED tasks
      /\ peer_rx # <<>> /\ peer_rx' = Tail(peer_rx) /\ Head(peer_rx).type # "Data"
  BY MessageEffect
<1>2. PICK h \in HandleType :
        /\ h.in_flight = slots[s].in_flight
        /\ \/ MaybePushBlocks(s, h, pieces)
           \/ HandleSet(s, h) /\ UNCHANGED asked
  BY MessageEffect
<1>3. GoodHandle(h)
  BY <1>1, <1>2 DEF Typed, TypeOK, SlotsType, InFlightBound, GoodHandle
<1>4. ASSUME tasks[s] # "none", NEW r \in Request
      PROVE  Cardinality(EntriesFor(h.in_flight, r)) <= asked[s][r] + CountIn(peer_rx', DataOf(s, r))
  <2>1. Entries(s, r) <= ToCome(s, r)
    BY <1>1, <1>4 DEF EntriesOwed, Running
  <2>2. CountIn(peer_rx, DataOf(s, r)) = CountIn(peer_rx', DataOf(s, r))
    BY <1>1, DataTaken
  <2> QED
    BY <1>2, <2>1, <2>2 DEF Entries, ToCome
<1>5. sched' = "running" => sched = "running"
  BY <1>1 DEF Running
<1> QED
  BY <1>1, <1>2, <1>3, <1>4, <1>5, HandlerOwed

\* A block that arrives removes an entry with it, if there is one.
LEMMA DataOwed ==
  ASSUME Typed, Typed', EntriesOwed, NEW s \in Slot, HandleData(s)
  PROVE  EntriesOwed'
<1> DEFINE r == Head(peer_rx).request
<1>1. /\ s \in DOMAIN slots /\ Running /\ UNCHANGED tasks /\ r \in Request
      /\ peer_rx # <<>> /\ peer_rx' = Tail(peer_rx)
      /\ Head(peer_rx).type = "Data" /\ Head(peer_rx).slot = s
  BY TakeTyped, EventFields DEF HandleData, TakeFrom, Take, Typed
<1>2. PICK entries \in WithoutEntry(Handle(s).in_flight, r) :
        LET h == [Handle(s) EXCEPT !.in_flight = entries] IN
        \/ IgnoreData(s, h)
        \/ sched' = "panicked"
        \/ AcceptData(s, h, r)
  BY DEF HandleData
<1> DEFINE h == [Handle(s) EXCEPT !.in_flight = entries]
<1>3. GoodHandle(Handle(s)) /\ Handle(s) = slots[s] /\ entries \in SUBSET Handle(s).in_flight
  BY <1>1 DEF Typed, TypeOK, SlotsType, InFlightBound, GoodHandle, Handle, WithoutEntry
<1>4. GoodHandle(h) /\ h.in_flight = entries
  <2>1. IsFiniteSet(entries) /\ Cardinality(entries) <= MAX_IN_FLIGHT
    BY <1>3, FS_Subset, FS_CardinalityType, SchedulerAssumption DEF GoodHandle
  <2> QED
    BY <1>3, <2>1 DEF GoodHandle, HandleType
<1>5. ASSUME tasks[s] # "none", NEW q \in Request
      PROVE  Cardinality(EntriesFor(h.in_flight, q)) <= asked[s][q] + CountIn(peer_rx', DataOf(s, q))
  <2>1. Entries(s, q) <= ToCome(s, q)
    BY <1>1, <1>5 DEF EntriesOwed, Running
  <2>2. /\ IsFiniteSet(EntriesFor(slots[s].in_flight, q)) /\ Entries(s, q) \in Nat /\ asked[s][q] \in Nat
        /\ CountIn(peer_rx', DataOf(s, q)) \in Nat
        /\ CountIn(peer_rx, DataOf(s, q)) = CountIn(peer_rx', DataOf(s, q)) + IF q = r THEN 1 ELSE 0
    BY <1>1, TypedCountable, DataTaken DEF Countable
  <2> HIDE DEF h, r
  <2>3. CASE q # r
    <3>1. EntriesFor(entries, q) \subseteq EntriesFor(slots[s].in_flight, q)
      BY <1>3 DEF EntriesFor
    <3>2. /\ Cardinality(EntriesFor(entries, q)) <= Entries(s, q)
          /\ Cardinality(EntriesFor(entries, q)) \in Nat
      BY <2>2, <3>1, FS_Subset, FS_CardinalityType DEF Entries
    <3> QED
      BY <1>4, <2>1, <2>2, <2>3, <3>2 DEF ToCome
  <2>4. CASE q = r /\ EntriesFor(slots[s].in_flight, r) = {}
    <3>1. EntriesFor(entries, q) = {}
      BY <1>3, <2>4 DEF EntriesFor
    <3>2. Cardinality(EntriesFor(entries, q)) = 0
      BY <3>1, FS_EmptySet
    <3> QED
      BY <1>4, <2>2, <3>2
  <2>5. CASE q = r /\ EntriesFor(slots[s].in_flight, r) # {}
    <3>1. PICK e \in EntriesFor(slots[s].in_flight, r) : entries = slots[s].in_flight \ {e}
      BY <1>2, <1>3, <2>5 DEF WithoutEntry, EntriesFor
    <3>2. EntriesFor(entries, q) = EntriesFor(slots[s].in_flight, q) \ {e}
      BY <2>5, <3>1 DEF EntriesFor
    <3>3. Cardinality(EntriesFor(entries, q)) = Entries(s, q) - 1
      <4> DEFINE S == EntriesFor(slots[s].in_flight, q)
      <4>1. IsFiniteSet(S) /\ e \in S /\ Entries(s, q) = Cardinality(S)
        BY <2>2, <2>5 DEF Entries
      <4> HIDE DEF S
      <4>2. Cardinality(S \ {e}) = Cardinality(S) - 1
        BY <4>1, FS_RemoveElement
      <4> QED
        BY <3>2, <4>1, <4>2 DEF S
    <3> QED
      BY <1>4, <2>1, <2>2, <2>5, <3>3 DEF ToCome
  <2> QED
    BY <2>3, <2>4, <2>5
<1>6. CASE sched' = "panicked"
  BY <1>6 DEF EntriesOwed
<1>7. CASE IgnoreData(s, h) \/ AcceptData(s, h, r)
  <2>1. \/ \E pcs : MaybePushBlocks(s, h, pcs)
        \/ HandleSet(s, h) /\ UNCHANGED asked
    BY <1>1, <1>7 DEF IgnoreData, AcceptData, HandleSet
  <2>2. sched' = "running" => sched = "running"
    BY <1>1 DEF Running
  <2> HIDE DEF h, r
  <2> QED
    BY <1>1, <1>4, <1>5, <2>1, <2>2, HandlerOwed
<1> QED
  BY <1>2, <1>6, <1>7

\* A Piece message that is no block removes no entry.
LEMMA MisfitOwed ==
  ASSUME Typed, Typed', EntriesOwed, NEW s \in Slot, HandleMisfit(s)
  PROVE  EntriesOwed'
<1>1. /\ s \in DOMAIN slots /\ Running /\ UNCHANGED tasks
      /\ peer_rx # <<>> /\ peer_rx' = Tail(peer_rx) /\ Head(peer_rx).type # "Data"
  BY DEF HandleMisfit, TakeFrom, Take
<1>2. CASE sched' = "panicked"
  BY <1>2 DEF EntriesOwed
<1>3. CASE IgnoreData(s, Handle(s)) \/ \E r : AcceptData(s, Handle(s), r)
  <2>1. GoodHandle(Handle(s)) /\ Handle(s) = slots[s]
    BY <1>1 DEF Typed, TypeOK, SlotsType, InFlightBound, GoodHandle, Handle
  <2>2. \/ \E pcs : MaybePushBlocks(s, Handle(s), pcs)
        \/ HandleSet(s, Handle(s)) /\ UNCHANGED asked
    BY <1>1, <1>3 DEF IgnoreData, AcceptData, HandleSet
  <2>3. ASSUME tasks[s] # "none", NEW r \in Request
        PROVE  Cardinality(EntriesFor(Handle(s).in_flight, r)) <= asked[s][r] + CountIn(peer_rx', DataOf(s, r))
    <3>1. Entries(s, r) <= ToCome(s, r)
      BY <1>1, <2>3 DEF EntriesOwed, Running
    <3>2. CountIn(peer_rx, DataOf(s, r)) = CountIn(peer_rx', DataOf(s, r))
      BY <1>1, DataTaken
    <3> QED
      BY <2>1, <3>1, <3>2 DEF Entries, ToCome
  <2>4. sched' = "running" => sched = "running"
    BY <1>1 DEF Running
  <2> QED
    BY <1>1, <2>1, <2>2, <2>3, <2>4, HandlerOwed
<1> QED
  BY <1>2, <1>3 DEF HandleMisfit

LEMMA NextOwed == Typed /\ NoChokes /\ EntriesOwed /\ [Next]_vars => EntriesOwed'
<1> SUFFICES ASSUME Typed, NoChokes, EntriesOwed, [Next]_vars PROVE EntriesOwed'
  OBVIOUS
<1>1. Typed'
  BY NextTyped
<1>2. CASE SchedulerNext
  BY <1>1, <1>2, ConnectionsOwed, RemovePeerOwed, MessagesOwed, DataOwed, MisfitOwed, TimeoutsOwed
     DEF SchedulerNext, HandlePeerEvent, HandleResponse
<1>3. CASE PeersNext
  BY <1>1, <1>3, ConnectionsOwed, TasksOwed DEF PeersNext
<1>4. CASE TimePasses \/ DiskNext \/ UNCHANGED vars
  BY <1>1, <1>4, TimeoutsOwed, TasksOwed
<1> QED
  BY <1>2, <1>3, <1>4 DEF Next

LEMMA InitOwed == Init => EntriesOwed
  BY DEF Init, EntriesOwed

\* Unless peers choke us, no entry of a connected peer's in_flight list is there for good:
\* the peer still owes its answer, or the answer is queued, whatever was answered twice or
\* unasked, timed out or was released before.
THEOREM EveryEntryIsOwed == Spec => []InFlightIsOwed
<1>1. Typed => (InFlightIsOwed <=> (NoChokes => EntriesOwed))
  BY OwedCounted DEF Typed
<1>2. Typed /\ (NoChokes => EntriesOwed) /\ [Next]_vars => (NoChokes => EntriesOwed)'
  BY NextOwed DEF NoChokes
<1> QED
  BY <1>1, <1>2, InitTyped, NextTyped, InitOwed, PTL DEF Spec

-----------------------------------------------------------------------------
(***************************************************************************)
(* While no piece fails verification, a block is asked of one peer, once.  *)
(***************************************************************************)
\* No two entries of the handles hs are for the same block.
Alone(hs) ==
  \A s, t \in DOMAIN hs : \A e \in hs[s].in_flight, f \in hs[t].in_flight :
    e.request = f.request => s = t /\ e = f

MarkedIn(pcs, r) ==
  ~pcs[r[1]].complete =>
    /\ r[2] \in DOMAIN pcs[r[1]].status
    /\ pcs[r[1]].status[r[2]] \in {"Requested", "Received"}

\* A block with an entry is marked: push_blocks does not take it for a new one.
Marked(pcs, hs) == \A s \in DOMAIN hs : \A e \in hs[s].in_flight : MarkedIn(pcs, e.request)

Single(pcs, hs) == Alone(hs) /\ Marked(pcs, hs)

\* Handles with fewer entries, and pieces that keep what these entries have marked.
LEMMA FewerSingle ==
  ASSUME NEW pcs, NEW hs, Single(pcs, hs), NEW new, NEW fewer, DOMAIN fewer \subseteq DOMAIN hs,
         \A s \in DOMAIN fewer : fewer[s].in_flight \subseteq hs[s].in_flight,
         \A s \in DOMAIN fewer : \A e \in fewer[s].in_flight :
           MarkedIn(pcs, e.request) => MarkedIn(new, e.request)
  PROVE  Single(new, fewer)
BY DEF Single, Alone, Marked

\* After lazy_init the vector has all the blocks of the piece.
LEMMA VectorAllocated ==
  ASSUME NEW p \in Piece, NEW old \in BufferType(p)
  PROVE  LazyInit(p, old) \in BufferType(p) /\ DOMAIN LazyInit(p, old).status = Block(p)
<1> DEFINE buf == LazyInit(p, old)
<1>1. buf \in BufferType(p)
  BY BufferTyped
<1>2. ASSUME DOMAIN old.status = {} PROVE DOMAIN buf.status = Block(p)
  <2>1. buf.status = [c \in Block(p) |-> "NotRequested"]
    BY <1>2 DEF LazyInit, BufferType
  <2> QED
    BY <1>1, <2>1
<1>3. ASSUME DOMAIN old.status # {} PROVE DOMAIN buf.status = Block(p)
  <2>1. buf = old
    BY <1>3 DEF LazyInit
  <2> HIDE DEF buf
  <2> QED
    BY <1>1, <1>3, <2>1 DEF BufferType
<1>4. DOMAIN buf.status = Block(p)
  BY <1>2, <1>3
<1> QED
  BY <1>1, <1>4

\* What a push asks for has no entry anywhere, and is marked.
LEMMA PushSingle ==
  ASSUME SlotsType, NEW s \in DOMAIN slots, NEW h \in HandleType,
         NEW pcs, Buffers(pcs), NEW hs, hs = [slots EXCEPT ![s] = h], Single(pcs, hs),
         MaybePushBlocks(s, h, pcs)
  PROVE  Single(pieces', slots')
<1>0. DOMAIN hs = DOMAIN slots /\ hs[s] = h /\ \A t \in DOMAIN slots \ {s} : hs[t] = slots[t]
  OBVIOUS
<1>1. CASE ~CanRequest(h)
  BY <1>1 DEF MaybePushBlocks
<1>2. CASE CanRequest(h)
  <2>1. PICK T \in FirstOf(Candidates(h, pcs), MAX_IN_FLIGHT - Cardinality(h.in_flight)) :
          /\ pieces' = MarkRequested(pcs, T)
          /\ slots' = [slots EXCEPT ![s] =
               [h EXCEPT !.in_flight = @ \cup {NewEntry(@, r) : r \in T}]]
    BY <1>2 DEF MaybePushBlocks
  <2> DEFINE new(r) == NewEntry(h.in_flight, r)
  <2>2. T \subseteq Request /\ T \subseteq Candidates(h, pcs)
    BY DEF FirstOf, Candidates
  <2>3. /\ DOMAIN slots' = DOMAIN slots
        /\ slots'[s].in_flight = h.in_flight \cup {new(r) : r \in T}
        /\ \A t \in DOMAIN slots \ {s} : slots'[t] = slots[t]
    BY <2>1 DEF HandleType
  <2>4. \A r \in T : new(r).request = r
    BY NewEntryRequest
  <2> HIDE DEF new
  \* A candidate is not marked, so it has no entry.
  <2>5. \A r \in T : ~MarkedIn(pcs, r)
    BY <2>2 DEF Candidates, MarkedIn
  <2>6. \A r \in T : \A t \in DOMAIN hs : \A e \in hs[t].in_flight : e.request # r
    BY <2>5 DEF Single, Marked
  <2>7. ASSUME NEW t \in DOMAIN slots', NEW e \in slots'[t].in_flight
        PROVE  \/ t \in DOMAIN hs /\ e \in hs[t].in_flight
               \/ t = s /\ e.request \in T /\ e = new(e.request)
    BY <1>0, <2>3, <2>4
  <2>8. Alone(slots')
    <3>1. SUFFICES ASSUME NEW t \in DOMAIN slots', NEW u \in DOMAIN slots',
                          NEW e \in slots'[t].in_flight, NEW f \in slots'[u].in_flight,
                          e.request = f.request
                   PROVE  t = u /\ e = f
      BY DEF Alone
    <3>2. CASE t \in DOMAIN hs /\ e \in hs[t].in_flight /\ u \in DOMAIN hs /\ f \in hs[u].in_flight
      BY <3>1, <3>2 DEF Single, Alone
    <3>3. CASE e.request \in T
      <4>1. ~(t \in DOMAIN hs /\ e \in hs[t].in_flight) /\ ~(u \in DOMAIN hs /\ f \in hs[u].in_flight)
        BY <2>6, <3>1, <3>3
      <4> QED
        BY <2>7, <3>1, <4>1
    <3> QED
      BY <2>7, <3>1, <3>2, <3>3
  <2>9. ASSUME NEW r \in Request, MarkedIn(pcs, r) \/ r \in T PROVE MarkedIn(pieces', r)
    <3> DEFINE p == r[1]
               b == r[2]
               buf == LazyInit(p, pcs[p])
               st == [c \in DOMAIN buf.status |->
                        IF <<p, c>> \in T THEN "Requested" ELSE buf.status[c]]
    <3>1. p \in Piece /\ b \in Block(p) /\ r = <<p, b>> /\ pcs[p] \in BufferType(p)
      BY RequestParts DEF Buffers
    <3>2. CASE \A c \in Block(p) : <<p, c>> \notin T
      <4>1. pieces'[p] = pcs[p]
        BY <2>1, <3>1, <3>2 DEF MarkRequested
      <4> QED
        BY <2>9, <3>1, <3>2, <4>1 DEF MarkedIn
    <3>3. CASE ~(\A c \in Block(p) : <<p, c>> \notin T)
      <4>1. pieces'[p] = [buf EXCEPT !.status = st]
        BY <2>1, <3>1, <3>3 DEF MarkRequested
      <4>2. buf \in BufferType(p) /\ DOMAIN buf.status = Block(p)
        BY <3>1, VectorAllocated
      <4>3. pieces'[p].status = st /\ pieces'[p].complete = buf.complete
        BY <4>1, <4>2 DEF BufferType
      <4>4. ~pcs[p].complete
        <5>1. PICK c \in Block(p) : <<p, c>> \in T
          BY <3>3
        <5>2. <<p, c>>[1] = p
          OBVIOUS
        <5> QED
          BY <2>2, <5>1, <5>2 DEF Candidates
      <4>5. CASE r \in T
        <5>1. b \in DOMAIN st /\ st[b] = "Requested"
          BY <3>1, <4>2, <4>5
        <5> QED
          BY <4>3, <5>1 DEF MarkedIn
      <4>6. CASE r \notin T
        <5>1. b \in DOMAIN pcs[p].status /\ pcs[p].status[b] \in {"Requested", "Received"}
          BY <2>9, <4>4, <4>6 DEF MarkedIn
        <5>2. buf = pcs[p]
          BY <5>1 DEF LazyInit
        <5>3. b \in DOMAIN st /\ st[b] \in {"Requested", "Received"}
          BY <3>1, <4>6, <5>1, <5>2
        <5> HIDE DEF st, buf
        <5> QED
          BY <4>3, <5>3 DEF MarkedIn
      <4> QED
        BY <4>5, <4>6
    <3> QED
      BY <3>2, <3>3
  <2>10. ASSUME NEW t \in DOMAIN slots', NEW e \in slots'[t].in_flight
         PROVE  e.request \in Request /\ (MarkedIn(pcs, e.request) \/ e.request \in T)
    <3>1. \A u \in DOMAIN hs : hs[u] \in HandleType
      BY <1>0 DEF SlotsType
    <3>2. CASE t \in DOMAIN hs /\ e \in hs[t].in_flight
      BY <3>1, <3>2 DEF HandleType, EntryType, Single, Marked
    <3> QED
      BY <2>2, <2>7, <3>2
  <2>11. Marked(pieces', slots')
    BY <2>9, <2>10 DEF Marked
  <2> QED
    BY <2>8, <2>11 DEF Single
<1> QED
  BY <1>1, <1>2

\* A release frees the blocks of the entries that go, and no others.
LEMMA ReleaseSingle ==
  ASSUME Typed, Single(pieces, slots), NEW gone, NEW fewer, DOMAIN fewer \subseteq DOMAIN slots,
         \A s \in DOMAIN fewer : fewer[s].in_flight \subseteq slots[s].in_flight,
         \A s \in DOMAIN fewer : \A e \in fewer[s].in_flight : \A f \in gone : f.request # e.request
  PROVE  Single(Release(pieces, gone), fewer)
<1> DEFINE new == Release(pieces, gone)
<1>1. ASSUME NEW s \in DOMAIN fewer, NEW e \in fewer[s].in_flight, MarkedIn(pieces, e.request)
      PROVE  MarkedIn(new, e.request)
  <2> DEFINE p == e.request[1]
             b == e.request[2]
             buf == pieces[p]
             st == [c \in DOMAIN buf.status |->
                      IF buf.status[c] = "Requested" /\ \E f \in gone : f.request = <<p, c>>
                      THEN "NotRequested" ELSE buf.status[c]]
  <2>1. e.request \in Request
    <3>1. s \in DOMAIN slots /\ e \in slots[s].in_flight
      BY <1>1
    <3> QED
      BY <3>1 DEF Typed, TypeOK, SlotsType, HandleType, EntryType
  <2>2. p \in Piece /\ e.request = <<p, b>> /\ buf \in BufferType(p)
    BY <2>1, RequestParts DEF Typed, TypeOK, PiecesType
  <2>3. CASE buf.complete
    <3>1. new[p] = buf
      BY <2>2, <2>3 DEF Release
    <3> QED
      BY <2>3, <3>1 DEF MarkedIn
  <2>4. CASE ~buf.complete
    <3>1. new[p] = [buf EXCEPT !.status = st]
      BY <2>2, <2>4 DEF Release
    <3>2. new[p].status = st /\ new[p].complete = buf.complete
      BY <2>2, <3>1 DEF BufferType
    <3>3. b \in DOMAIN buf.status /\ buf.status[b] \in {"Requested", "Received"}
      BY <1>1, <2>4 DEF MarkedIn
    <3>4. b \in DOMAIN st /\ st[b] = buf.status[b]
      BY <1>1, <2>2, <3>3
    <3> HIDE DEF st, new
    <3> QED
      BY <3>2, <3>3, <3>4 DEF MarkedIn
  <2> QED
    BY <2>3, <2>4
<1> HIDE DEF new
<1>2. Single(new, fewer)
  BY <1>1, FewerSingle
<1> QED
  BY <1>2 DEF new

-----------------------------------------------------------------------------
\* Handles that keep their lists.
LEMMA SameSingle ==
  ASSUME Single(pieces, slots), NEW hs, DOMAIN hs = DOMAIN slots,
         \A s \in DOMAIN slots : hs[s].in_flight = slots[s].in_flight
  PROVE  Single(pieces, hs)
BY DEF Single, Alone, Marked

LEMMA RemovePeerSingle ==
  ASSUME Typed, Single(pieces, slots), NEW s \in Slot, RemovePeer(s)
  PROVE  Single(pieces', slots')
<1>1. CASE UNCHANGED <<pieces, slots>>
  BY <1>1
<1>2. CASE /\ pieces' = Release(pieces, Handle(s).in_flight)
           /\ slots' = [t \in DOMAIN slots \ {s} |-> slots[t]]
  <2>1. s \in DOMAIN slots /\ Handle(s) = slots[s]
    BY DEF RemovePeer, TakeFrom, Handle
  <2>2. \A t \in DOMAIN slots' : \A e \in slots'[t].in_flight : \A f \in slots[s].in_flight :
          f.request # e.request
    BY <1>2, <2>1 DEF Single, Alone
  <2>3. DOMAIN slots' \subseteq DOMAIN slots /\ \A t \in DOMAIN slots' : slots'[t] = slots[t]
    BY <1>2
  <2>4. Single(Release(pieces, slots[s].in_flight), slots')
    BY <2>2, <2>3, ReleaseSingle
  <2> QED
    BY <1>2, <2>1, <2>4
<1> QED
  BY <1>1, <1>2 DEF RemovePeer

LEMMA ScanSingle ==
  ASSUME Typed, Single(pieces, slots), ScanTimeouts
  PROVE  Single(pieces', slots')
<1> DEFINE old == {e \in AllInFlight : e.expired}
<1>1. CASE UNCHANGED <<pieces, slots>>
  BY <1>1
<1>2. CASE /\ pieces' = Release(pieces, old)
           /\ slots' = [s \in DOMAIN slots |->
                [slots[s] EXCEPT !.in_flight = {e \in @ : ~e.expired}]]
  <2>1. /\ DOMAIN slots' = DOMAIN slots
        /\ \A s \in DOMAIN slots : slots'[s].in_flight = {e \in slots[s].in_flight : ~e.expired}
    BY <1>2 DEF Typed, TypeOK, SlotsType, HandleType
  <2>2. ASSUME NEW s \in DOMAIN slots', NEW e \in slots'[s].in_flight, NEW f \in old
        PROVE  f.request # e.request
    <3>1. PICK t \in DOMAIN slots : f \in slots[t].in_flight
      BY DEF AllInFlight
    <3>2. e \in slots[s].in_flight /\ ~e.expired /\ f.expired
      BY <2>1, <2>2
    <3> QED
      BY <2>1, <3>1, <3>2 DEF Single, Alone
  <2> HIDE DEF old
  <2>3. Single(Release(pieces, old), slots')
    BY <2>1, <2>2, ReleaseSingle
  <2> QED
    BY <1>2, <2>3
<1> QED
  BY <1>1, <1>2 DEF ScanTimeouts

LEMMA TimeSingle ==
  ASSUME Typed, Single(pieces, slots), TimePasses
  PROVE  Single(pieces', slots')
<1>1. /\ DOMAIN slots' = DOMAIN slots /\ pieces' = pieces
      /\ \A s \in DOMAIN slots :
           slots'[s].in_flight = {[e EXCEPT !.expired = TRUE] : e \in slots[s].in_flight}
  BY DEF TimePasses, Typed, TypeOK, SlotsType, HandleType
<1>2. ASSUME NEW s \in DOMAIN slots, NEW e \in slots'[s].in_flight
      PROVE  \E f \in slots[s].in_flight : e = [f EXCEPT !.expired = TRUE] /\ e.request = f.request
  <2>1. PICK f \in slots[s].in_flight : e = [f EXCEPT !.expired = TRUE]
    BY <1>1, <1>2
  <2>2. f \in EntryType
    BY DEF Typed, TypeOK, SlotsType, HandleType
  <2>3. e.request = f.request
    BY <2>1, <2>2 DEF EntryType
  <2> QED
    BY <2>1, <2>3
<1>3. Alone(slots')
  <2>1. SUFFICES ASSUME NEW s \in DOMAIN slots, NEW t \in DOMAIN slots,
                        NEW e \in slots'[s].in_flight, NEW f \in slots'[t].in_flight,
                        e.request = f.request
                 PROVE  s = t /\ e = f
    BY <1>1 DEF Alone
  <2>2. PICK x \in slots[s].in_flight : e = [x EXCEPT !.expired = TRUE] /\ e.request = x.request
    BY <1>2
  <2>3. PICK y \in slots[t].in_flight : f = [y EXCEPT !.expired = TRUE] /\ f.request = y.request
    BY <1>2
  <2>4. s = t /\ x = y
    BY <2>1, <2>2, <2>3 DEF Single, Alone
  <2> QED
    BY <2>2, <2>3, <2>4
<1>4. Marked(pieces', slots')
  BY <1>1, <1>2 DEF Single, Marked
<1> QED
  BY <1>3, <1>4 DEF Single

LEMMA MessagesSingle ==
  ASSUME Typed, Single(pieces, slots), NEW s \in Slot,
         \/ HandleBitfield(s) \/ HandleHave(s) \/ HandleChoke(s)
         \/ HandleUnchoke(s) \/ HandleInterest(s)
  PROVE  Single(pieces', slots')
<1>1. s \in DOMAIN slots /\ SlotsType /\ Buffers(pieces)
  BY MessageEffect DEF Typed, TypeOK, PiecesType, Buffers
<1>2. PICK h \in HandleType :
        /\ h.in_flight = slots[s].in_flight
        /\ \/ MaybePushBlocks(s, h, pieces)
           \/ HandleSet(s, h) /\ UNCHANGED <<pieces, asked>>
  BY MessageEffect
<1>3. CASE MaybePushBlocks(s, h, pieces)
  <2> DEFINE hs == [slots EXCEPT ![s] = h]
  <2>1. DOMAIN hs = DOMAIN slots /\ \A t \in DOMAIN slots : hs[t].in_flight = slots[t].in_flight
    BY <1>1, <1>2
  <2>2. hs = [slots EXCEPT ![s] = h]
    OBVIOUS
  <2> HIDE DEF hs
  <2>3. Single(pieces, hs)
    BY <2>1, SameSingle
  <2> QED
    BY <1>1, <1>3, <2>2, <2>3, PushSingle
<1>4. CASE HandleSet(s, h) /\ UNCHANGED <<pieces, asked>>
  <2>1. DOMAIN slots' = DOMAIN slots /\ \A t \in DOMAIN slots : slots'[t].in_flight = slots[t].in_flight
    BY <1>2, <1>4 DEF HandleSet
  <2> QED
    BY <1>4, <2>1, SameSingle
<1> QED
  BY <1>2, <1>3, <1>4

LEMMA DataSingle ==
  ASSUME Typed, Single(pieces, slots), NEW s \in Slot, HandleData(s) \/ HandleMisfit(s)
  PROVE  Single(pieces', slots')
<1>1. s \in DOMAIN slots
  BY BlockEffect
<1>2. SUFFICES ASSUME ~SameRequests PROVE Single(pieces', slots')
  BY SameSingle DEF SameRequests
<1>3. PICK entries \in SUBSET slots[s].in_flight, r \in Request :
        LET h   == [Handle(s) EXCEPT !.in_flight = entries]
            buf == pieces[r[1]]
        IN  \/ IgnoreData(s, h)
            \/ AcceptData(s, h, r) /\ ~buf.complete /\ r[2] \in DOMAIN buf.status
  BY <1>2, BlockEffect
<1> DEFINE buf == pieces[r[1]]
           h   == [Handle(s) EXCEPT !.in_flight = entries]
           hs  == [slots EXCEPT ![s] = h]
<1>4. /\ Handle(s) \in HandleType /\ Handle(s) = slots[s] /\ SlotsType
      /\ Buffers(pieces) /\ DOMAIN pieces = Piece
      /\ r[1] \in Piece /\ r[2] \in Block(r[1]) /\ r = <<r[1], r[2]>> /\ buf \in BufferType(r[1])
  BY <1>1, RequestParts DEF Typed, TypeOK, SlotsType, PiecesType, Buffers, Handle
<1>5. entries \subseteq slots[s].in_flight
  BY <1>3
<1>6. h \in HandleType /\ h.in_flight = entries
  BY <1>4, <1>5 DEF HandleType
<1>7. DOMAIN hs = DOMAIN slots /\ \A t \in DOMAIN hs : hs[t].in_flight \subseteq slots[t].in_flight
  BY <1>1, <1>5, <1>6
<1>8. hs = [slots EXCEPT ![s] = h]
  OBVIOUS
<1> HIDE DEF h, hs, buf
<1>9. CASE IgnoreData(s, h)
  <2>1. pieces' = pieces /\ slots' = hs
    BY <1>8, <1>9 DEF IgnoreData
  <2> QED
    BY <1>7, <2>1, FewerSingle
<1>10. CASE AcceptData(s, h, r) /\ ~buf.complete /\ r[2] \in DOMAIN buf.status
  <2> DEFINE new == StoreBlock(buf, r[2])
  <2>1. PICK last \in {new, HandOver(new)} :
          MaybePushBlocks(s, h, [pieces EXCEPT ![r[1]] = last])
    BY <1>10 DEF AcceptData, buf
  <2>2. new \in BufferType(r[1]) /\ last \in BufferType(r[1])
    BY <1>4, <1>10, BufferTyped
  <2>3. last.complete \/ last.status = [buf.status EXCEPT ![r[2]] = "Received"]
    BY <1>4, <2>2 DEF StoreBlock, HandOver, BufferType
  <2> HIDE DEF new
  <2> DEFINE pcs == [pieces EXCEPT ![r[1]] = last]
  <2>4. Buffers(pcs) /\ pcs[r[1]] = last /\ \A p \in Piece \ {r[1]} : pcs[p] = pieces[p]
    BY <1>4, <2>2 DEF Buffers
  <2> HIDE DEF pcs
  <2>5. ASSUME NEW q \in Request, MarkedIn(pieces, q) PROVE MarkedIn(pcs, q)
    <3>1. CASE q[1] # r[1]
      <4>1. q[1] \in Piece
        BY RequestParts
      <4>2. pcs[q[1]] = pieces[q[1]]
        BY <2>4, <3>1, <4>1
      <4> QED
        BY <2>5, <4>2 DEF MarkedIn
    <3>2. CASE q[1] = r[1] /\ ~last.complete
      <4>1. q[2] \in DOMAIN buf.status /\ buf.status[q[2]] \in {"Requested", "Received"}
        BY <1>10, <2>5, <3>2 DEF MarkedIn, buf
      <4>2. q[2] \in DOMAIN last.status /\ last.status[q[2]] \in {"Requested", "Received"}
        BY <2>3, <3>2, <4>1
      <4> QED
        BY <2>4, <3>2, <4>2 DEF MarkedIn
    <3>3. CASE q[1] = r[1] /\ last.complete
      BY <2>4, <3>3 DEF MarkedIn
    <3> QED
      BY <3>1, <3>2, <3>3
  <2>6. \A t \in DOMAIN hs : \A e \in hs[t].in_flight : e.request \in Request
    <3>1. \A t \in DOMAIN slots : \A e \in slots[t].in_flight : e \in EntryType
      BY <1>4 DEF SlotsType, HandleType
    <3> QED
      BY <1>7, <3>1 DEF EntryType
  <2>7. Single(pcs, hs)
    BY <1>7, <2>5, <2>6, FewerSingle
  <2> QED
    BY <1>1, <1>4, <1>6, <1>8, <2>1, <2>4, <2>7, PushSingle DEF pcs
<1> QED
  BY <1>3, <1>9, <1>10 DEF h, buf

\* Verdicts: a confirmed piece was complete already, and no piece fails.
NoneFailed == \A i \in DOMAIN disk_tx : disk_tx[i].type # "Failed"

LEMMA VerdictsComplete ==
  ASSUME Typed, Pipeline, NoneFailed,
         ParseCompletedPieces \/ OnCompletePiece \/ HandleFailure
  PROVE  \A p \in Piece : pieces'[p] = pieces[p] \/ pieces'[p].complete
<1>1. DOMAIN pieces = Piece /\ disk_tx \in Seq(ResponseType)
  BY DEF ParseCompletedPieces, OnCompletePiece, HandleFailure, Typed, TypeOK, PiecesType, DiskType
<1>2. disk_tx # <<>> /\ 1 \in DOMAIN disk_tx /\ Head(disk_tx) = disk_tx[1] /\ Head(disk_tx) \in ResponseType
  <2>1. disk_tx # <<>>
    BY DEF ParseCompletedPieces, OnCompletePiece, HandleFailure, TakeResponse
  <2> QED
    BY <1>1, <2>1, TailElements, QueueTail
<1>3. ~HandleFailure
  BY <1>2 DEF NoneFailed, HandleFailure, TakeResponse
<1>4. ASSUME NEW p \in Piece PROVE pieces'[p] = pieces[p] \/ pieces'[p].complete
  <2>1. pieces[p] \in BufferType(p)
    BY DEF Typed, TypeOK, PiecesType
  <2>2. CASE ParseCompletedPieces
    BY <2>1, <2>2 DEF ParseCompletedPieces, BufferType
  <2>3. CASE OnCompletePiece
    <3>1. Head(disk_tx).type = "PieceHashedAndWritten" /\ Head(disk_tx).piece \in Piece
      BY <1>2, <2>3 DEF OnCompletePiece, TakeResponse, ResponseType
    <3>2. Submitted(Head(disk_tx).piece)
      BY <1>2, <3>1 DEF Submitted, Verdicts, Verdict
    <3>3. pieces[Head(disk_tx).piece].complete
      BY <3>1, <3>2 DEF Pipeline, VerifyOnce
    <3>4. pieces' = [pieces EXCEPT ![Head(disk_tx).piece] = CompleteAndCleanup(@)]
      BY <2>3 DEF OnCompletePiece
    <3> QED
      BY <1>1, <2>1, <3>1, <3>3, <3>4 DEF CompleteAndCleanup, BufferType
  <2> QED
    BY <1>3, <2>2, <2>3
<1> QED
  BY <1>4

LEMMA VerdictsSingle ==
  ASSUME Typed, Pipeline, NoneFailed, Single(pieces, slots),
         ParseCompletedPieces \/ OnCompletePiece \/ HandleFailure
  PROVE  Single(pieces', slots')
<1>1. slots' = slots
  BY DEF ParseCompletedPieces, OnCompletePiece, HandleFailure
<1>2. \A p \in Piece : pieces'[p] = pieces[p] \/ pieces'[p].complete
  BY VerdictsComplete
<1>3. ASSUME NEW s \in DOMAIN slots, NEW e \in slots[s].in_flight, MarkedIn(pieces, e.request)
      PROVE  MarkedIn(pieces', e.request)
  <2>1. e.request \in Request
    BY DEF Typed, TypeOK, SlotsType, HandleType, EntryType
  <2>2. e.request[1] \in Piece
    BY <2>1, RequestParts
  <2> QED
    BY <1>2, <1>3, <2>2 DEF MarkedIn
<1> QED
  BY <1>1, <1>3, FewerSingle

LEMMA OthersSingle ==
  ASSUME Typed, Single(pieces, slots),
         \/ \E list \in SUBSET Tracked \ {{}} : DedupAndStartPeers(list)
         \/ \E a \in Incoming : AddIncomingPeer(a)
         \/ EventForMissingPeer
         \/ HandleConnect
         \/ HandleConnectFailed
         \/ PeersNext
         \/ DiskNext
         \/ UNCHANGED vars
  PROVE  Single(pieces', slots')
<1>1. CASE HandleConnect
  <2>1. PICK s \in Slot \ DOMAIN slots :
          slots' = [t \in DOMAIN slots \cup {s} |->
                      IF t = s THEN NewPeerHandle(Head(peer_rx).addr) ELSE slots[t]]
    BY <1>1 DEF HandleConnect
  <2>2. pieces' = pieces
    BY <1>1 DEF HandleConnect
  <2>3. ASSUME NEW t \in DOMAIN slots', NEW e \in slots'[t].in_flight
        PROVE  t \in DOMAIN slots /\ e \in slots[t].in_flight
    BY <2>1, <2>3 DEF NewPeerHandle
  <2> QED
    BY <2>2, <2>3 DEF Single, Alone, Marked
<1>2. CASE UNCHANGED <<pieces, slots>>
  BY <1>2
<1> QED
  BY <1>1, <1>2
     DEF DedupAndStartPeers, AddIncomingPeer, EventForMissingPeer, HandleConnectFailed,
         PeersNext, DiskNext, ConnectDone, HandshakeOk, HandshakeFails, ReadMessage,
         Discards, ReaderEnds, WriterEnds, TaskEnds, LateEvent, ReadSavefile, TryHashAndWrite, vars

LEMMA NextSingle ==
  ASSUME Typed, Pipeline, NoneFailed, Single(pieces, slots), [Next]_vars
  PROVE  Single(pieces', slots')
<1>1. CASE SchedulerNext
  BY <1>1, OthersSingle, RemovePeerSingle, MessagesSingle, DataSingle, ScanSingle, VerdictsSingle
     DEF SchedulerNext, HandlePeerEvent, HandleResponse
<1>2. CASE PeersNext \/ TimePasses \/ DiskNext \/ UNCHANGED vars
  BY <1>2, OthersSingle, TimeSingle
<1> QED
  BY <1>1, <1>2 DEF Next

LEMMA NextNoneFailed ==
  ASSUME Typed, "verify" \notin Faults, NoneFailed, [Next]_vars
  PROVE  NoneFailed'
<1>1. disk_tx \in Seq(ResponseType)
  BY DEF Typed, TypeOK, DiskType
<1>2. CASE DiskNext
  <2>1. PICK e : disk_tx' = Append(disk_tx, e) /\ e.type # "Failed"
    BY <1>2 DEF DiskNext, ReadSavefile, TryHashAndWrite
  <2> QED
    BY <1>1, <2>1, AppendElements DEF NoneFailed
<1>3. CASE ParseCompletedPieces \/ OnCompletePiece \/ HandleFailure
  <2>1. disk_tx # <<>> /\ disk_tx' = Tail(disk_tx)
    BY <1>3 DEF ParseCompletedPieces, OnCompletePiece, HandleFailure, TakeResponse
  <2> QED
    BY <1>1, <2>1, TailElements DEF NoneFailed
<1>4. CASE UNCHANGED disk_tx
  BY <1>4 DEF NoneFailed
<1>5. \/ DiskNext \/ ParseCompletedPieces \/ OnCompletePiece \/ HandleFailure
      \/ UNCHANGED disk_tx
  <2>1. ASSUME \E s \in Slot : HandleData(s) \/ HandleMisfit(s) PROVE UNCHANGED disk_tx
    BY <2>1 DEF HandleData, HandleMisfit
  <2> QED
    BY <2>1, StepKinds, QuietSteps DEF Next, SchedulerNext, HandlePeerEvent, HandleResponse, Quiet
<1> QED
  BY <1>2, <1>3, <1>4, <1>5

NoVerifyFault == "verify" \notin Faults

\* The lists of the live slots are disjoint, and push_blocks sees what is in them.
RequestsSingle == NoVerifyFault => NoneFailed /\ Single(pieces, slots)

LEMMA InitSingle == Init => RequestsSingle
  BY DEF Init, RequestsSingle, NoneFailed, Single, Alone, Marked

\* Until a piece fails verification, no block is in the in_flight lists of two peers,
\* or twice in one, whatever times out, leaves or arrives late.
THEOREM EveryBlockAskedOnce == Spec => []AskedOnce
<1>1. Typed /\ Pipeline /\ RequestsSingle /\ [Next]_vars => RequestsSingle'
  BY NextSingle, NextNoneFailed DEF RequestsSingle, NoVerifyFault
<1>2. RequestsSingle => AskedOnce
  BY DEF RequestsSingle, NoVerifyFault, Single, Alone, AskedOnce
<1> QED
  BY <1>1, <1>2, InitSingle, PipelineHolds, PTL DEF Spec

-----------------------------------------------------------------------------
(***************************************************************************)
(* While no piece fails verification, an answer finds its buffer, whoever  *)
(* gives it and however late, and no index is out of range.                *)
(***************************************************************************)
HasBuffer(pcs, r) == ~pcs[r[1]].complete => r[2] \in DOMAIN pcs[r[1]].status

\* A push takes no buffer away, and what it asks for has one.
LEMMA PushBuffers ==
  ASSUME NEW s \in Slot, NEW h, NEW pcs, Buffers(pcs), asked \in [Slot -> [Request -> Nat]],
         MaybePushBlocks(s, h, pcs), NEW r \in Request
  PROVE  /\ HasBuffer(pcs, r) => HasBuffer(pieces', r)
         /\ \A t \in Slot : asked'[t][r] = asked[t][r] \/ HasBuffer(pieces', r)
<1>1. CASE ~CanRequest(h)
  BY <1>1 DEF MaybePushBlocks
<1>2. CASE CanRequest(h)
  <2> DEFINE p == r[1]
             buf == LazyInit(p, pcs[p])
  <2>1. PICK T : /\ pieces' = MarkRequested(pcs, T)
                 /\ asked' = [asked EXCEPT ![s] =
                      [q \in Request |-> IF q \in T THEN @[q] + 1 ELSE @[q]]]
    BY <1>2 DEF MaybePushBlocks
  <2>2. p \in Piece /\ r[2] \in Block(p) /\ r = <<p, r[2]>> /\ pcs[p] \in BufferType(p)
    BY RequestParts DEF Buffers
  <2>3. CASE \A c \in Block(p) : <<p, c>> \notin T
    <3>1. pieces'[p] = pcs[p] /\ r \notin T
      BY <2>1, <2>2, <2>3 DEF MarkRequested
    <3>2. \A t \in Slot : asked'[t][r] = asked[t][r]
      BY <2>1, <3>1
    <3> QED
      BY <3>1, <3>2 DEF HasBuffer
  <2>4. CASE ~(\A c \in Block(p) : <<p, c>> \notin T)
    <3>1. buf \in BufferType(p) /\ DOMAIN buf.status = Block(p)
      BY <2>2, VectorAllocated
    <3>2. pieces'[p] = [buf EXCEPT !.status =
             [b \in DOMAIN @ |-> IF <<p, b>> \in T THEN "Requested" ELSE @[b]]]
      BY <2>1, <2>2, <2>4 DEF MarkRequested
    <3> HIDE DEF buf
    <3>3. DOMAIN pieces'[p].status = Block(p)
      BY <3>1, <3>2 DEF BufferType
    <3> QED
      BY <2>2, <3>3 DEF HasBuffer
  <2> QED
    BY <2>3, <2>4
<1> QED
  BY <1>1, <1>2

\* Nor does a release.
LEMMA ReleaseBuffers ==
  ASSUME Typed, NEW gone, NEW r \in Request, HasBuffer(pieces, r)
  PROVE  HasBuffer(Release(pieces, gone), r)
<1> DEFINE p == r[1]
           new == Release(pieces, gone)
<1>1. p \in Piece /\ pieces[p] \in BufferType(p)
  BY RequestParts DEF Typed, TypeOK, PiecesType
<1>2. new[p].complete = pieces[p].complete /\ DOMAIN new[p].status = DOMAIN pieces[p].status
  BY <1>1 DEF Release, BufferType
<1> HIDE DEF new
<1>3. HasBuffer(new, r)
  BY <1>2 DEF HasBuffer
<1> QED
  BY <1>3 DEF new

\* A block that arrives: the piece keeps its vector, or is complete.
LEMMA DataBuffers ==
  ASSUME Typed, NEW s \in Slot, HandleData(s) \/ HandleMisfit(s), NEW q \in Request
  PROVE  /\ HasBuffer(pieces, q) => HasBuffer(pieces', q)
         /\ \A t \in Slot : asked'[t][q] = asked[t][q] \/ HasBuffer(pieces', q)
<1>1. CASE UNCHANGED <<pieces, asked>>
  BY <1>1
<1>2. ASSUME ~UNCHANGED <<pieces, asked>>
      PROVE  \E r \in Request : \E h :
               AcceptData(s, h, r) /\ ~pieces[r[1]].complete /\ r[2] \in DOMAIN pieces[r[1]].status
  BY <1>2, BlockEffect DEF IgnoreData, SameRequests
<1>3. ASSUME NEW r \in Request, NEW h,
             AcceptData(s, h, r), ~pieces[r[1]].complete, r[2] \in DOMAIN pieces[r[1]].status
      PROVE  /\ HasBuffer(pieces, q) => HasBuffer(pieces', q)
             /\ \A t \in Slot : asked'[t][q] = asked[t][q] \/ HasBuffer(pieces', q)
  <2> DEFINE buf == pieces[r[1]]
             new == StoreBlock(buf, r[2])
  <2>1. /\ r[1] \in Piece /\ r[2] \in Block(r[1]) /\ buf \in BufferType(r[1])
        /\ Buffers(pieces) /\ DOMAIN pieces = Piece /\ q[1] \in Piece
        /\ asked \in [Slot -> [Request -> Nat]]
    BY RequestParts DEF Typed, TypeOK, PiecesType, Buffers
  <2>2. PICK last \in {new, HandOver(new)} :
          MaybePushBlocks(s, h, [pieces EXCEPT ![r[1]] = last])
    BY <1>3 DEF AcceptData
  <2>3. new \in BufferType(r[1]) /\ last \in BufferType(r[1])
    BY <1>3, <2>1, BufferTyped
  <2>4. last.complete \/ DOMAIN last.status = DOMAIN buf.status
    BY <2>1, <2>3 DEF StoreBlock, HandOver, BufferType
  <2> HIDE DEF new
  <2> DEFINE pcs == [pieces EXCEPT ![r[1]] = last]
  <2>5. Buffers(pcs) /\ pcs[r[1]] = last /\ \A p \in Piece \ {r[1]} : pcs[p] = pieces[p]
    BY <2>1, <2>3 DEF Buffers
  <2>6. MaybePushBlocks(s, h, pcs)
    BY <2>2
  <2> HIDE DEF pcs
  <2>7. HasBuffer(pieces, q) => HasBuffer(pcs, q)
    BY <1>3, <2>1, <2>4, <2>5 DEF HasBuffer
  <2> QED
    BY <2>1, <2>5, <2>6, <2>7, PushBuffers
<1> QED
  BY <1>1, <1>2, <1>3

\* No step takes a buffer away, or asks for a block that has none.
LEMMA BuffersStep ==
  ASSUME Typed, Pipeline, NoneFailed, [Next]_vars, NEW r \in Request
  PROVE  /\ HasBuffer(pieces, r) => HasBuffer(pieces', r)
         /\ \A t \in Slot : asked'[t][r] <= asked[t][r] \/ HasBuffer(pieces', r)
<1>1. /\ asked \in [Slot -> [Request -> Nat]] /\ r[1] \in Piece
      /\ Buffers(pieces) /\ \A t \in Slot : asked[t][r] \in Nat
  BY RequestParts DEF Typed, TypeOK, PiecesType, Buffers
<1>2. ASSUME NEW s \in Slot, asked' = [asked EXCEPT ![s] = NothingAsked]
      PROVE  \A t \in Slot : asked'[t][r] <= asked[t][r]
  BY <1>1, <1>2 DEF NothingAsked
<1>3. CASE \E s \in Slot : RemovePeer(s)
  <2>1. PICK s \in Slot : RemovePeer(s)
    BY <1>3
  <2>2. \/ UNCHANGED <<pieces, asked>>
        \/ /\ pieces' = Release(pieces, Handle(s).in_flight)
           /\ asked' = [asked EXCEPT ![s] = NothingAsked]
    BY <2>1 DEF RemovePeer
  <2> QED
    BY <1>1, <1>2, <2>2, ReleaseBuffers
<1>4. CASE \E s \in Slot : \/ HandleBitfield(s) \/ HandleHave(s) \/ HandleChoke(s)
                          \/ HandleUnchoke(s) \/ HandleInterest(s)
  <2>1. PICK s \in Slot : \/ HandleBitfield(s) \/ HandleHave(s) \/ HandleChoke(s)
                          \/ HandleUnchoke(s) \/ HandleInterest(s)
    BY <1>4
  <2>2. UNCHANGED <<pieces, asked>> \/ \E h : MaybePushBlocks(s, h, pieces)
    BY <2>1, MessageEffect
  <2> QED
    BY <1>1, <2>2, PushBuffers
<1>5. CASE \E s \in Slot : HandleData(s) \/ HandleMisfit(s)
  BY <1>1, <1>5, DataBuffers
<1>6. CASE ScanTimeouts
  <2>1. \/ UNCHANGED <<pieces, asked>>
        \/ UNCHANGED asked /\ \E gone : pieces' = Release(pieces, gone)
    BY <1>6 DEF ScanTimeouts
  <2> QED
    BY <1>1, <2>1, ReleaseBuffers
<1>7. CASE ParseCompletedPieces \/ OnCompletePiece \/ HandleFailure
  <2>1. UNCHANGED asked
    BY <1>7 DEF ParseCompletedPieces, OnCompletePiece, HandleFailure
  <2> QED
    BY <1>1, <1>7, <2>1, VerdictsComplete DEF HasBuffer
<1>8. CASE UNCHANGED pieces /\ \A t \in Slot : asked'[t][r] <= asked[t][r]
  BY <1>8
<1>9. CASE PeersNext
  <2>1. UNCHANGED pieces
    BY <1>9 DEF PeersNext, ConnectDone, HandshakeOk, HandshakeFails, ReadMessage, Discards,
                ReaderEnds, WriterEnds, TaskEnds, LateEvent
  <2>2. \/ UNCHANGED asked
        \/ \E s \in Slot : asked' = [asked EXCEPT ![s] = NothingAsked]
        \/ \E s \in Slot, q \in Request : asked' = [asked EXCEPT ![s][q] = @ - 1]
    <3>1. CASE \E s \in Slot : \E m \in PeerMessages(s) : ReadMessage(s, m)
      <4>1. PICK s \in Slot : \E m \in PeerMessages(s) : ReadMessage(s, m)
        BY <3>1
      <4>2. PICK m \in PeerMessages(s) : ReadMessage(s, m)
        BY <4>1
      <4>3. m.type = "Data" => m.request \in Request
        BY MessageTyped, EventFields
      <4> QED
        BY <4>2, <4>3 DEF ReadMessage
    <3>2. CASE \E s \in Slot : Discards(s) \/ HandshakeFails(s) \/ ReaderEnds(s) \/ WriterEnds(s)
      BY <3>2 DEF Discards, HandshakeFails, ReaderEnds, WriterEnds, TaskEnds
    <3>3. CASE \/ \E a \in Addr : ConnectDone(a)
               \/ \E s \in Slot : HandshakeOk(s)
               \/ \E m \in late : LateEvent(m)
      BY <3>3 DEF ConnectDone, HandshakeOk, LateEvent
    <3> QED
      BY <1>9, <3>1, <3>2, <3>3 DEF PeersNext
  <2>3. \A t \in Slot : asked'[t][r] <= asked[t][r]
    BY <1>1, <1>2, <2>2
  <2> QED
    BY <2>1, <2>3
<1>10. CASE \/ \E list \in SUBSET Tracked \ {{}} : DedupAndStartPeers(list)
            \/ \E a \in Incoming : AddIncomingPeer(a)
            \/ EventForMissingPeer \/ HandleConnect \/ HandleConnectFailed
            \/ TimePasses \/ DiskNext \/ UNCHANGED vars
  <2>1. UNCHANGED <<pieces, asked>>
    BY <1>10 DEF DedupAndStartPeers, AddIncomingPeer, EventForMissingPeer, HandleConnect,
         HandleConnectFailed, TimePasses, DiskNext, ReadSavefile, TryHashAndWrite, vars
  <2> QED
    BY <1>1, <2>1
<1> QED
  BY <1>3, <1>4, <1>5, <1>6, <1>7, <1>9, <1>10 DEF Next, SchedulerNext, HandlePeerEvent, HandleResponse

-----------------------------------------------------------------------------
\* What is in the queue, or in the hands of aborted readers.
Events == {peer_rx[i] : i \in DOMAIN peer_rx} \cup late

FromConnection(e) == e.type \in {"Connect", "ConnectFailed", "Disconnect"}

FromPeer(e) == \E s \in Slot : e \in PeerMessages(s)

\* A new event is about a connection, or was sent by a peer.
LEMMA QueueStep ==
  ASSUME Typed, [Next]_vars
  PROVE  \/ peer_rx' = peer_rx
         \/ peer_rx # <<>> /\ peer_rx' = Tail(peer_rx)
         \/ \E e : peer_rx' = Append(peer_rx, e) /\ (e \in late \/ FromConnection(e) \/ FromPeer(e))
<1> DEFINE Taken  == peer_rx # <<>> /\ peer_rx' = Tail(peer_rx)
           Posted == \E e : /\ peer_rx' = Append(peer_rx, e)
                            /\ (e \in late \/ FromConnection(e) \/ FromPeer(e))
<1>1. CASE \E a \in Incoming : AddIncomingPeer(a)
  BY <1>1 DEF AddIncomingPeer, Post, FromConnection
<1>2. CASE PeersNext
  <2>1. CASE \E a \in Addr : ConnectDone(a)
    BY <2>1 DEF ConnectDone, Post, FromConnection
  <2>2. CASE \E s \in Slot : HandshakeFails(s) \/ ReaderEnds(s) \/ WriterEnds(s)
    BY <2>2 DEF HandshakeFails, ReaderEnds, WriterEnds, TaskEnds, Post, FromConnection
  <2>3. CASE \E s \in Slot : \E m \in PeerMessages(s) : ReadMessage(s, m)
    BY <2>3 DEF ReadMessage, Post, FromPeer
  <2>4. CASE \E m \in late : LateEvent(m)
    BY <2>4 DEF LateEvent, Post
  <2>5. CASE \E s \in Slot : HandshakeOk(s) \/ Discards(s)
    BY <2>5 DEF HandshakeOk, Discards
  <2> QED
    BY <1>2, <2>1, <2>2, <2>3, <2>4, <2>5 DEF PeersNext
<1>3. CASE \/ \E s \in Slot : \/ RemovePeer(s) \/ HandleBitfield(s) \/ HandleHave(s) \/ HandleChoke(s)
                              \/ HandleUnchoke(s) \/ HandleInterest(s) \/ HandleData(s)
                              \/ HandleMisfit(s)
           \/ EventForMissingPeer \/ HandleConnect \/ HandleConnectFailed
  BY <1>3 DEF RemovePeer, HandleBitfield, HandleHave, HandleChoke, HandleUnchoke, HandleInterest,
              HandleData, HandleMisfit, EventForMissingPeer, HandleConnect, HandleConnectFailed,
              TakeFrom, Take
<1>4. CASE \/ \E list \in SUBSET Tracked \ {{}} : DedupAndStartPeers(list)
           \/ ScanTimeouts \/ ParseCompletedPieces \/ OnCompletePiece \/ HandleFailure
           \/ TimePasses \/ DiskNext \/ UNCHANGED vars
  BY <1>4 DEF DedupAndStartPeers, ScanTimeouts, ParseCompletedPieces, OnCompletePiece, HandleFailure,
              TimePasses, DiskNext, ReadSavefile, TryHashAndWrite, vars
<1> QED
  BY <1>1, <1>2, <1>3, <1>4 DEF Next, SchedulerNext, HandlePeerEvent, HandleResponse

LEMMA LateFrom ==
  ASSUME [Next]_vars, NEW e \in late'
  PROVE  e \in late \/ FromPeer(e)
<1>1. CASE \E s \in Slot : WriterEnds(s)
  BY <1>1 DEF WriterEnds, FromPeer
<1>2. CASE UNCHANGED late
  BY <1>2
<1>3. CASE \E m \in late : LateEvent(m)
  BY <1>3 DEF LateEvent
<1>4. CASE PeersNext /\ ~\E s \in Slot : WriterEnds(s)
  BY <1>2, <1>3, <1>4 DEF PeersNext, ConnectDone, HandshakeOk, HandshakeFails, ReadMessage,
     Discards, ReaderEnds
<1>5. CASE SchedulerNext \/ TimePasses \/ DiskNext \/ UNCHANGED vars
  <2>1. UNCHANGED late
    BY <1>5 DEF SchedulerNext, HandlePeerEvent, HandleResponse, DedupAndStartPeers, AddIncomingPeer,
         EventForMissingPeer, HandleConnect, HandleConnectFailed, RemovePeer, HandleBitfield, HandleHave,
         HandleChoke, HandleUnchoke, HandleInterest, HandleData, HandleMisfit, ScanTimeouts, ParseCompletedPieces, OnCompletePiece, HandleFailure,
         TimePasses, DiskNext, ReadSavefile, TryHashAndWrite, vars
  <2> QED
    BY <2>1
<1> QED
  BY <1>1, <1>4, <1>5 DEF Next

LEMMA EventsStep ==
  ASSUME Typed, [Next]_vars, NEW e \in Events'
  PROVE  e \in Events \/ FromConnection(e) \/ FromPeer(e)
<1>1. peer_rx \in Seq(EventType)
  BY DEF Typed, TypeOK
<1>2. CASE e \in late'
  BY <1>2, LateFrom DEF Events
<1>3. CASE e \notin late'
  <2>1. PICK i \in DOMAIN peer_rx' : e = peer_rx'[i]
    BY <1>3 DEF Events
  <2>2. CASE peer_rx' = peer_rx
    BY <2>1, <2>2 DEF Events
  <2>3. CASE peer_rx # <<>> /\ peer_rx' = Tail(peer_rx)
    BY <1>1, <2>1, <2>3, TailElements DEF Events
  <2>4. CASE \E x : peer_rx' = Append(peer_rx, x) /\ (x \in late \/ FromConnection(x) \/ FromPeer(x))
    BY <1>1, <2>1, <2>4, AppendElements DEF Events
  <2> QED
    BY <2>2, <2>3, <2>4, QueueStep
<1> QED
  BY <1>2, <1>3

\* A block on its way from a peer, or still owed by one, has its buffer.
AnswersBuffered ==
  /\ \A s \in Slot : \A r \in Request : asked[s][r] > 0 => HasBuffer(pieces, r)
  /\ \A e \in Events : e.type = "Data" => HasBuffer(pieces, e.request)

LEMMA AnswersStep ==
  ASSUME Typed, Typed', NoVerifyFault, Pipeline, NoneFailed, AnswersBuffered, [Next]_vars
  PROVE  AnswersBuffered'
<1>1. ASSUME NEW s \in Slot, NEW r \in Request, asked'[s][r] > 0 PROVE HasBuffer(pieces', r)
  <2>1. CASE asked'[s][r] <= asked[s][r]
    <3>1. asked[s][r] \in Nat /\ asked'[s][r] \in Nat
      BY DEF Typed, TypeOK
    <3>2. HasBuffer(pieces, r)
      BY <1>1, <2>1, <3>1 DEF AnswersBuffered
    <3> QED
      BY <3>2, BuffersStep
  <2> QED
    BY <2>1, BuffersStep
<1>2. ASSUME NEW e \in Events', e.type = "Data" PROVE HasBuffer(pieces', e.request)
  <2>1. e \in EventType
    BY DEF Events, Typed, TypeOK
  <2>2. e.request \in Request
    BY <1>2, <2>1, EventFields
  <2>3. HasBuffer(pieces, e.request)
    <3>1. CASE e \in Events
      BY <1>2, <3>1 DEF AnswersBuffered
    <3>2. CASE FromPeer(e)
      <4>1. PICK s \in Slot : e \in PeerMessages(s)
        BY <3>2 DEF FromPeer
      <4>2. asked[s][e.request] > 0
        BY <1>2, <4>1, SchedulerAssumption DEF PeerMessages, NoVerifyFault
      <4> QED
        BY <2>2, <4>2 DEF AnswersBuffered
    <3> QED
      BY <1>2, <3>1, <3>2, EventsStep DEF FromConnection
  <2> QED
    BY <2>2, <2>3, BuffersStep
<1> QED
  BY <1>1, <1>2 DEF AnswersBuffered, HasBuffer, Events

AlwaysBuffered == NoVerifyFault => AnswersBuffered

LEMMA InitBuffered == Init => AlwaysBuffered
  BY DEF Init, AlwaysBuffered, AnswersBuffered, Events, NothingAsked

LEMMA BuffersHold == Spec => [](Typed /\ RequestsSingle /\ AlwaysBuffered)
<1>1. Typed /\ Pipeline /\ RequestsSingle /\ [Next]_vars => RequestsSingle'
  BY NextSingle, NextNoneFailed DEF RequestsSingle, NoVerifyFault
<1>2. Typed /\ Typed' /\ Pipeline /\ RequestsSingle /\ AlwaysBuffered /\ [Next]_vars => AlwaysBuffered'
  BY AnswersStep DEF AlwaysBuffered, RequestsSingle, NoVerifyFault
<1> QED
  BY <1>1, <1>2, InitSingle, InitBuffered, PipelineHolds, PTL DEF Spec

\* Until a piece fails verification, a block that arrives finds the vector of its piece,
\* from whomever, after time-outs and departures, and whatever the savefile holds.
THEOREM DataFindsBuffer ==
  ASSUME "verify" \notin Faults
  PROVE  Spec => []DataHasBuffer
<1>1. Typed /\ AlwaysBuffered => DataHasBuffer
  <2> SUFFICES ASSUME Typed, AlwaysBuffered, Running, peer_rx # <<>>, Head(peer_rx).type = "Data"
               PROVE  HasBuffer(pieces, Head(peer_rx).request)
    BY DEF DataHasBuffer, HasBuffer
  <2>1. 1 \in DOMAIN peer_rx /\ peer_rx[1] = Head(peer_rx)
    BY QueueShift
  <2> QED
    BY <2>1 DEF AlwaysBuffered, NoVerifyFault, AnswersBuffered, Events
<1> QED
  BY <1>1, BuffersHold, PTL

\* An entry of a list has its buffer: no release is out of range.
LEMMA NoReleasePanics ==
  ASSUME Marked(pieces, slots), NEW gone, \A e \in gone : e \in AllInFlight
  PROVE  ~ReleasePanics(pieces, gone)
BY DEF Marked, MarkedIn, ReleasePanics, AllInFlight

\* A vector that lacks a block of its piece is empty.
LEMMA NoVector ==
  ASSUME Typed, NEW r \in Request, r[2] \notin DOMAIN pieces[r[1]].status
  PROVE  pieces[r[1]].status = NoBlocks
<1>1. r[1] \in Piece /\ r[2] \in Block(r[1]) /\ pieces[r[1]] \in BufferType(r[1])
  BY RequestParts DEF Typed, TypeOK, PiecesType
<1>2. pieces[r[1]].status \in [{} -> BlockState]
  BY <1>1 DEF BufferType
<1> QED
  BY <1>2 DEF NoBlocks

\* A release that is out of range has met an empty vector.
LEMMA PanickingRelease ==
  ASSUME Typed, NEW gone, \A e \in gone : e \in AllInFlight, ReleasePanics(pieces, gone)
  PROVE  MissingBuffer
<1>1. PICK e \in gone : /\ ~pieces[e.request[1]].complete
                        /\ e.request[2] \notin DOMAIN pieces[e.request[1]].status
  BY DEF ReleasePanics
<1>2. e.request \in Request
  BY DEF AllInFlight, Typed, TypeOK, SlotsType, HandleType, EntryType
<1> QED
  BY <1>1, <1>2, NoVector DEF MissingBuffer

LEMMA PanicStep ==
  ASSUME Typed, "abort" \notin Faults => KnownPeer,
         NoVerifyFault => Marked(pieces, slots) /\ DataHasBuffer,
         [Next]_vars, Running, sched' = "panicked"
  PROVE  \/ BadMessage
         \/ "abort" \in Faults /\ MissingPeer
         \/ "verify" \in Faults /\ MissingBuffer
<1>1. CASE EventForMissingPeer
  BY <1>1 DEF EventForMissingPeer, KnownPeer, MissingPeer
<1>2. ASSUME NEW gone, \A e \in gone : e \in AllInFlight, ReleasePanics(pieces, gone)
      PROVE  "verify" \in Faults /\ MissingBuffer
  BY <1>2, NoReleasePanics, PanickingRelease DEF NoVerifyFault
<1>3. CASE \E s \in Slot : RemovePeer(s)
  <2>1. PICK s \in Slot : RemovePeer(s)
    BY <1>3
  <2>2. /\ ReleasePanics(pieces, Handle(s).in_flight)
        /\ \A e \in Handle(s).in_flight : e \in AllInFlight
    BY <2>1 DEF RemovePeer, TakeFrom, Handle, AllInFlight, Running
  <2> QED
    BY <1>2, <2>2
<1>4. CASE ScanTimeouts
  <2> DEFINE old == {e \in AllInFlight : e.expired}
  <2>1. ReleasePanics(pieces, old) /\ \A e \in old : e \in AllInFlight
    BY <1>4 DEF ScanTimeouts, Running
  <2> HIDE DEF old
  <2> QED
    BY <1>2, <2>1
<1>5. CASE \E s \in Slot : HandleHave(s)
  BY <1>5 DEF HandleHave, TakeFrom, Take, BadMessage, Running
<1>6. CASE \E s \in Slot : HandleMisfit(s)
  BY <1>6 DEF HandleMisfit, TakeFrom, Take, BadMessage, IgnoreData, AcceptData, Running
<1>7. CASE \E s \in Slot : HandleData(s)
  <2> DEFINE r == Head(peer_rx).request
  <2>1. /\ peer_rx # <<>> /\ Head(peer_rx).type = "Data" /\ r \in Request
        /\ ~pieces[r[1]].complete /\ r[2] \notin DOMAIN pieces[r[1]].status
    BY <1>7, TakeTyped, EventFields
       DEF HandleData, TakeFrom, Take, IgnoreData, AcceptData, Running, Typed
  <2>2. ~NoVerifyFault
    BY <2>1 DEF DataHasBuffer
  <2> QED
    BY <2>1, <2>2, NoVector DEF MissingBuffer, NoVerifyFault
<1>8. CASE \E a \in Incoming : AddIncomingPeer(a)
  BY <1>8 DEF AddIncomingPeer, Running
<1>9. CASE sched' = sched
  BY <1>9 DEF Running
<1> QED
  BY <1>1, <1>3, <1>4, <1>5, <1>6, <1>7, <1>8, <1>9
     DEF Next, SchedulerNext, HandlePeerEvent, HandleResponse, DedupAndStartPeers, HandleConnect,
     HandleConnectFailed, HandleBitfield, HandleChoke, HandleUnchoke, HandleInterest, ParseCompletedPieces,
     OnCompletePiece, HandleFailure, PeersNext, ConnectDone, HandshakeOk, HandshakeFails, ReadMessage,
     Discards, ReaderEnds, WriterEnds, TaskEnds, LateEvent, TimePasses, DiskNext, ReadSavefile,
     TryHashAndWrite, vars

\* Whatever peers send, and whatever fails: the scheduler panics over a Have before the
\* bitfield or beyond its end and over a Piece message that is no block we ask for; over an
\* event that comes after its Disconnect if readers are aborted; over a piece without a
\* vector if pieces may fail; and over nothing else.
THEOREM PanicsAreExplained == Spec => PanicsExplained
<1> DEFINE Reasons == \/ BadMessage
                      \/ "abort" \in Faults /\ MissingPeer
                      \/ "verify" \in Faults /\ MissingBuffer
           Panics  == Running /\ sched' = "panicked" => Reasons
           Known   == "abort" \notin Faults => KnownPeer
           Data    == NoVerifyFault => DataHasBuffer
<1>1. Spec => []Known
  <2>1. CASE "abort" \in Faults
    <3>1. Known
      BY <2>1
    <3> QED
      BY <3>1, PTL
  <2>2. CASE "abort" \notin Faults
    <3>1. Spec => []KnownPeer
      BY <2>2, PeersAreKnown
    <3>2. KnownPeer => Known
      OBVIOUS
    <3> QED
      BY <3>1, <3>2, PTL
  <2> QED
    BY <2>1, <2>2
<1>2. Spec => []Data
  <2>1. CASE ~NoVerifyFault
    <3>1. Data
      BY <2>1
    <3> QED
      BY <3>1, PTL
  <2>2. CASE NoVerifyFault
    <3>1. Spec => []DataHasBuffer
      BY <2>2, DataFindsBuffer DEF NoVerifyFault
    <3>2. DataHasBuffer => Data
      OBVIOUS
    <3> QED
      BY <3>1, <3>2, PTL
  <2> QED
    BY <2>1, <2>2
<1>3. Typed /\ RequestsSingle /\ Known /\ Data /\ [Next]_vars => [Panics]_vars
  BY PanicStep DEF RequestsSingle, Single
<1> QED
  BY <1>1, <1>2, <1>3, BuffersHold, PTL DEF Spec, PanicsExplained
=============================================================================
