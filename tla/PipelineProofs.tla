--------------------------- MODULE PipelineProofs ---------------------------
(***************************************************************************)
(* From blocks to verified pieces: what is handed to the disk task is a    *)
(* whole piece, once, and scheduler and disk task implement Download.      *)
(***************************************************************************)
EXTENDS SchedulerProofs

USE DEF schedVars, peerVars, diskVars

-----------------------------------------------------------------------------
(***************************************************************************)
(* Queues.                                                                 *)
(***************************************************************************)
LEMMA TailElements ==
  ASSUME NEW S, NEW q \in Seq(S), q # <<>>
  PROVE  /\ 1 \in DOMAIN q /\ Head(q) = q[1]
         /\ \A i \in DOMAIN Tail(q) : /\ i \in Nat /\ i + 1 # 1
                                      /\ i + 1 \in DOMAIN q /\ Tail(q)[i] = q[i + 1]
         /\ \A i \in DOMAIN q : i # 1 => i - 1 \in DOMAIN Tail(q) /\ Tail(q)[i - 1] = q[i]
  OBVIOUS

LEMMA AppendElements ==
  ASSUME NEW S, NEW q \in Seq(S), NEW e
  PROVE  /\ \A i \in DOMAIN Append(q, e) :
              \/ i \in DOMAIN q /\ Append(q, e)[i] = q[i]
              \/ i = Len(q) + 1 /\ i \notin DOMAIN q /\ Append(q, e)[i] = e
         /\ \A i \in DOMAIN q : i \in DOMAIN Append(q, e) /\ Append(q, e)[i] = q[i]
         /\ Len(q) + 1 \in DOMAIN Append(q, e) /\ Append(q, e)[Len(q) + 1] = e
  OBVIOUS

-----------------------------------------------------------------------------
(***************************************************************************)
(* What a push does to the pieces.                                         *)
(***************************************************************************)
LEMMA PushPieces ==
  ASSUME NEW s, NEW h, NEW pcs, Buffers(pcs), DOMAIN pcs = Piece,
         MaybePushBlocks(s, h, pcs), NEW p \in Piece
  PROVE  /\ pieces'[p].complete = pcs[p].complete
         /\ BufferConsistent(pcs[p]) => BufferConsistent(pieces'[p])
<1>1. CASE pieces'[p] = pcs[p]
  BY <1>1
<1>2. CASE pieces'[p] # pcs[p]
  <2>1. CanRequest(h)
    BY <1>2 DEF MaybePushBlocks
  <2>2. PICK T \in FirstOf(Candidates(h, pcs), MAX_IN_FLIGHT - Cardinality(h.in_flight)) :
          pieces' = MarkRequested(pcs, T)
    BY <2>1 DEF MaybePushBlocks
  <2>3. T \subseteq Candidates(h, pcs)
    BY DEF FirstOf
  <2> DEFINE old == pcs[p]
             buf == LazyInit(p, old)
             st  == [c \in DOMAIN buf.status |->
                       IF <<p, c>> \in T THEN "Requested" ELSE buf.status[c]]
  <2>4. PICK b \in Block(p) : <<p, b>> \in T
    BY <1>2, <2>2 DEF MarkRequested
  <2>5. pieces'[p] = [buf EXCEPT !.status = st]
    BY <2>2, <2>4 DEF MarkRequested
  <2>6. ~old.complete
    <3>1. <<p, b>>[1] = p
      OBVIOUS
    <3> QED
      BY <2>3, <2>4, <3>1 DEF Candidates
  <2>7. old \in BufferType(p) /\ buf \in BufferType(p)
    BY BufferTyped DEF Buffers
  <2>8. buf.complete = old.complete /\ ~buf.complete /\ buf.data = old.data /\ buf.blocks_received = old.blocks_received
    BY <2>6, <2>7 DEF LazyInit, BufferType
  <2>9. \A c \in DOMAIN buf.status : <<p, c>> \in T => buf.status[c] = "NotRequested"
    <3>1. CASE DOMAIN old.status = {}
      BY <2>7, <3>1 DEF LazyInit, BufferType
    <3>2. CASE DOMAIN old.status # {}
      <4>1. buf = old
        BY <3>2 DEF LazyInit
      <4>2. \A c : <<p, c>> \in T => old.status[c] = "NotRequested"
        <5>1. \A c : <<p, c>>[1] = p /\ <<p, c>>[2] = c
          OBVIOUS
        <5> QED
          BY <2>3, <3>2, <5>1 DEF Candidates
      <4> QED
        BY <4>1, <4>2
    <3> QED
      BY <3>1, <3>2
  <2>10. {c \in DOMAIN buf.status : buf.status[c] = "Received"}
           = {c \in DOMAIN old.status : old.status[c] = "Received"}
    BY <2>7 DEF LazyInit, BufferType
  <2>11. {c \in DOMAIN st : st[c] = "Received"}
           = {c \in DOMAIN buf.status : buf.status[c] = "Received"}
    BY <2>9
  <2>12. /\ pieces'[p].complete = buf.complete /\ pieces'[p].status = st
         /\ pieces'[p].data = buf.data /\ pieces'[p].blocks_received = buf.blocks_received
    BY <2>5, <2>7 DEF BufferType
  <2> HIDE DEF st, buf
  <2> QED
    BY <2>6, <2>8, <2>10, <2>11, <2>12 DEF BufferConsistent
<1> QED
  BY <1>1, <1>2

-----------------------------------------------------------------------------
(***************************************************************************)
(* Seen from a piece there are few kinds of step.                          *)
(***************************************************************************)
\* The piece goes on as it was: blocks may be requested, released or received.
Undisturbed(p) ==
  /\ pieces'[p].complete = pieces[p].complete
  /\ BufferConsistent(pieces[p]) => BufferConsistent(pieces'[p])

Quiet ==
  /\ \A p \in Piece : Undisturbed(p)
  /\ UNCHANGED <<diskVars, completed_pieces>>

\* The last block of a piece arrives.
Submits(p) ==
  /\ ~pieces[p].complete /\ pieces'[p].complete
  /\ \A q \in Piece \ {p} : Undisturbed(q)
  /\ \E data \in SUBSET Nat :
       /\ BufferConsistent(pieces[p]) => data = Block(p)
       /\ disk_rx' = Append(disk_rx, [piece |-> p, data |-> data])
  /\ UNCHANGED <<disk, disk_tx, completed_pieces>>

\* A push by itself is quiet.
LEMMA PushQuiet ==
  ASSUME Typed, NEW s, NEW h, MaybePushBlocks(s, h, pieces), NEW p \in Piece
  PROVE  Undisturbed(p)
<1>1. Buffers(pieces) /\ DOMAIN pieces = Piece
  BY DEF Typed, TypeOK, PiecesType, Buffers
<1> QED
  BY <1>1, PushPieces DEF Undisturbed

\* So is a release: no block becomes or ceases to be Received.
LEMMA ReleaseQuiet ==
  ASSUME Typed, NEW gone, pieces' = Release(pieces, gone), NEW p \in Piece
  PROVE  Undisturbed(p)
<1>1. CASE pieces[p].complete
  <2>1. pieces'[p] = pieces[p]
    BY <1>1 DEF Release
  <2> QED
    BY <2>1 DEF Undisturbed
<1>2. CASE ~pieces[p].complete
  <2> DEFINE buf == pieces[p]
             st == [b \in DOMAIN buf.status |->
                      IF buf.status[b] = "Requested" /\ \E e \in gone : e.request = <<p, b>>
                      THEN "NotRequested" ELSE buf.status[b]]
  <2>1. pieces'[p] = [buf EXCEPT !.status = st]
    BY <1>2 DEF Release
  <2>2. buf \in BufferType(p)
    BY DEF Typed, TypeOK, PiecesType
  <2>3. {b \in DOMAIN st : st[b] = "Received"}
          = {b \in DOMAIN buf.status : buf.status[b] = "Received"}
    OBVIOUS
  <2>4. /\ pieces'[p].complete = buf.complete /\ pieces'[p].status = st
        /\ pieces'[p].data = buf.data /\ pieces'[p].blocks_received = buf.blocks_received
    BY <2>1, <2>2 DEF BufferType
  <2> HIDE DEF st
  <2> QED
    BY <2>3, <2>4 DEF Undisturbed, BufferConsistent
<1> QED
  BY <1>1, <1>2

LEMMA QuietSteps ==
  ASSUME Typed,
         \/ \E list \in SUBSET Tracked \ {{}} : DedupAndStartPeers(list)
         \/ \E a \in Incoming : AddIncomingPeer(a)
         \/ EventForMissingPeer \/ HandleConnect \/ HandleConnectFailed
         \/ \E s \in Slot : \/ RemovePeer(s) \/ HandleBitfield(s) \/ HandleHave(s)
                            \/ HandleChoke(s) \/ HandleUnchoke(s) \/ HandleInterest(s)
         \/ ScanTimeouts
         \/ PeersNext \/ TimePasses
         \/ UNCHANGED vars
  PROVE  Quiet
<1>1. ASSUME UNCHANGED pieces, NEW p \in Piece PROVE Undisturbed(p)
  BY <1>1 DEF Undisturbed
<1>2. UNCHANGED <<diskVars, completed_pieces>>
  BY DEF DedupAndStartPeers, AddIncomingPeer, EventForMissingPeer, HandleConnect,
         HandleConnectFailed, RemovePeer, HandleBitfield, HandleHave, HandleChoke, HandleUnchoke,
         HandleInterest, ScanTimeouts, PeersNext, ConnectDone, HandshakeOk, HandshakeFails,
         ReadMessage, Discards, ReaderEnds, WriterEnds, TaskEnds, LateEvent, TimePasses, vars
<1>3. \/ UNCHANGED pieces
      \/ \E gone : pieces' = Release(pieces, gone)
      \/ \E s, h : MaybePushBlocks(s, h, pieces)
  <2>1. CASE \E s \in Slot : HandleBitfield(s) \/ HandleHave(s) \/ HandleUnchoke(s)
    BY <2>1 DEF HandleBitfield, HandleHave, HandleUnchoke
  <2>2. CASE (\E s \in Slot : RemovePeer(s)) \/ ScanTimeouts
    BY <2>2 DEF RemovePeer, ScanTimeouts
  <2>3. CASE UNCHANGED pieces
    BY <2>3
  <2> QED
    BY <2>1, <2>2, <2>3
       DEF DedupAndStartPeers, AddIncomingPeer, EventForMissingPeer, HandleConnect,
           HandleConnectFailed, HandleChoke, HandleInterest, PeersNext, ConnectDone, HandshakeOk,
           HandshakeFails, ReadMessage, Discards, ReaderEnds, WriterEnds, TaskEnds, LateEvent,
           TimePasses, vars
<1> QED
  BY <1>1, <1>2, <1>3, PushQuiet, ReleaseQuiet DEF Quiet

\* A block that is stored joins the data, the count and the marks at once.
LEMMA StoreConsistent ==
  ASSUME NEW p \in Piece, NEW buf \in BufferType(p), ~buf.complete,
         NEW b \in DOMAIN buf.status, b \in Block(p), buf.status[b] # "Received",
         BufferConsistent(buf)
  PROVE  /\ BufferConsistent(StoreBlock(buf, b))
         /\ AllReceived(StoreBlock(buf, b)) => StoreBlock(buf, b).data = Block(p)
<1> DEFINE st  == [buf.status EXCEPT ![b] = "Received"]
           new == StoreBlock(buf, b)
<1>1. /\ new.status = st /\ new.data = buf.data \cup {b} /\ new.complete = buf.complete
      /\ new.blocks_received = buf.blocks_received + 1
  BY DEF StoreBlock, BufferType
<1>2. /\ buf.data = {c \in DOMAIN buf.status : buf.status[c] = "Received"}
      /\ buf.blocks_received = Cardinality(buf.data)
  BY DEF BufferConsistent
<1>3. {c \in DOMAIN st : st[c] = "Received"} = buf.data \cup {b}
  BY <1>2
<1>4. DOMAIN buf.status = Block(p)
  BY DEF BufferType
<1>5. IsFiniteSet(buf.data) /\ buf.data \subseteq Block(p) /\ IsFiniteSet(Block(p))
  BY <1>2, <1>4, BlockFinite, FS_Subset
<1>6. Cardinality(buf.data \cup {b}) = Cardinality(buf.data) + 1
  BY <1>2, <1>5, FS_AddElement
<1>7. BufferConsistent(new)
  BY <1>1, <1>2, <1>3, <1>6 DEF BufferConsistent
<1>8. ASSUME AllReceived(new) PROVE new.data = Block(p)
  <2>1. Cardinality(new.data) = Cardinality(Block(p))
    BY <1>1, <1>2, <1>4, <1>6, <1>8 DEF AllReceived
  <2>2. new.data \in SUBSET Block(p)
    BY <1>1, <1>5
  <2> QED
    BY <1>5, <2>1, <2>2, FS_Subset
<1> QED
  BY <1>7, <1>8

\* handle_data either leaves the pieces going on or hands one over, whole: here when it
\* stores a block.
LEMMA AcceptStep ==
  ASSUME Typed, NEW s, NEW h, NEW r \in Request, AcceptData(s, h, r),
         ~pieces[r[1]].complete, r[2] \in DOMAIN pieces[r[1]].status,
         pieces[r[1]].status[r[2]] # "Received",
         UNCHANGED <<disk, disk_tx, completed_pieces>>
  PROVE  Quiet \/ \E p \in Piece : Submits(p)
<1> DEFINE p   == r[1]
           buf == pieces[p]
           new == StoreBlock(buf, r[2])
<1>1. /\ p \in Piece /\ r[2] \in Block(p) /\ buf \in BufferType(p)
      /\ Buffers(pieces) /\ DOMAIN pieces = Piece
  BY RequestParts DEF Typed, TypeOK, PiecesType, Buffers
<1>2. /\ new \in BufferType(p) /\ HandOver(new) \in BufferType(p)
      /\ new.complete = buf.complete /\ HandOver(new).complete
  <2>1. new \in BufferType(p) /\ HandOver(new) \in BufferType(p)
    BY <1>1, BufferTyped
  <2> QED
    BY <1>1, <2>1 DEF StoreBlock, HandOver, BufferType
<1>3. BufferConsistent(buf) => /\ BufferConsistent(new)
                               /\ AllReceived(new) => new.data = Block(p)
  BY <1>1, StoreConsistent
<1>4. new.data \in SUBSET Nat
  BY <1>1, <1>2, BlockFinite DEF BufferType
<1>5. ASSUME NEW last \in BufferType(p), MaybePushBlocks(s, h, [pieces EXCEPT ![p] = last])
      PROVE  /\ \A q \in Piece \ {p} : Undisturbed(q)
             /\ pieces'[p].complete = last.complete
             /\ BufferConsistent(last) => BufferConsistent(pieces'[p])
  <2> DEFINE pcs == [pieces EXCEPT ![p] = last]
  <2>1. Buffers(pcs) /\ DOMAIN pcs = Piece
    BY <1>1, <1>5 DEF Buffers
  <2>2. pcs[p] = last /\ \A q \in Piece \ {p} : pcs[q] = pieces[q]
    BY <1>1
  <2> HIDE DEF pcs
  <2>3. ASSUME NEW q \in Piece
        PROVE  /\ pieces'[q].complete = pcs[q].complete
               /\ BufferConsistent(pcs[q]) => BufferConsistent(pieces'[q])
    BY <1>5, <2>1, PushPieces DEF pcs
  <2>4. \A q \in Piece \ {p} : Undisturbed(q)
    <3>1. SUFFICES ASSUME NEW q \in Piece \ {p} PROVE Undisturbed(q)
      OBVIOUS
    <3>2. pcs[q] = pieces[q]
      BY <2>2
    <3>3. /\ pieces'[q].complete = pcs[q].complete
          /\ BufferConsistent(pcs[q]) => BufferConsistent(pieces'[q])
      BY <2>3
    <3> QED
      BY <3>2, <3>3 DEF Undisturbed
  <2>5. /\ pieces'[p].complete = last.complete
        /\ BufferConsistent(last) => BufferConsistent(pieces'[p])
    <3>1. /\ pieces'[p].complete = pcs[p].complete
          /\ BufferConsistent(pcs[p]) => BufferConsistent(pieces'[p])
      BY <1>1, <2>3
    <3> QED
      BY <2>2, <3>1
  <2> QED
    BY <2>4, <2>5
<1>6. CASE /\ AllReceived(new)
           /\ disk_rx' = Append(disk_rx, [piece |-> p, data |-> new.data])
           /\ MaybePushBlocks(s, h, [pieces EXCEPT ![p] = HandOver(new)])
  <2>1. Submits(p)
    BY <1>2, <1>3, <1>4, <1>5, <1>6 DEF Submits
  <2> QED
    BY <1>1, <2>1
<1>7. CASE UNCHANGED disk_rx /\ MaybePushBlocks(s, h, [pieces EXCEPT ![p] = new])
  BY <1>2, <1>3, <1>5, <1>7 DEF Quiet, Undisturbed
<1> QED
  BY <1>6, <1>7 DEF AcceptData

LEMMA DataStep ==
  ASSUME Typed, NEW s \in Slot, HandleData(s) \/ HandleMisfit(s)
  PROVE  Quiet \/ \E p \in Piece : Submits(p)
<1>1. UNCHANGED <<disk, disk_tx, completed_pieces>>
  BY DEF HandleData, HandleMisfit
<1>2. CASE UNCHANGED <<pieces, disk_rx>>
  BY <1>1, <1>2 DEF Quiet, Undisturbed
<1>3. CASE HandleData(s)
  <2> DEFINE r   == Head(peer_rx).request
             buf == pieces[r[1]]
  <2>1. r \in Request
    BY <1>3, TakeTyped, EventFields DEF HandleData, TakeFrom, Typed
  <2>2. PICK h :
          IF buf.complete THEN IgnoreData(s, h)
          ELSE IF r[2] \notin DOMAIN buf.status
          THEN sched' = "panicked" /\ UNCHANGED <<slots, pieces, asked, disk_rx>>
          ELSE IF buf.status[r[2]] = "Received" THEN IgnoreData(s, h)
          ELSE AcceptData(s, h, r)
    BY <1>3 DEF HandleData
  <2> QED
    BY <1>1, <1>2, <2>1, <2>2, AcceptStep DEF IgnoreData
<1>4. CASE HandleMisfit(s)
  <2> DEFINE e == Head(peer_rx)
  <2>1. e.request \in Request \cup NoSuchBlock
    BY <1>4, TakeTyped, EventFields DEF HandleMisfit, TakeFrom, Typed
  <2>2. \/ UNCHANGED <<pieces, disk_rx>>
        \/ /\ ~MisfitPanics(e) /\ Wanted(e.request)
           /\ AcceptData(s, Handle(s), e.request)
    BY <1>4 DEF HandleMisfit, IgnoreData
  <2>3. ASSUME ~MisfitPanics(e), Wanted(e.request), AcceptData(s, Handle(s), e.request)
        PROVE  Quiet \/ \E p \in Piece : Submits(p)
    <3>1. e.request \in Request /\ e.request[2] \in DOMAIN pieces[e.request[1]].status
      BY <2>1, <2>3, WantedIsBlock DEF Typed, TypeOK
    <3> QED
      BY <1>1, <2>3, <3>1, AcceptStep DEF Wanted
  <2> QED
    BY <1>2, <2>2, <2>3
<1> QED
  BY <1>3, <1>4

-----------------------------------------------------------------------------
(***************************************************************************)
(* Each piece is verified once, and whole.                                 *)
(***************************************************************************)
Pipeline == VerifyOnce /\ WholePieceToDisk

LEMMA InitPipeline == Init => Pipeline
<1> SUFFICES ASSUME Init PROVE Pipeline
  OBVIOUS
<1>1. disk_rx = <<>> /\ disk_tx = <<>>
  BY DEF Init
<1>2. \A p \in Piece : pieces[p] = EmptyBuffer
  BY DEF Init
<1>3. BufferConsistent(EmptyBuffer)
  BY FS_EmptySet DEF EmptyBuffer, NoBlocks, BufferConsistent
<1> QED
  BY <1>1, <1>2, <1>3 DEF Pipeline, VerifyOnce, WholePieceToDisk, Verdicts, Submitted

LEMMA QuietPipeline ==
  ASSUME Pipeline, Quiet
  PROVE  Pipeline'
BY DEF Quiet, Undisturbed, Pipeline, VerifyOnce, WholePieceToDisk, Verdicts, Submitted

LEMMA SubmitPipeline ==
  ASSUME Typed, Pipeline, NEW p \in Piece, Submits(p)
  PROVE  Pipeline'
<1>1. ~Submitted(p)
  BY DEF Submits, Pipeline, VerifyOnce
<1>2. PICK data \in SUBSET Nat :
        /\ BufferConsistent(pieces[p]) => data = Block(p)
        /\ disk_rx' = Append(disk_rx, [piece |-> p, data |-> data])
  BY DEF Submits
<1>3. data = Block(p)
  BY <1>2 DEF Pipeline, WholePieceToDisk
<1> DEFINE e == [piece |-> p, data |-> data]
           n == Len(disk_rx) + 1
<1>4. disk_rx \in Seq([piece : Piece, data : SUBSET Nat])
  BY DEF Typed, TypeOK, DiskType
<1>5. \A i \in DOMAIN disk_rx' :
        \/ i \in DOMAIN disk_rx /\ disk_rx'[i] = disk_rx[i]
        \/ i = n /\ disk_rx'[i] = e
  BY <1>2, <1>4, AppendElements
<1>6. UNCHANGED disk_tx /\ Verdicts' = Verdicts
  BY DEF Submits, Verdicts
<1>7. e.piece = p /\ e.data = Block(p)
  BY <1>3
<1> HIDE DEF e, n
<1>8. \A q \in Piece : Submitted(q)' => Submitted(q) \/ q = p
  BY <1>5, <1>6, <1>7 DEF Submitted
<1>9. VerifyOnce'
  <2>1. \A i, j \in DOMAIN disk_rx' : disk_rx'[i].piece = disk_rx'[j].piece => i = j
    BY <1>1, <1>5, <1>7 DEF Submitted, Pipeline, VerifyOnce
  <2>2. \A i \in DOMAIN disk_rx', j \in Verdicts' : disk_rx'[i].piece # disk_tx'[j].piece
    BY <1>1, <1>5, <1>6, <1>7 DEF Submitted, Pipeline, VerifyOnce
  <2>3. \A q \in Piece : Submitted(q)' => pieces'[q].complete
    BY <1>8 DEF Submits, Undisturbed, Pipeline, VerifyOnce
  <2>4. \A i, j \in Verdicts' : disk_tx'[i].piece = disk_tx'[j].piece => i = j
    BY <1>6 DEF Pipeline, VerifyOnce
  <2> QED
    BY <2>1, <2>2, <2>3, <2>4 DEF VerifyOnce
<1>10. WholePieceToDisk'
  <2>1. \A i \in DOMAIN disk_rx' : disk_rx'[i].data = Block(disk_rx'[i].piece)
    BY <1>5, <1>7 DEF Pipeline, WholePieceToDisk
  <2>2. \A q \in Piece : BufferConsistent(pieces'[q])
    BY DEF Submits, Undisturbed, Pipeline, WholePieceToDisk, BufferConsistent
  <2> QED
    BY <2>1, <2>2 DEF WholePieceToDisk
<1> QED
  BY <1>9, <1>10 DEF Pipeline

\* What is left of disk_tx when its head has been taken.
LEMMA TakenVerdicts ==
  ASSUME Typed, NEW type, TakeResponse(type)
  PROVE  /\ 1 \in DOMAIN disk_tx /\ Head(disk_tx) = disk_tx[1] /\ disk_tx[1].type = type
         /\ Head(disk_tx) \in ResponseType
         /\ \A i \in DOMAIN disk_tx' : i + 1 \in DOMAIN disk_tx /\ i + 1 # 1 /\ disk_tx'[i] = disk_tx[i + 1]
         /\ \A i \in Verdicts' : i \in Nat /\ i + 1 \in Verdicts /\ i + 1 # 1 /\ disk_tx'[i] = disk_tx[i + 1]
         /\ \A i \in Verdicts : i # 1 => i - 1 \in Verdicts' /\ disk_tx'[i - 1] = disk_tx[i]
<1>1. disk_tx \in Seq(ResponseType) /\ disk_tx # <<>> /\ disk_tx' = Tail(disk_tx)
  BY DEF Typed, TypeOK, DiskType, TakeResponse
<1>2. Head(disk_tx) \in ResponseType
  BY <1>1, QueueTail
<1> QED
  BY <1>1, <1>2, TailElements DEF TakeResponse, Verdicts

\* The verdict on a piece is handled: the piece is no longer submitted, any other is
\* as it was.
LEMMA VerdictTaken ==
  ASSUME Typed, Pipeline, NEW type \in Verdict, TakeResponse(type), UNCHANGED disk_rx
  PROVE  /\ Head(disk_tx).piece \in Piece
         /\ Submitted(Head(disk_tx).piece) /\ pieces[Head(disk_tx).piece].complete
         /\ \A q \in Piece : Submitted(q)' <=> Submitted(q) /\ q # Head(disk_tx).piece
<1> DEFINE p == Head(disk_tx).piece
<1>1. p \in Piece
  BY TakenVerdicts DEF ResponseType, Verdict
<1>2. 1 \in Verdicts /\ p = disk_tx[1].piece
  BY TakenVerdicts DEF Verdicts
<1>3. Submitted(p) /\ pieces[p].complete
  BY <1>1, <1>2 DEF Submitted, Pipeline, VerifyOnce
<1>4. \A i \in DOMAIN disk_rx : disk_rx[i].piece # p
  BY <1>2 DEF Pipeline, VerifyOnce
<1>5. \A i \in Verdicts : disk_tx[i].piece = p => i = 1
  BY <1>2 DEF Pipeline, VerifyOnce
<1> HIDE DEF p
<1>6. ASSUME NEW q \in Piece, Submitted(q)' PROVE Submitted(q) /\ q # p
  <2>1. CASE \E i \in DOMAIN disk_rx' : disk_rx'[i].piece = q
    BY <1>4, <2>1 DEF Submitted
  <2>2. CASE \E i \in Verdicts' : disk_tx'[i].piece = q
    <3>1. PICK i \in Verdicts' : disk_tx'[i].piece = q
      BY <2>2
    <3>2. i + 1 \in Verdicts /\ i + 1 # 1 /\ disk_tx[i + 1].piece = q
      BY <3>1, TakenVerdicts
    <3> QED
      BY <1>5, <3>2 DEF Submitted
  <2> QED
    BY <1>6, <2>1, <2>2 DEF Submitted
<1>7. ASSUME NEW q \in Piece, Submitted(q), q # p PROVE Submitted(q)'
  <2>1. CASE \E i \in DOMAIN disk_rx : disk_rx[i].piece = q
    BY <2>1 DEF Submitted
  <2>2. CASE \E i \in Verdicts : disk_tx[i].piece = q
    <3>1. PICK i \in Verdicts : disk_tx[i].piece = q
      BY <2>2
    <3>2. i # 1
      BY <1>2, <1>7, <3>1
    <3>3. i - 1 \in Verdicts' /\ disk_tx'[i - 1].piece = q
      BY <3>1, <3>2, TakenVerdicts
    <3> QED
      BY <3>3 DEF Submitted
  <2> QED
    BY <1>7, <2>1, <2>2 DEF Submitted
<1> QED
  BY <1>1, <1>3, <1>6, <1>7 DEF p

\* The list of saved pieces is handled: what is submitted stays submitted.
LEMMA SavefileTaken ==
  ASSUME Typed, TakeResponse("CompletedPieces"), UNCHANGED disk_rx, NEW q \in Piece
  PROVE  Submitted(q)' <=> Submitted(q)
<1>1. 1 \notin Verdicts
  BY TakenVerdicts DEF Verdicts, Verdict
<1>2. ASSUME NEW i \in Verdicts' PROVE i + 1 \in Verdicts /\ disk_tx'[i] = disk_tx[i + 1]
  BY TakenVerdicts
<1>3. ASSUME NEW i \in Verdicts PROVE i - 1 \in Verdicts' /\ disk_tx'[i - 1] = disk_tx[i]
  BY <1>1, TakenVerdicts
<1> QED
  BY <1>2, <1>3 DEF Submitted

\* Taking any response keeps the verdicts apart.
LEMMA TakenOnce ==
  ASSUME Typed, Pipeline, NEW type, TakeResponse(type), UNCHANGED disk_rx
  PROVE  /\ \A i, j \in Verdicts' : disk_tx'[i].piece = disk_tx'[j].piece => i = j
         /\ \A i \in DOMAIN disk_rx', j \in Verdicts' : disk_rx'[i].piece # disk_tx'[j].piece
<1>1. ASSUME NEW i \in Verdicts'
      PROVE  i \in Nat /\ i + 1 \in Verdicts /\ disk_tx'[i] = disk_tx[i + 1]
  BY TakenVerdicts
<1>2. ASSUME NEW i \in Verdicts', NEW j \in Verdicts', disk_tx'[i].piece = disk_tx'[j].piece
      PROVE  i = j
  <2>1. i + 1 = j + 1
    BY <1>1, <1>2 DEF Pipeline, VerifyOnce
  <2> QED
    BY <1>1, <2>1
<1>3. ASSUME NEW i \in DOMAIN disk_rx', NEW j \in Verdicts'
      PROVE  disk_rx'[i].piece # disk_tx'[j].piece
  BY <1>1 DEF Pipeline, VerifyOnce
<1> QED
  BY <1>2, <1>3

LEMMA ResponsesPipeline ==
  ASSUME Typed, Pipeline, ParseCompletedPieces \/ OnCompletePiece \/ HandleFailure
  PROVE  Pipeline'
<1>0. DOMAIN pieces = Piece /\ \A p \in Piece : pieces[p] \in BufferType(p)
  BY DEF Typed, TypeOK, PiecesType
<1>1. PICK type : TakeResponse(type) /\ UNCHANGED disk_rx
  BY DEF ParseCompletedPieces, OnCompletePiece, HandleFailure
<1>2. SUFFICES /\ \A q \in Piece : Submitted(q)' => pieces'[q].complete
               /\ \A q \in Piece : BufferConsistent(pieces'[q])
  <2>1. \A i, j \in DOMAIN disk_rx' : disk_rx'[i].piece = disk_rx'[j].piece => i = j
    BY <1>1 DEF Pipeline, VerifyOnce
  <2>2. \A i \in DOMAIN disk_rx' : disk_rx'[i].data = Block(disk_rx'[i].piece)
    BY <1>1 DEF Pipeline, WholePieceToDisk
  <2> QED
    BY <1>1, <2>1, <2>2, TakenOnce DEF Pipeline, VerifyOnce, WholePieceToDisk
<1>3. CASE ParseCompletedPieces
  <2>1. ASSUME NEW q \in Piece
        PROVE  /\ pieces[q].complete => pieces'[q].complete
               /\ BufferConsistent(pieces'[q])
    <3>1. pieces'[q] = pieces[q] \/ pieces'[q].complete
      BY <1>0, <1>3 DEF ParseCompletedPieces, BufferType
    <3> QED
      BY <3>1 DEF Pipeline, WholePieceToDisk, BufferConsistent
  <2>2. \A q \in Piece : Submitted(q)' => Submitted(q)
    BY <1>3, SavefileTaken DEF ParseCompletedPieces
  <2> QED
    BY <2>1, <2>2 DEF Pipeline, VerifyOnce
<1>4. CASE OnCompletePiece \/ HandleFailure
  <2> DEFINE p == Head(disk_tx).piece
  <2>1. PICK verdict \in Verdict : TakeResponse(verdict)
    BY <1>4 DEF OnCompletePiece, HandleFailure, Verdict
  <2>2. p \in Piece /\ pieces[p].complete
    BY <1>1, <2>1, VerdictTaken
  <2>3. \A q \in Piece : Submitted(q)' => Submitted(q) /\ q # p
    BY <1>1, <2>1, VerdictTaken
  <2>4. \A q \in Piece \ {p} : pieces'[q] = pieces[q]
    BY <1>0, <1>4 DEF OnCompletePiece, HandleFailure
  <2>5. BufferConsistent(pieces'[p])
    <3>1. CASE OnCompletePiece
      <4>1. pieces'[p] = CompleteAndCleanup(pieces[p])
        BY <1>0, <2>2, <3>1 DEF OnCompletePiece
      <4>2. pieces'[p].complete
        BY <1>0, <2>2, <4>1 DEF CompleteAndCleanup, BufferType
      <4> QED
        BY <4>2 DEF BufferConsistent
    <3>2. CASE HandleFailure
      <4>1. pieces'[p] = EmptyBuffer
        BY <1>0, <2>2, <3>2 DEF HandleFailure, Reset
      <4> QED
        BY <4>1, FS_EmptySet DEF EmptyBuffer, NoBlocks, BufferConsistent
    <3> QED
      BY <1>4, <3>1, <3>2
  <2> HIDE DEF p
  <2> QED
    BY <2>2, <2>3, <2>4, <2>5 DEF Pipeline, VerifyOnce, WholePieceToDisk
<1> QED
  BY <1>3, <1>4

\* A piece moves from the disk task's queue to its verdicts.
LEMMA HashMoves ==
  ASSUME Typed, Pipeline, TryHashAndWrite
  PROVE  /\ \A p \in Piece : Submitted(p)' <=> Submitted(p)
         /\ Pipeline'
<1> DEFINE Message == [piece : Piece, data : SUBSET Nat]
           p == Head(disk_rx).piece
           n == Len(disk_tx) + 1
<1>1. /\ disk_rx \in Seq(Message) /\ disk_rx # <<>> /\ disk_rx' = Tail(disk_rx)
      /\ disk_tx \in Seq(ResponseType)
  BY DEF Typed, TypeOK, DiskType, TryHashAndWrite
<1>2. PICK verdict \in Verdict : disk_tx' = Append(disk_tx, [type |-> verdict, piece |-> p])
  BY DEF TryHashAndWrite, Verdict
<1> DEFINE e == [type |-> verdict, piece |-> p]
<1>3. e.type \in Verdict /\ e.piece = p /\ disk_tx' = Append(disk_tx, e)
  BY <1>2
<1>4. 1 \in DOMAIN disk_rx /\ disk_rx[1].piece = p
  BY <1>1, TailElements
<1>5. \A i \in DOMAIN disk_rx' : i + 1 \in DOMAIN disk_rx /\ i + 1 # 1 /\ disk_rx'[i] = disk_rx[i + 1]
  BY <1>1, TailElements
<1>6. \A i \in DOMAIN disk_rx : i # 1 => i - 1 \in DOMAIN disk_rx' /\ disk_rx'[i - 1] = disk_rx[i]
  BY <1>1, TailElements
<1> HIDE DEF e
<1>7. ASSUME NEW i \in DOMAIN disk_tx'
      PROVE  \/ i \in DOMAIN disk_tx /\ disk_tx'[i] = disk_tx[i]
             \/ i = n /\ disk_tx'[i] = e
  BY <1>1, <1>3, AppendElements
<1>8. /\ \A i \in DOMAIN disk_tx : i \in DOMAIN disk_tx' /\ disk_tx'[i] = disk_tx[i]
      /\ n \in DOMAIN disk_tx' /\ disk_tx'[n] = e
  BY <1>1, <1>3, AppendElements
<1>9. UNCHANGED pieces
  BY DEF TryHashAndWrite
<1> HIDE DEF p, n, Message
<1>10. /\ \A i \in Verdicts' : (i \in Verdicts /\ disk_tx'[i] = disk_tx[i]) \/ (i = n /\ disk_tx'[i] = e)
       /\ \A i \in Verdicts : i \in Verdicts' /\ disk_tx'[i] = disk_tx[i]
       /\ n \in Verdicts' /\ disk_tx'[n].piece = p
  <2>1. ASSUME NEW i \in Verdicts'
        PROVE  (i \in Verdicts /\ disk_tx'[i] = disk_tx[i]) \/ (i = n /\ disk_tx'[i] = e)
    <3>1. i \in DOMAIN disk_tx' /\ disk_tx'[i].type \in Verdict
      BY DEF Verdicts
    <3>2. CASE i \in DOMAIN disk_tx /\ disk_tx'[i] = disk_tx[i]
      BY <3>1, <3>2 DEF Verdicts
    <3>3. CASE i = n /\ disk_tx'[i] = e
      BY <3>3
    <3> QED
      BY <1>7, <3>1, <3>2, <3>3
  <2>2. ASSUME NEW i \in Verdicts PROVE i \in Verdicts' /\ disk_tx'[i] = disk_tx[i]
    BY <1>8 DEF Verdicts
  <2>3. n \in Verdicts' /\ disk_tx'[n].piece = p
    BY <1>3, <1>8 DEF Verdicts
  <2> QED
    BY <2>1, <2>2, <2>3
<1>11. \A i \in DOMAIN disk_rx' : disk_rx'[i].piece # p
  BY <1>4, <1>5 DEF Pipeline, VerifyOnce
<1>12. \A i \in Verdicts : disk_tx[i].piece # p
  BY <1>4 DEF Pipeline, VerifyOnce
<1>13. ASSUME NEW q \in Piece PROVE Submitted(q)' <=> Submitted(q)
  <2>1. ASSUME Submitted(q)' PROVE Submitted(q)
    BY <1>3, <1>4, <1>5, <1>10, <2>1 DEF Submitted
  <2>2. ASSUME Submitted(q) PROVE Submitted(q)'
    <3>1. CASE q = p
      BY <1>10, <3>1 DEF Submitted
    <3>2. CASE q # p /\ \E i \in DOMAIN disk_rx : disk_rx[i].piece = q
      <4>1. PICK i \in DOMAIN disk_rx : disk_rx[i].piece = q
        BY <3>2
      <4>2. i - 1 \in DOMAIN disk_rx' /\ disk_rx'[i - 1].piece = q
        BY <1>4, <1>6, <3>2, <4>1
      <4> QED
        BY <4>2 DEF Submitted
    <3>3. CASE \E i \in Verdicts : disk_tx[i].piece = q
      BY <1>10, <3>3 DEF Submitted
    <3> QED
      BY <2>2, <3>1, <3>2, <3>3 DEF Submitted
  <2> QED
    BY <2>1, <2>2
<1>14. VerifyOnce'
  <2>1. ASSUME NEW i \in DOMAIN disk_rx', NEW j \in DOMAIN disk_rx', disk_rx'[i].piece = disk_rx'[j].piece
        PROVE  i = j
    <3>1. i \in Nat /\ j \in Nat
      BY <1>1, TailElements DEF Message
    <3>2. i + 1 = j + 1
      BY <1>5, <2>1 DEF Pipeline, VerifyOnce
    <3> QED
      BY <3>1, <3>2
  <2>2. ASSUME NEW i \in Verdicts', NEW j \in Verdicts', disk_tx'[i].piece = disk_tx'[j].piece
        PROVE  i = j
    <3>1. CASE i \in Verdicts /\ j \in Verdicts
      BY <1>10, <2>2, <3>1 DEF Pipeline, VerifyOnce
    <3>2. CASE i = n \/ j = n
      BY <1>3, <1>10, <1>12, <2>2, <3>2
    <3> QED
      BY <1>10, <3>1, <3>2
  <2>3. ASSUME NEW i \in DOMAIN disk_rx', NEW j \in Verdicts'
        PROVE  disk_rx'[i].piece # disk_tx'[j].piece
    <3>1. CASE j \in Verdicts /\ disk_tx'[j] = disk_tx[j]
      BY <1>5, <3>1 DEF Pipeline, VerifyOnce
    <3>2. CASE j = n /\ disk_tx'[j] = e
      BY <1>3, <1>11, <3>2
    <3> QED
      BY <1>10, <3>1, <3>2
  <2>4. \A q \in Piece : Submitted(q)' => pieces'[q].complete
    BY <1>9, <1>13 DEF Pipeline, VerifyOnce
  <2> QED
    BY <2>1, <2>2, <2>3, <2>4 DEF VerifyOnce
<1>15. WholePieceToDisk'
  BY <1>5, <1>9 DEF Pipeline, WholePieceToDisk
<1> QED
  BY <1>13, <1>14, <1>15 DEF Pipeline

\* The savefile's list is no verdict.
LEMMA SavefileReadMoves ==
  ASSUME Typed, Pipeline, ReadSavefile
  PROVE  /\ \A p \in Piece : Submitted(p)' <=> Submitted(p)
         /\ Pipeline'
<1> DEFINE e == [type |-> "CompletedPieces", bits |-> Resumed]
<1>1. disk_tx \in Seq(ResponseType) /\ disk_tx' = Append(disk_tx, e) /\ UNCHANGED <<disk_rx, pieces>>
  BY DEF Typed, TypeOK, DiskType, ReadSavefile
<1>2. e.type \notin Verdict
  BY DEF Verdict
<1> HIDE DEF e
<1>3. Verdicts' = Verdicts /\ \A i \in Verdicts : disk_tx'[i] = disk_tx[i]
  BY <1>1, <1>2, AppendElements DEF Verdicts
<1>4. \A p \in Piece : Submitted(p)' <=> Submitted(p)
  BY <1>1, <1>3 DEF Submitted
<1>5. VerifyOnce'
  <2>1. \A p \in Piece : Submitted(p)' => pieces'[p].complete
    BY <1>1, <1>4 DEF Pipeline, VerifyOnce
  <2>2. \A i, j \in DOMAIN disk_rx' : disk_rx'[i].piece = disk_rx'[j].piece => i = j
    BY <1>1 DEF Pipeline, VerifyOnce
  <2>3. \A i, j \in Verdicts' : disk_tx'[i].piece = disk_tx'[j].piece => i = j
    BY <1>3 DEF Pipeline, VerifyOnce
  <2>4. ASSUME NEW i \in DOMAIN disk_rx', NEW j \in Verdicts'
        PROVE  disk_rx'[i].piece # disk_tx'[j].piece
    <3>1. i \in DOMAIN disk_rx /\ disk_rx' = disk_rx /\ j \in Verdicts /\ disk_tx'[j] = disk_tx[j]
      BY <1>1, <1>3
    <3> QED
      BY <3>1 DEF Pipeline, VerifyOnce
  <2> QED
    BY <2>1, <2>2, <2>3, <2>4 DEF VerifyOnce
<1>6. WholePieceToDisk'
  BY <1>1 DEF Pipeline, WholePieceToDisk
<1> QED
  BY <1>4, <1>5, <1>6 DEF Pipeline

-----------------------------------------------------------------------------
(***************************************************************************)
(* The invariant holds.                                                    *)
(***************************************************************************)
LEMMA StepKinds ==
  ASSUME Typed, [Next]_vars
  PROVE  \/ Quiet
         \/ \E p \in Piece : Submits(p)
         \/ ParseCompletedPieces \/ OnCompletePiece \/ HandleFailure
         \/ TryHashAndWrite \/ ReadSavefile
<1>1. CASE \E s \in Slot : HandleData(s) \/ HandleMisfit(s)
  BY <1>1, DataStep
<1>2. CASE ParseCompletedPieces \/ OnCompletePiece \/ HandleFailure \/ DiskNext
  BY <1>2 DEF DiskNext
<1> QED
  BY <1>1, <1>2, QuietSteps DEF Next, SchedulerNext, HandlePeerEvent, HandleResponse

LEMMA NextPipeline ==
  ASSUME Typed, Pipeline, [Next]_vars
  PROVE  Pipeline'
BY StepKinds, QuietPipeline, SubmitPipeline, ResponsesPipeline, HashMoves, SavefileReadMoves

LEMMA PipelineHolds == Spec => [](Typed /\ Pipeline)
<1>1. Typed /\ Pipeline /\ [Next]_vars => Typed' /\ Pipeline'
  BY NextTyped, NextPipeline
<1> QED
  BY <1>1, InitTyped, InitPipeline, PTL DEF Spec

\* A piece is with the disk task at most once, and is not asked for meanwhile.
THEOREM VerifiedOnce == Spec => []VerifyOnce
<1>1. Pipeline => VerifyOnce
  BY DEF Pipeline
<1> QED
  BY <1>1, PipelineHolds, PTL

\* What is handed to the disk task is a whole piece, whatever failed or came twice
\* before.
THEOREM OnlyWholePiecesToDisk == Spec => []WholePieceToDisk
<1>1. Pipeline => WholePieceToDisk
  BY DEF Pipeline
<1> QED
  BY <1>1, PipelineHolds, PTL

\* The first step of a piece after it is done keeps it complete.
LEMMA DoneStays ==
  ASSUME Typed, Pipeline, [Next]_vars, NEW p \in Piece, Done(p)
  PROVE  pieces'[p].complete
<1>0. DOMAIN pieces = Piece /\ \A q \in Piece : pieces[q] \in BufferType(q)
  BY DEF Typed, TypeOK, PiecesType
<1>1. pieces[p].complete /\ ~Submitted(p)
  BY DEF Done
<1>2. CASE Quiet \/ (\E q \in Piece : Submits(q)) \/ TryHashAndWrite \/ ReadSavefile
  BY <1>1, <1>2 DEF Quiet, Submits, Undisturbed, TryHashAndWrite, ReadSavefile
<1>3. CASE ParseCompletedPieces
  BY <1>0, <1>1, <1>3 DEF ParseCompletedPieces, BufferType
<1>4. CASE OnCompletePiece \/ HandleFailure
  <2>1. PICK verdict \in Verdict : TakeResponse(verdict) /\ UNCHANGED disk_rx
    BY <1>4 DEF OnCompletePiece, HandleFailure, Verdict
  <2>2. p # Head(disk_tx).piece
    BY <1>1, <2>1, VerdictTaken
  <2>3. pieces'[p] = pieces[p]
    BY <1>0, <1>4, <2>2 DEF OnCompletePiece, HandleFailure
  <2> QED
    BY <1>1, <2>3
<1> QED
  BY <1>2, <1>3, <1>4, StepKinds

\* A piece that has been verified, or resumed, is never started again.
THEOREM HavingIsFinal == Spec => DoneIsFinal
<1>1. Typed /\ Pipeline /\ [Next]_vars
        => [\A p \in Piece : Done(p) => pieces'[p].complete]_vars
  BY DoneStays
<1> QED
  BY <1>1, PipelineHolds, PTL DEF Spec, DoneIsFinal

-----------------------------------------------------------------------------
(***************************************************************************)
(* Refinement.                                                             *)
(***************************************************************************)
\* The savefile's list is the first response of all.
SavefileFirst ==
  /\ disk = "starting" => disk_tx = <<>>
  /\ \A i \in DOMAIN disk_tx : disk_tx[i].type = "CompletedPieces" => i = 1

LEMMA InitSavefileFirst == Init => SavefileFirst
  BY DEF Init, SavefileFirst

LEMMA NextSavefileFirst ==
  ASSUME Typed, SavefileFirst, [Next]_vars
  PROVE  SavefileFirst'
<1>1. disk_tx \in Seq(ResponseType)
  BY DEF Typed, TypeOK, DiskType
<1>2. CASE Quiet \/ \E p \in Piece : Submits(p)
  BY <1>2 DEF Quiet, Submits, SavefileFirst
<1>3. CASE ParseCompletedPieces \/ OnCompletePiece \/ HandleFailure
  <2>1. PICK type : TakeResponse(type)
    BY <1>3 DEF ParseCompletedPieces, OnCompletePiece, HandleFailure
  <2>2. UNCHANGED disk /\ disk # "starting"
    BY <1>3, <2>1 DEF ParseCompletedPieces, OnCompletePiece, HandleFailure, TakeResponse, SavefileFirst
  <2>3. \A i \in DOMAIN disk_tx' : disk_tx'[i].type # "CompletedPieces"
    BY <2>1, TakenVerdicts DEF SavefileFirst
  <2> QED
    BY <2>2, <2>3 DEF SavefileFirst
<1>4. CASE TryHashAndWrite
  <2>1. PICK verdict \in Verdict :
          disk_tx' = Append(disk_tx, [type |-> verdict, piece |-> Head(disk_rx).piece])
    BY <1>4 DEF TryHashAndWrite, Verdict
  <2> DEFINE e == [type |-> verdict, piece |-> Head(disk_rx).piece]
  <2>2. e.type # "CompletedPieces"
    BY DEF Verdict
  <2>3. disk' = "ready"
    BY <1>4 DEF TryHashAndWrite
  <2> HIDE DEF e
  <2>4. disk_tx' = Append(disk_tx, e)
    BY <2>1 DEF e
  <2>5. ASSUME NEW i \in DOMAIN disk_tx', disk_tx'[i].type = "CompletedPieces" PROVE i = 1
    BY <1>1, <2>2, <2>4, <2>5, AppendElements DEF SavefileFirst
  <2> QED
    BY <2>3, <2>5 DEF SavefileFirst
<1>5. CASE ReadSavefile
  BY <1>5 DEF ReadSavefile, SavefileFirst
<1> QED
  BY <1>2, <1>3, <1>4, <1>5, StepKinds

\* Being submitted and being complete determine a piece's abstract state.
LEMMA StateKept ==
  ASSUME NEW q \in Piece, Submitted(q)' <=> Submitted(q),
         pieces'[q].complete = pieces[q].complete
  PROVE  StateOf(q)' = StateOf(q)
BY DEF StateOf, Done

LEMMA SubmittedVerifies ==
  ASSUME NEW q \in Piece, Submitted(q)
  PROVE  StateOf(q) = "verifying"
BY DEF StateOf, Done

\* Handing a piece over makes it, and it alone, submitted.
LEMMA SubmittedMore ==
  ASSUME Typed, NEW p \in Piece, Submits(p), NEW q \in Piece
  PROVE  Submitted(q)' <=> Submitted(q) \/ q = p
<1>1. PICK data \in SUBSET Nat : disk_rx' = Append(disk_rx, [piece |-> p, data |-> data])
  BY DEF Submits
<1> DEFINE e == [piece |-> p, data |-> data]
<1>2. e.piece = p /\ disk_rx' = Append(disk_rx, e)
  BY <1>1
<1> HIDE DEF e
<1>3. disk_rx \in Seq([piece : Piece, data : SUBSET Nat])
  BY DEF Typed, TypeOK, DiskType
<1>4. UNCHANGED disk_tx /\ Verdicts' = Verdicts
  BY DEF Submits, Verdicts
<1>5. \A i \in DOMAIN disk_rx' :
        \/ i \in DOMAIN disk_rx /\ disk_rx'[i] = disk_rx[i]
        \/ disk_rx'[i] = e
  BY <1>2, <1>3, AppendElements
<1>6. /\ \A i \in DOMAIN disk_rx : i \in DOMAIN disk_rx' /\ disk_rx'[i] = disk_rx[i]
      /\ Len(disk_rx) + 1 \in DOMAIN disk_rx' /\ disk_rx'[Len(disk_rx) + 1] = e
  BY <1>2, <1>3, AppendElements
<1> QED
  BY <1>2, <1>4, <1>5, <1>6 DEF Submitted

\* Initially every piece is missing and the savefile unread.
LEMMA InitRefines == Init => D!Init
<1> SUFFICES ASSUME Init PROVE D!Init
  OBVIOUS
<1>1. ASSUME NEW p \in Piece PROVE StateOf(p) = "missing"
  BY DEF Init, EmptyBuffer, StateOf, Submitted, Done, Verdicts
<1>2. ~SavefileHandled /\ completed_pieces = 0
  BY DEF Init, SavefileHandled
<1> QED
  BY <1>1, <1>2 DEF D!Init

\* Every step maps to a step of Download or to a stutter.
LEMMA NextRefines ==
  ASSUME Typed, Pipeline, SavefileFirst, [Next]_vars
  PROVE  [D!Next]_(D!vars)
<1>0. DOMAIN pieces = Piece /\ \A q \in Piece : pieces[q] \in BufferType(q)
  BY DEF Typed, TypeOK, PiecesType
<1>1. CASE Quiet
  <2>1. \A q \in Piece : StateOf(q)' = StateOf(q)
    BY <1>1, StateKept DEF Quiet, Undisturbed, Submitted, Verdicts
  <2>2. (SavefileHandled' <=> SavefileHandled) /\ completed_pieces' = completed_pieces
    BY <1>1 DEF Quiet, SavefileHandled
  <2> QED
    BY <2>1, <2>2 DEF D!vars
<1>2. CASE \E p \in Piece : Submits(p)
  <2>1. PICK p \in Piece : Submits(p)
    BY <1>2
  <2>2. StateOf(p) = "missing" /\ StateOf(p)' = "verifying"
    <3>1. ~Submitted(p) /\ ~pieces[p].complete
      BY <2>1 DEF Submits, Pipeline, VerifyOnce
    <3>2. Submitted(p)'
      BY <2>1, SubmittedMore
    <3> QED
      BY <3>1, <3>2 DEF StateOf, Done
  <2>3. \A q \in Piece \ {p} : StateOf(q)' = StateOf(q)
    BY <2>1, SubmittedMore, StateKept DEF Submits, Undisturbed
  <2>4. (SavefileHandled' <=> SavefileHandled) /\ completed_pieces' = completed_pieces
    BY <2>1 DEF Submits, SavefileHandled
  <2>5. D!Submit(p)
    BY <2>2, <2>3, <2>4 DEF D!Submit
  <2> QED
    BY <2>5 DEF D!Next
<1>3. CASE ParseCompletedPieces
  <2>1. TakeResponse("CompletedPieces") /\ UNCHANGED <<disk, disk_rx>>
    BY <1>3 DEF ParseCompletedPieces
  <2>2. Head(disk_tx) = disk_tx[1] /\ 1 \in DOMAIN disk_tx
    BY <2>1, TakenVerdicts
  <2>3. PICK saved \in SUBSET Piece : saved = Head(disk_tx).bits
    BY <2>1, TakenVerdicts DEF ResponseType, Verdict
  <2>4. ~SavefileHandled /\ SavefileHandled'
    <3>1. disk_tx[1].type = "CompletedPieces" /\ disk = "ready"
      BY <2>1, TakenVerdicts DEF SavefileFirst, Typed, TypeOK, DiskType
    <3>2. \A i \in DOMAIN disk_tx' : disk_tx'[i].type # "CompletedPieces"
      BY <2>1, TakenVerdicts DEF SavefileFirst
    <3> QED
      BY <2>1, <2>2, <3>1, <3>2 DEF SavefileHandled
  <2>5. completed_pieces' = completed_pieces + Cardinality(saved)
    BY <1>3, <2>3 DEF ParseCompletedPieces
  <2>6. ASSUME NEW q \in Piece
        PROVE  StateOf(q)' = IF q \in saved /\ StateOf(q) = "missing" THEN "have" ELSE StateOf(q)
    <3>1. Submitted(q)' <=> Submitted(q)
      BY <2>1, SavefileTaken
    <3>2. pieces'[q].complete <=> pieces[q].complete \/ q \in saved
      BY <1>0, <1>3, <2>3 DEF ParseCompletedPieces, BufferType
    <3> QED
      BY <3>1, <3>2 DEF StateOf, Done
  <2>7. D!Resume(saved)
    <3>1. ~SavefileHandled /\ (SavefileHandled = TRUE)'
      BY <2>4
    <3>2. [q \in Piece |-> StateOf(q)]'
            = [q \in Piece |-> IF q \in saved /\ [r \in Piece |-> StateOf(r)][q] = "missing"
                               THEN "have" ELSE [r \in Piece |-> StateOf(r)][q]]
      BY <2>6
    <3>3. D!Cardinality(saved) = Cardinality(saved)
      BY DEF D!Cardinality, Cardinality
    <3> QED
      BY <2>5, <3>1, <3>2, <3>3 DEF D!Resume
  <2> QED
    BY <2>7 DEF D!Next
<1>4. CASE OnCompletePiece \/ HandleFailure
  <2>1. PICK verdict \in Verdict : TakeResponse(verdict) /\ UNCHANGED <<disk, disk_rx>>
    BY <1>4 DEF OnCompletePiece, HandleFailure, Verdict
  <2>2. PICK p \in Piece : p = Head(disk_tx).piece
    BY <2>1, VerdictTaken
  <2>3. Submitted(p) /\ \A q \in Piece : Submitted(q)' <=> Submitted(q) /\ q # p
    BY <2>1, <2>2, VerdictTaken
  <2>4. SavefileHandled /\ SavefileHandled'
    <3>1. disk = "ready"
      BY <2>1 DEF TakeResponse, SavefileFirst, Typed, TypeOK, DiskType
    <3>2. \A i \in DOMAIN disk_tx : disk_tx[i].type # "CompletedPieces"
      BY <2>1, TakenVerdicts DEF SavefileFirst, Verdict
    <3>3. \A i \in DOMAIN disk_tx' : disk_tx'[i].type # "CompletedPieces"
      BY <2>1, <3>2, TakenVerdicts
    <3> QED
      BY <2>1, <3>1, <3>2, <3>3 DEF SavefileHandled
  <2>5. \A q \in Piece \ {p} : StateOf(q)' = StateOf(q)
    <3>1. \A q \in Piece \ {p} : pieces'[q] = pieces[q]
      BY <1>0, <1>4, <2>2 DEF OnCompletePiece, HandleFailure
    <3> QED
      BY <2>3, <3>1, StateKept
  <2>6. StateOf(p) = "verifying"
    BY <2>3, SubmittedVerifies
  <2>7. CASE OnCompletePiece
    <3>1. pieces'[p] = CompleteAndCleanup(pieces[p]) /\ completed_pieces' = completed_pieces + 1
      BY <1>0, <2>7, <2>2 DEF OnCompletePiece
    <3>2. pieces[p].complete
      BY <2>3 DEF Pipeline, VerifyOnce
    <3>3. pieces'[p].complete
      BY <1>0, <3>1, <3>2 DEF CompleteAndCleanup, BufferType
    <3>4. StateOf(p)' = "have"
      BY <2>3, <3>3 DEF StateOf, Done
    <3>5. D!Confirm(p)
      BY <2>3, <2>4, <2>5, <2>6, <3>1, <3>4 DEF D!Confirm
    <3> QED
      BY <3>5 DEF D!Next
  <2>8. CASE HandleFailure
    <3>1. pieces'[p] = EmptyBuffer /\ completed_pieces' = completed_pieces
      BY <1>0, <2>8, <2>2 DEF HandleFailure, Reset
    <3>2. ~pieces'[p].complete
      BY <3>1 DEF EmptyBuffer
    <3>3. StateOf(p)' = "missing"
      BY <2>3, <3>2 DEF StateOf, Done
    <3>4. D!Reject(p)
      BY <2>3, <2>4, <2>5, <2>6, <3>1, <3>3 DEF D!Reject
    <3> QED
      BY <3>4 DEF D!Next
  <2> QED
    BY <1>4, <2>7, <2>8
<1>5. CASE TryHashAndWrite \/ ReadSavefile
  <2>1. UNCHANGED <<pieces, completed_pieces>>
    BY <1>5 DEF TryHashAndWrite, ReadSavefile
  <2>2. \A q \in Piece : StateOf(q)' = StateOf(q)
    BY <1>5, <2>1, HashMoves, SavefileReadMoves, StateKept
  <2>3. SavefileHandled' <=> SavefileHandled
    <3>1. disk_tx \in Seq(ResponseType)
      BY DEF Typed, TypeOK, DiskType
    <3>2. CASE ReadSavefile
      <4> DEFINE e == [type |-> "CompletedPieces", bits |-> Resumed]
      <4>1. disk = "starting" /\ disk_tx' = Append(disk_tx, e) /\ e.type = "CompletedPieces"
        BY <3>2 DEF ReadSavefile
      <4> HIDE DEF e
      <4>2. Len(disk_tx) + 1 \in DOMAIN disk_tx' /\ disk_tx'[Len(disk_tx) + 1].type = "CompletedPieces"
        BY <3>1, <4>1, AppendElements
      <4> QED
        BY <4>1, <4>2 DEF SavefileHandled
    <3>3. CASE TryHashAndWrite
      <4>1. PICK verdict \in Verdict :
              disk_tx' = Append(disk_tx, [type |-> verdict, piece |-> Head(disk_rx).piece])
        BY <3>3 DEF TryHashAndWrite, Verdict
      <4> DEFINE e == [type |-> verdict, piece |-> Head(disk_rx).piece]
      <4>2. disk_tx' = Append(disk_tx, e) /\ e.type # "CompletedPieces" /\ disk = "ready" /\ UNCHANGED disk
        BY <3>3, <4>1 DEF TryHashAndWrite, Verdict
      <4> HIDE DEF e
      <4>3. /\ \A i \in DOMAIN disk_tx' :
                 \/ i \in DOMAIN disk_tx /\ disk_tx'[i] = disk_tx[i]
                 \/ disk_tx'[i] = e
            /\ \A i \in DOMAIN disk_tx : i \in DOMAIN disk_tx' /\ disk_tx'[i] = disk_tx[i]
        BY <3>1, <4>2, AppendElements
      <4> QED
        BY <4>2, <4>3 DEF SavefileHandled
    <3> QED
      BY <1>5, <3>2, <3>3
  <2> QED
    BY <2>1, <2>2, <2>3 DEF D!vars
<1> QED
  BY <1>1, <1>2, <1>3, <1>4, <1>5, StepKinds

\* Scheduler, disk task and peers together implement the abstract download.
THEOREM DownloadImplemented == Spec => ImplementsDownload
<1>1. SavefileFirst /\ Typed /\ [Next]_vars => SavefileFirst'
  BY NextSavefileFirst
<1>2. Spec => []SavefileFirst
  BY <1>1, InitSavefileFirst, PipelineHolds, PTL DEF Spec
<1>3. Typed /\ Pipeline /\ SavefileFirst /\ [Next]_vars => [D!Next]_(D!vars)
  BY NextRefines
<1> QED
  BY <1>2, <1>3, InitRefines, PipelineHolds, PTL DEF Spec, ImplementsDownload, D!Spec
=============================================================================
