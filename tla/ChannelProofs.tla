----------------------------- MODULE ChannelProofs ----------------------------
(* For any number of peers and any capacities: no channel holds more than it *)
(* can, and a torrent with few enough pieces cannot make scheduler and disk  *)
(* task wait for each other.                                                 *)
EXTENDS Channels, TLAPS

(* The part of TypeOK the count rests on. *)
CountTyped ==
    /\ handing \in 0..1 /\ missing \in 0..NumPieces
    /\ disk \in {"starting", "idle", "working", "dead"} /\ resumed \in {"no", "yes"}
    /\ disk_event \in 0..DISK_EVENT /\ disk_response \in 0..DISK_RESPONSE

(* Where the pieces are: missing, in the scheduler's hand, on their way to   *)
(* the disk task, with it, or among its answers.  One answer is about none   *)
(* of them: CompletedPieces, from the task's start until the scheduler has   *)
(* taken it.                                                                 *)
Pieces ==
    missing + handing + disk_event + disk_response + (IF disk = "working" THEN 1 ELSE 0)
        <= NumPieces + (IF disk # "starting" /\ resumed = "no" THEN 1 ELSE 0)

SavefileFirst == disk = "starting" => resumed = "no" /\ disk_response = 0

Counted == CountTyped /\ Pieces /\ SavefileFirst

counted == <<handing, missing, disk, disk_event, disk_response, resumed>>

LEMMA InitCounted == Init => Counted
BY ChannelsAssumption DEF ChannelsAssumption, Init, Counted, CountTyped, Pieces, SavefileFirst

LEMMA StutterCounted == Counted /\ UNCHANGED counted => Counted'
BY DEF counted, Counted, CountTyped, Pieces, SavefileFirst

(* The arithmetic of taking the savefile's list. *)
LEMMA TakenFromBoth ==
  ASSUME NEW m \in Nat, NEW m1 \in Nat, NEW h \in Nat, NEW e \in Nat, NEW d \in Nat, NEW w \in Nat,
         NEW n \in Nat, m1 <= m, m + h + e + d + w <= n + 1
  PROVE  m1 + h + e + (d - 1) + w <= n
OBVIOUS

(* What moves pieces, of the scheduler's steps: a block that completes one,  *)
(* the disk task's answers, and handing over.                                *)
LEMMA SchedulerKeepsCount == Counted /\ SchedulerNext => Counted'
<1> SUFFICES ASSUME Counted, SchedulerNext PROVE Counted'
  OBVIOUS
<1> USE DEF handlerVars, peerVars, diskVars
<1>1. CASE DedupAndStartPeers \/ AddIncomingPeer
  BY <1>1, StutterCounted DEF DedupAndStartPeers, AddIncomingPeer, Returned, counted
<1>2. ASSUME NEW p \in Peers, HandleConnect(p) \/ HandleEnd(p) \/ HandleMessage(p) PROVE Counted'
  BY <1>2, StutterCounted DEF HandleConnect, HandleEnd, HandleMessage, TakePeerEvent, counted
<1>3. ASSUME NEW p \in Peers, HandleData(p) PROVE Counted'
  <2>1. /\ handing = 0 /\ UNCHANGED <<disk, disk_event, disk_response, resumed>>
        /\ \/ handing' = 1 /\ missing > 0 /\ missing' = missing - 1
           \/ UNCHANGED <<handing, missing>>
    BY <1>3 DEF HandleData, Submit, TakePeerEvent, Returned
  <2>2. CASE UNCHANGED <<handing, missing>>
    BY <2>1, <2>2, StutterCounted DEF counted
  <2>3. CASE handing' = 1 /\ missing > 0 /\ missing' = missing - 1
    <3>1. NumPieces \in Nat /\ missing \in 0..NumPieces /\ disk_event \in Nat /\ disk_response \in Nat
      BY ChannelsAssumption DEF ChannelsAssumption, Counted, CountTyped
    <3>2. CountTyped' /\ SavefileFirst'
      BY <2>1, <2>3, <3>1 DEF Counted, CountTyped, SavefileFirst
    <3>3. missing' + handing' = missing + handing
      BY <2>1, <2>3, <3>1
    <3>4. Pieces'
      BY <2>1, <2>3, <3>1, <3>3 DEF Counted, Pieces
    <3> QED  BY <3>2, <3>4 DEF Counted
  <2> QED  BY <2>1, <2>2, <2>3
<1>4. CASE ParseCompletedPieces
  <2>1. /\ disk # "starting" /\ resumed = "no" /\ resumed' = "yes"
        /\ disk_response' = disk_response - 1 /\ disk_response > 0
        /\ missing' \in 0..missing
        /\ handing' = handing /\ disk' = disk /\ disk_event' = disk_event
    BY <1>4, ChannelsAssumption DEF ChannelsAssumption, ParseCompletedPieces, TakeResponse,
      Counted, CountTyped, SavefileFirst
  <2>2. /\ NumPieces \in Nat /\ missing \in Nat /\ handing \in Nat /\ disk_event \in Nat
        /\ disk_response \in Nat
    BY ChannelsAssumption DEF ChannelsAssumption, Counted, CountTyped
  <2>3. missing' \in Nat /\ missing' <= missing
    BY <2>1, <2>2
  <2>4. CountTyped' /\ SavefileFirst'
    BY <2>1, ChannelsAssumption DEF ChannelsAssumption, Counted, CountTyped, SavefileFirst
  <2> DEFINE working == IF disk = "working" THEN 1 ELSE 0
  <2>5. working \in Nat /\ missing + handing + disk_event + disk_response + working <= NumPieces + 1
    BY <2>1, <2>2 DEF Counted, Pieces
  <2>6. missing' + handing + disk_event + (disk_response - 1) + working <= NumPieces
    <3> HIDE DEF working
    <3> QED  BY <2>1, <2>2, <2>3, <2>5, TakenFromBoth
  <2>7. (IF disk' # "starting" /\ resumed' = "no" THEN 1 ELSE 0) = 0 /\ NumPieces + 0 = NumPieces
    BY <2>1, <2>2
  <2>8. Pieces'
    BY <2>1, <2>6, <2>7 DEF Pieces
  <2> QED  BY <2>4, <2>8 DEF Counted
<1>5. CASE OnCompletePiece \/ HandleFailure
  BY <1>5, ChannelsAssumption DEF ChannelsAssumption, OnCompletePiece, HandleFailure, TakeResponse,
    Counted, CountTyped, Pieces, SavefileFirst
<1>6. CASE SendToDisk
  BY <1>6, ChannelsAssumption DEF ChannelsAssumption, SendToDisk, Counted, CountTyped, Pieces, SavefileFirst
<1>7. CASE SendToSelf \/ \E p \in Peers : SendToPeer(p)
  BY <1>7, StutterCounted DEF SendToSelf, SendToPeer, counted
<1> QED
  BY <1>1, <1>2, <1>3, <1>4, <1>5, <1>6, <1>7
  DEF SchedulerNext, HandlePeerEvent, HandleSchedulerEvent, HandleResponse, SchedulerSends

LEMMA DiskKeepsCount == Counted /\ DiskNext => Counted'
<1> USE ChannelsAssumption DEF ChannelsAssumption, Counted, CountTyped, Pieces, SavefileFirst, handlerVars, peerVars
<1>1. Counted /\ DiskTakes => Counted'
  BY DEF DiskTakes
<1>2. Counted /\ DiskAnswers => Counted'
  BY DEF DiskAnswers
<1>3. Counted /\ DiskPanics => Counted'
  BY DEF DiskPanics
<1> QED  BY <1>1, <1>2, <1>3 DEF DiskNext

(* Peers and session move no piece. *)
LEMMA OthersKeepCount ==
  ASSUME Counted,
         (\E p \in Peers : PeerNext(p)) \/ \E p \in Incoming \cup {Nobody} : SessionSends(p)
  PROVE  Counted'
BY StutterCounted
  DEF PeerNext, DialEnds, HandshakeDone, ReadMessage, ReaderSends, WriterTakes, WriterWrites,
    HandshakeFails, TaskEnds, TaskReports, RemoteHangs, SessionSends, rest, handlerVars, diskVars, counted

THEOREM CountInvariant == Spec => []Counted
<1>1. Counted /\ [Next]_vars => Counted'
  <2> SUFFICES ASSUME Counted, [Next]_vars PROVE Counted'
    OBVIOUS
  <2>1. CASE UNCHANGED vars
    BY <2>1, StutterCounted DEF vars, handlerVars, diskVars, counted
  <2> QED  BY <2>1, SchedulerKeepsCount, DiskKeepsCount, OthersKeepCount DEF Next
<1> QED  BY <1>1, InitCounted, PTL DEF Spec

(* When the torrent has no more pieces than the channels to and from the     *)
(* disk task hold together (2000 in the code), submitting a piece            *)
(* (scheduler.rs:504) and answering for one (disk.rs:83) never wait for each *)
(* other: both channels full and a piece on either side are more than there  *)
(* can be.                                                                   *)
THEOREM NeverJammed ==
  ASSUME NumPieces <= DISK_EVENT + DISK_RESPONSE
  PROVE  Spec => []DiskNeverJammed
<1>1. Counted => DiskNeverJammed
  BY ChannelsAssumption DEF ChannelsAssumption, Counted, CountTyped, Pieces, SavefileFirst,
    DiskNeverJammed, SchedulerWaitsForDisk, DiskWaits
<1> QED  BY <1>1, CountInvariant, PTL

------------------------------------------------------------------------------
(* The rest of TypeOK: the scheduler's queues, its handler, and the peers.   *)
QueuesTyped ==
    /\ scheduler_event \in Seq(Peers \cup {Nobody}) /\ Len(scheduler_event) <= SCHEDULER_EVENT
    /\ peer_rx \in Seq(PeerEvent) /\ Len(peer_rx) <= PEER_EVENT

HandlerTyped == joining \in Peers \cup {Nobody} /\ todo \in [Peers -> 0..2]

PeersTyped ==
    /\ conn \in [Peers -> ConnState]
    /\ commands \in [Peers -> 0..PEER_COMMAND]
    /\ sending \subseteq Peers /\ writing \subseteq Peers /\ hung \subseteq Peers

queues == <<scheduler_event, peer_rx>>

LEMMA QueueTaken ==
  ASSUME NEW S, NEW q \in Seq(S), NEW n \in Nat, Len(q) <= n, q # <<>>
  PROVE  Head(q) \in S /\ Tail(q) \in Seq(S) /\ Len(Tail(q)) <= n
OBVIOUS

LEMMA QueueSent ==
  ASSUME NEW S, NEW q \in Seq(S), NEW n \in Nat, Len(q) < n, NEW e \in S
  PROVE  Append(q, e) \in Seq(S) /\ Len(Append(q, e)) <= n
OBVIOUS

(* Every send of an event checks for room, the session's, the scheduler's to *)
(* itself and the peers'.                                                    *)
LEMMA QueuesStep == QueuesTyped /\ HandlerTyped /\ [Next]_vars => QueuesTyped'
<1> SUFFICES ASSUME QueuesTyped, HandlerTyped, [Next]_vars PROVE QueuesTyped'
  OBVIOUS
<1>0. SCHEDULER_EVENT \in Nat /\ PEER_EVENT \in Nat
  BY ChannelsAssumption DEF ChannelsAssumption
<1>1. CASE UNCHANGED queues
  BY <1>1 DEF QueuesTyped, queues
<1>2. ASSUME NEW type \in {"Connect", "ConnectFailed", "Disconnect", "Message"}, NEW p \in Peers,
             Room, Post(type, p), UNCHANGED scheduler_event
      PROVE  QueuesTyped'
  <2>1. <<type, p>> \in PeerEvent
    BY DEF PeerEvent
  <2> QED  BY <1>0, <1>2, <2>1, QueueSent DEF QueuesTyped, Room, Post
<1>3. ASSUME NEW type, NEW p \in Peers, TakePeerEvent(type, p) PROVE QueuesTyped'
  BY <1>0, <1>3, QueueTaken DEF QueuesTyped, TakePeerEvent
<1>4. CASE DedupAndStartPeers \/ AddIncomingPeer
  BY <1>0, <1>4, QueueTaken DEF QueuesTyped, DedupAndStartPeers, AddIncomingPeer
<1>5. ASSUME NEW p \in Incoming \cup {Nobody}, SessionSends(p) PROVE QueuesTyped'
  BY <1>0, <1>5, QueueSent, ChannelsAssumption DEF ChannelsAssumption, QueuesTyped, SessionSends
<1>6. CASE SendToSelf
  BY <1>2, <1>6 DEF SendToSelf, HandlerTyped
<1>7. CASE SchedulerNext
  <2>1. ASSUME NEW p \in Peers, HandleConnect(p) \/ HandleEnd(p) \/ HandleMessage(p) \/ HandleData(p)
        PROVE  QueuesTyped'
    BY <1>3, <2>1 DEF HandleConnect, HandleEnd, HandleMessage, HandleData
  <2>2. CASE HandleResponse \/ SendToDisk \/ \E p \in Peers : SendToPeer(p)
    BY <1>1, <2>2 DEF HandleResponse, ParseCompletedPieces, OnCompletePiece, HandleFailure, TakeResponse,
      SendToDisk, SendToPeer, queues
  <2> QED
    BY <1>4, <1>6, <1>7, <2>1, <2>2 DEF SchedulerNext, HandlePeerEvent, HandleSchedulerEvent, SchedulerSends
<1>8. CASE DiskNext
  BY <1>1, <1>8 DEF DiskNext, DiskTakes, DiskAnswers, DiskPanics, queues
<1>9. ASSUME NEW p \in Peers, PeerNext(p) PROVE QueuesTyped'
  <2>1. CASE DialEnds(p) \/ ReaderSends(p) \/ TaskReports(p)
    BY <1>2, <2>1 DEF DialEnds, ReaderSends, TaskReports, rest
  <2>2. CASE \/ HandshakeDone(p) \/ ReadMessage(p) \/ WriterTakes(p) \/ WriterWrites(p)
             \/ HandshakeFails(p) \/ TaskEnds(p) \/ RemoteHangs(p)
    BY <1>1, <2>2 DEF HandshakeDone, ReadMessage, WriterTakes, WriterWrites, HandshakeFails, TaskEnds,
      RemoteHangs, rest, queues
  <2> QED  BY <1>9, <2>1, <2>2 DEF PeerNext
<1>10. CASE UNCHANGED vars
  BY <1>1, <1>10 DEF vars, queues
<1> QED  BY <1>5, <1>7, <1>8, <1>9, <1>10 DEF Next

(* A handler leaves two commands at most for a peer.                         *)
LEMMA HandlerStep == QueuesTyped /\ HandlerTyped /\ [Next]_vars => HandlerTyped'
<1> SUFFICES ASSUME QueuesTyped, HandlerTyped, [Next]_vars PROVE HandlerTyped'
  OBVIOUS
<1>1. CASE UNCHANGED handlerVars
  BY <1>1 DEF HandlerTyped, handlerVars
<1>2. CASE SchedulerNext
  <2>1. CASE DedupAndStartPeers
    BY <1>1, <2>1 DEF DedupAndStartPeers
  <2>2. CASE AddIncomingPeer
    <3>1. Head(scheduler_event) \in Peers \cup {Nobody}
      BY <2>2, ChannelsAssumption, QueueTaken DEF ChannelsAssumption, QueuesTyped, AddIncomingPeer
    <3> QED  BY <2>2, <3>1 DEF AddIncomingPeer, HandlerTyped
  <2>3. ASSUME NEW p \in Peers, HandleConnect(p) \/ HandleEnd(p) PROVE HandlerTyped'
    BY <2>3 DEF HandleConnect, HandleEnd, TakePeerEvent, HandlerTyped
  <2>4. ASSUME NEW p \in Peers, HandleMessage(p) \/ HandleData(p) PROVE HandlerTyped'
    <3>1. PICK n \in 0..2 : todo' = [todo EXCEPT ![p] = n]
      BY <2>4 DEF HandleMessage, HandleData
    <3> QED  BY <2>4, <3>1 DEF HandleMessage, HandleData, TakePeerEvent, HandlerTyped
  <2>5. CASE HandleResponse
    BY <2>5 DEF HandleResponse, ParseCompletedPieces, OnCompletePiece, HandleFailure, TakeResponse, HandlerTyped
  <2>6. CASE SendToDisk \/ SendToSelf
    BY <2>6 DEF SendToDisk, SendToSelf, HandlerTyped
  <2>7. ASSUME NEW p \in Peers, SendToPeer(p) PROVE HandlerTyped'
    <3>1. todo[p] - 1 \in 0..2
      BY <2>7 DEF SendToPeer, Turn, HandlerTyped
    <3> QED  BY <2>7, <3>1 DEF SendToPeer, HandlerTyped
  <2> QED
    BY <1>2, <2>1, <2>2, <2>3, <2>4, <2>5, <2>6, <2>7
    DEF SchedulerNext, HandlePeerEvent, HandleSchedulerEvent, SchedulerSends
<1>3. CASE DiskNext
  BY <1>1, <1>3 DEF DiskNext, DiskTakes, DiskAnswers, DiskPanics
<1>4. ASSUME NEW p \in Peers, PeerNext(p) PROVE HandlerTyped'
  BY <1>1, <1>4 DEF PeerNext, DialEnds, HandshakeDone, ReadMessage, ReaderSends, WriterTakes, WriterWrites,
    HandshakeFails, TaskEnds, TaskReports, RemoteHangs, rest
<1>5. ASSUME NEW p \in Incoming \cup {Nobody}, SessionSends(p) PROVE HandlerTyped'
  BY <1>1, <1>5 DEF SessionSends
<1>6. CASE UNCHANGED vars
  BY <1>1, <1>6 DEF vars
<1> QED  BY <1>2, <1>3, <1>4, <1>5, <1>6 DEF Next

(* A command channel is emptied by the writer, and filled while there is room.*)
LEMMA PeersStep == QueuesTyped /\ PeersTyped /\ [Next]_vars => PeersTyped'
<1> SUFFICES ASSUME QueuesTyped, PeersTyped, [Next]_vars PROVE PeersTyped'
  OBVIOUS
<1>0. PEER_COMMAND \in Nat /\ SCHEDULER_EVENT \in Nat
  BY ChannelsAssumption DEF ChannelsAssumption
<1>1. CASE UNCHANGED peerVars
  BY <1>1 DEF PeersTyped, peerVars
<1>2. CASE SchedulerNext
  <2>1. CASE DedupAndStartPeers
    BY <2>1 DEF DedupAndStartPeers, PeersTyped, ConnState
  <2>2. CASE AddIncomingPeer
    <3>1. Head(scheduler_event) \in Peers
      BY <1>0, <2>2, QueueTaken DEF QueuesTyped, AddIncomingPeer
    <3>2. conn' \in [Peers -> ConnState]
      BY <2>2, <3>1 DEF AddIncomingPeer, PeersTyped, ConnState
    <3> QED  BY <2>2, <3>2 DEF AddIncomingPeer, PeersTyped
  <2>3. ASSUME NEW p \in Peers, HandleConnect(p) \/ HandleEnd(p) PROVE PeersTyped'
    BY <2>3 DEF HandleConnect, HandleEnd, PeersTyped, ConnState
  <2>4. ASSUME NEW p \in Peers, HandleMessage(p) \/ HandleData(p) PROVE PeersTyped'
    BY <1>1, <2>4 DEF HandleMessage, HandleData
  <2>5. CASE HandleResponse \/ SendToDisk \/ SendToSelf
    BY <1>1, <2>5 DEF HandleResponse, ParseCompletedPieces, OnCompletePiece, HandleFailure, TakeResponse,
      SendToDisk, SendToSelf
  <2>6. ASSUME NEW p \in Peers, SendToPeer(p) PROVE PeersTyped'
    <3>1. CASE UNCHANGED commands
      BY <2>6, <3>1 DEF SendToPeer, PeersTyped
    <3>2. CASE commands[p] < PEER_COMMAND /\ commands' = [commands EXCEPT ![p] = @ + 1]
      <4>1. commands[p] + 1 \in 0..PEER_COMMAND
        BY <1>0, <3>2 DEF PeersTyped
      <4> QED  BY <2>6, <3>2, <4>1 DEF SendToPeer, PeersTyped
    <3> QED  BY <2>6, <3>1, <3>2 DEF SendToPeer
  <2> QED
    BY <1>2, <2>1, <2>2, <2>3, <2>4, <2>5, <2>6
    DEF SchedulerNext, HandlePeerEvent, HandleSchedulerEvent, SchedulerSends
<1>3. CASE DiskNext
  BY <1>1, <1>3 DEF DiskNext, DiskTakes, DiskAnswers, DiskPanics
<1>4. ASSUME NEW p \in Peers, PeerNext(p) PROVE PeersTyped'
  <2>1. CASE DialEnds(p) \/ HandshakeDone(p) \/ HandshakeFails(p)
    <3>1. conn' \in [Peers -> ConnState]
      BY <2>1 DEF DialEnds, HandshakeDone, HandshakeFails, PeersTyped, ConnState
    <3> QED  BY <2>1, <3>1 DEF DialEnds, HandshakeDone, HandshakeFails, PeersTyped
  <2>2. CASE ReadMessage(p) \/ ReaderSends(p) \/ WriterWrites(p) \/ RemoteHangs(p)
    BY <2>2 DEF ReadMessage, ReaderSends, WriterWrites, RemoteHangs, PeersTyped
  <2>3. CASE WriterTakes(p)
    <3>1. commands[p] - 1 \in 0..PEER_COMMAND
      BY <1>0, <2>3 DEF WriterTakes, PeersTyped
    <3> QED  BY <2>3, <3>1 DEF WriterTakes, PeersTyped
  <2>4. CASE TaskEnds(p) \/ TaskReports(p)
    BY <1>0, <2>4 DEF TaskEnds, TaskReports, PeersTyped, ConnState
  <2> QED  BY <1>4, <2>1, <2>2, <2>3, <2>4 DEF PeerNext
<1>5. ASSUME NEW p \in Incoming \cup {Nobody}, SessionSends(p) PROVE PeersTyped'
  BY <1>1, <1>5 DEF SessionSends
<1>6. CASE UNCHANGED vars
  BY <1>1, <1>6 DEF vars
<1> QED  BY <1>2, <1>3, <1>4, <1>5, <1>6 DEF Next

(* No channel ever holds more than its capacity, however the tasks take turns*)
(* (session.rs:46, scheduler.rs:526, disk.rs:83), and the pieces that are    *)
(* missing are never more than there are: the count above bounds how often   *)
(* HandleFailure can give one back.                                          *)
THEOREM ChannelsTypeCorrect == Spec => []TypeOK
<1> DEFINE RestTyped == QueuesTyped /\ HandlerTyped /\ PeersTyped
<1>1. Init => RestTyped
  BY ChannelsAssumption
  DEF ChannelsAssumption, Init, QueuesTyped, HandlerTyped, PeersTyped, ConnState
<1>2. RestTyped /\ [Next]_vars => RestTyped'
  BY QueuesStep, HandlerStep, PeersStep
<1>3. Counted /\ RestTyped => TypeOK
  BY DEF Counted, CountTyped, QueuesTyped, HandlerTyped, PeersTyped, TypeOK
<1> HIDE DEF RestTyped
<1> QED  BY <1>1, <1>2, <1>3, CountInvariant, PTL DEF Spec
===============================================================================
