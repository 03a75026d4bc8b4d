------------------------------- MODULE Channels -------------------------------
(* Who waits for whom behind one session: the scheduler, a reader and a      *)
(* writer for each peer, the disk task, and between them bounded channels.   *)
(* A send waits until the channel has room, or returns at once when the      *)
(* receiver is gone; the task does nothing else meanwhile.  What a message   *)
(* carries is left out: a handler makes any of the sends its code could make.*)
(* What it carries is the subject of Scheduler, whose sends never wait.      *)
EXTENDS Naturals, Sequences

CONSTANTS
    Peers,          \* addresses of peers; a peer's slot is ordered like its address
    Tracked,        \* those that trackers return
    Incoming,       \* those that may connect to us
    Hanging,        \* those whose remote may stop reading and writing without closing
    NumPieces,
    SCHEDULER_EVENT,  \* capacity of the channel from the session to the scheduler, 32
    PEER_EVENT,     \* of the channel to the scheduler, 1500
    PEER_COMMAND,   \* of the channel to each writer, 100
    DISK_EVENT,     \* of the channel to the disk task, 1000
    DISK_RESPONSE   \* of the channel from the disk task, 1000

Nobody == 0  \* in place of a peer

ASSUME ChannelsAssumption ==
    /\ Peers \subseteq Nat \ {Nobody}
    /\ Tracked \subseteq Peers /\ Incoming \subseteq Peers /\ Hanging \subseteq Peers
    /\ NumPieces \in Nat
    /\ {SCHEDULER_EVENT, PEER_EVENT, PEER_COMMAND, DISK_EVENT, DISK_RESPONSE} \subseteq Nat \ {0}

VARIABLES
    scheduler_event,  \* the events that wait for the scheduler; Nobody: LaunchPeers
    peer_rx,          \* the PeerEvents that wait for the scheduler
    handing,          \* the handler has so many pieces for the disk task, 0 or 1,
    joining,          \*   an incoming peer to send to peer_rx (or Nobody),
    todo,             \*   and [Peers -> how many commands for the peer's writer]
    conn,             \* [Peers -> the state of the address]
    sending,          \* the peers whose reader is sending an event
    commands,         \* [Peers -> how many commands wait for the writer]
    writing,          \* the peers whose writer is in write_all
    hung,             \* the remotes that neither read nor write any more
    missing,          \* pieces neither stored nor on their way to the disk task
    disk,             \* of Disk::run: "starting", "idle", "working", "dead"
    disk_event,       \* how many pieces wait for the disk task
    disk_response,    \* how many responses wait for the scheduler
    resumed           \* whether the scheduler has taken CompletedPieces: "no" or "yes"

handlerVars == <<handing, joining, todo>>
peerVars == <<conn, sending, commands, writing, hung>>
diskVars == <<missing, disk, disk_event, disk_response, resumed>>
vars == <<scheduler_event, peer_rx, handlerVars, peerVars, diskVars>>

ConnState ==
    {"none", "dialing", "joining", "handshake", "refused", "open", "ending", "left", "failed"}
PeerEvent == {"Connect", "ConnectFailed", "Disconnect", "Message"} \X Peers

TypeOK ==
    /\ joining \in Peers \cup {Nobody}
    /\ scheduler_event \in Seq(Peers \cup {Nobody}) /\ Len(scheduler_event) <= SCHEDULER_EVENT
    /\ peer_rx \in Seq(PeerEvent) /\ Len(peer_rx) <= PEER_EVENT
    /\ handing \in 0..1
    /\ todo \in [Peers -> 0..2]
    /\ conn \in [Peers -> ConnState]
    /\ commands \in [Peers -> 0..PEER_COMMAND]
    /\ sending \subseteq Peers /\ writing \subseteq Peers /\ hung \subseteq Peers
    /\ missing \in 0..NumPieces
    /\ disk \in {"starting", "idle", "working", "dead"}
    /\ disk_event \in 0..DISK_EVENT
    /\ disk_response \in 0..DISK_RESPONSE
    /\ resumed \in {"no", "yes"}

Init ==
    /\ scheduler_event = <<>> /\ peer_rx = <<>>
    /\ handing = 0 /\ joining = Nobody /\ todo = [p \in Peers |-> 0]
    /\ conn = [p \in Peers |-> "none"]
    /\ commands = [p \in Peers |-> 0]
    /\ sending = {} /\ writing = {} /\ hung = {}
    /\ missing = NumPieces /\ disk = "starting"
    /\ disk_event = 0 /\ disk_response = 0 /\ resumed = "no"

Room == Len(peer_rx) < PEER_EVENT
Post(type, p) == peer_rx' = Append(peer_rx, <<type, p>>)
Slots == {p \in Peers : conn[p] \in {"handshake", "refused", "open", "ending", "left"}}

------------------------------------------------------------------------------
(* The session (session/session.rs) sends LaunchPeers or an incoming peer.   *)
\* Variant: try to send without waiting, into a channel without a bound.
SessionSendsUnbounded(p) ==
    /\ Len(scheduler_event) <= SCHEDULER_EVENT
    /\ scheduler_event' = Append(scheduler_event, p)
    /\ UNCHANGED <<peer_rx, handlerVars, peerVars, diskVars>>

SessionSends(p) ==
    /\ Len(scheduler_event) < SCHEDULER_EVENT
    /\ scheduler_event' = Append(scheduler_event, p)
    /\ UNCHANGED <<peer_rx, handlerVars, peerVars, diskVars>>

------------------------------------------------------------------------------
(* The scheduler (scheduler/scheduler.rs): a handler, then its sends. *)

Returned == handing = 0 /\ joining = Nobody /\ \A p \in Peers : todo[p] = 0

(* dedup_and_start_peers: a task for each new address dials it. *)
DedupAndStartPeers ==
    /\ Returned /\ scheduler_event # <<>> /\ Head(scheduler_event) = Nobody
    /\ scheduler_event' = Tail(scheduler_event)
    /\ \E new \in SUBSET {p \in Tracked : conn[p] = "none"} :
        conn' = [p \in Peers |-> IF p \in new THEN "dialing" ELSE conn[p]]
    /\ UNCHANGED <<peer_rx, handlerVars, sending, commands, writing, hung, diskVars>>

(* add_incoming_peer: a new address is to be sent to the scheduler's own channel. *)
AddIncomingPeer ==
    /\ Returned /\ scheduler_event # <<>> /\ Head(scheduler_event) # Nobody
    /\ scheduler_event' = Tail(scheduler_event)
    /\ LET p == Head(scheduler_event) IN
        IF conn[p] = "none"
        THEN conn' = [conn EXCEPT ![p] = "joining"] /\ joining' = p
        ELSE UNCHANGED <<conn, joining>>
    /\ UNCHANGED <<peer_rx, handing, todo, sending, commands, writing, hung, diskVars>>

TakePeerEvent(type, p) ==
    /\ Returned /\ peer_rx # <<>> /\ Head(peer_rx) = <<type, p>>
    /\ peer_rx' = Tail(peer_rx)
    /\ UNCHANGED <<scheduler_event, joining>>

(* Connect: a slot, a command channel, and a run_peer task. *)
HandleConnect(p) ==
    /\ TakePeerEvent("Connect", p)
    /\ conn' = [conn EXCEPT ![p] = "handshake"]
    /\ UNCHANGED <<handing, todo, sending, commands, writing, hung, diskVars>>

(* ConnectFailed and Disconnect: the address is free again. *)
HandleEnd(p) ==
    /\ TakePeerEvent("ConnectFailed", p) \/ TakePeerEvent("Disconnect", p)
    /\ conn' = [conn EXCEPT ![p] = "none"]
    /\ UNCHANGED <<handing, todo, sending, commands, writing, hung, diskVars>>

(* Bitfield, Have, Unchoke: SendInterested, BlocksToDownload, both or none; *)
(* Choke, Interested, NotInterested: none.                                  *)
HandleMessage(p) ==
    /\ TakePeerEvent("Message", p)
    /\ \E n \in 0..2 : todo' = [todo EXCEPT ![p] = n]
    /\ UNCHANGED <<handing, peerVars, diskVars>>

\* Variant: the buffer of a complete piece is submitted again.
SubmitAgain == handing' = 1 /\ UNCHANGED missing

(* The last block of a piece: the piece is complete, its data goes to the disk task. *)
Submit == handing' = 1 /\ missing > 0 /\ missing' = missing - 1

(* Data: perhaps a whole piece for the disk task, perhaps more blocks to ask for. *)
HandleData(p) ==
    /\ TakePeerEvent("Message", p)
    /\ Submit \/ UNCHANGED <<handing, missing>>
    /\ \E n \in 0..1 : todo' = [todo EXCEPT ![p] = n]
    /\ UNCHANGED <<peerVars, disk, disk_event, disk_response, resumed>>

TakeResponse ==
    /\ Returned /\ disk_response > 0
    /\ disk_response' = disk_response - 1
    /\ UNCHANGED <<scheduler_event, peer_rx, handing, joining, peerVars, disk, disk_event>>

(* CompletedPieces, always the first response: pieces stored by an earlier run. *)
ParseCompletedPieces ==
    /\ TakeResponse /\ resumed = "no" /\ resumed' = "yes"
    /\ missing' \in 0..missing
    /\ UNCHANGED todo

(* PieceHashedAndWritten: SendHave to every slot. *)
OnCompletePiece ==
    /\ TakeResponse /\ resumed = "yes"
    /\ todo' = [p \in Peers |-> IF p \in Slots THEN 1 ELSE 0]
    /\ UNCHANGED <<missing, resumed>>

(* HashFailed, WriteFailed: the piece is missing again. *)
HandleFailure ==
    /\ TakeResponse /\ resumed = "yes"
    /\ missing' = missing + 1
    /\ UNCHANGED <<todo, resumed>>

(* The sends of the handler, one after the other: the disk task's first, the *)
(* peers' in the order of their slots.                                       *)
SendToDisk ==
    /\ handing = 1 /\ handing' = 0
    /\ \/ disk = "dead" /\ UNCHANGED disk_event
       \/ disk # "dead" /\ disk_event < DISK_EVENT /\ disk_event' = disk_event + 1
    /\ UNCHANGED <<scheduler_event, peer_rx, joining, todo, peerVars,
                   missing, disk, disk_response, resumed>>

SendToSelf ==
    /\ joining # Nobody /\ joining' = Nobody
    /\ Room /\ Post("Connect", joining)
    /\ UNCHANGED <<scheduler_event, handing, todo, peerVars, diskVars>>

\* Variant: the command channel is there until the scheduler removes the peer.
ListeningUntilRemoved(p) == p \in Slots

(* The receiver exists.  Until the handshake is done, and after it has failed, *)
(* it is run_peer's own, which does not read from it.                          *)
Listening(p) == conn[p] \in {"handshake", "refused", "open"}

Turn(p) == handing = 0 /\ todo[p] > 0 /\ \A q \in Peers : q < p => todo[q] = 0

SendToPeer(p) ==
    /\ Turn(p) /\ todo' = [todo EXCEPT ![p] = @ - 1]
    /\ \/ ~Listening(p) /\ UNCHANGED commands
       \/ Listening(p) /\ commands[p] < PEER_COMMAND /\ commands' = [commands EXCEPT ![p] = @ + 1]
    /\ UNCHANGED <<scheduler_event, peer_rx, handing, joining,
                   conn, sending, writing, hung, diskVars>>

HandlePeerEvent ==
    \E p \in Peers : HandleConnect(p) \/ HandleEnd(p) \/ HandleMessage(p) \/ HandleData(p)
HandleSchedulerEvent == DedupAndStartPeers \/ AddIncomingPeer
HandleResponse == ParseCompletedPieces \/ OnCompletePiece \/ HandleFailure
SchedulerSends == SendToDisk \/ SendToSelf \/ \E p \in Peers : SendToPeer(p)

------------------------------------------------------------------------------
(* The peers (peers/peers.rs). *)

rest == <<scheduler_event, handlerVars, diskVars>>

(* The dialing task reports success or failure. *)
DialEnds(p) ==
    /\ conn[p] = "dialing" /\ Room
    /\ \/ Post("Connect", p) /\ conn' = [conn EXCEPT ![p] = "joining"]
       \/ Post("ConnectFailed", p) /\ conn' = [conn EXCEPT ![p] = "failed"]
    /\ UNCHANGED <<rest, sending, commands, writing, hung>>

(* do_handshake has no time-out: it ends when the remote acts. *)
HandshakeDone(p) ==
    /\ conn[p] = "handshake" /\ p \notin hung
    /\ conn' = [conn EXCEPT ![p] = "open"]
    /\ UNCHANGED <<rest, peer_rx, sending, commands, writing, hung>>

(* read_message: an event for the scheduler, or a message without one. *)
ReadMessage(p) ==
    /\ conn[p] = "open" /\ p \notin hung /\ p \notin sending
    /\ sending' = sending \cup {p}
    /\ UNCHANGED <<rest, peer_rx, conn, commands, writing, hung>>

ReaderSends(p) ==
    /\ p \in sending /\ Room
    /\ Post("Message", p)
    /\ sending' = sending \ {p}
    /\ UNCHANGED <<rest, conn, commands, writing, hung>>

\* Variant: reader and writer take turns in one task; no command is taken while an event waits.
WriterTakesInTurn(p) ==
    /\ conn[p] = "open" /\ p \notin writing /\ commands[p] > 0
    /\ p \notin sending
    /\ writing' = writing \cup {p}
    /\ commands' = [commands EXCEPT ![p] = @ - 1]
    /\ UNCHANGED <<rest, peer_rx, conn, sending, hung>>

WriterTakes(p) ==
    /\ conn[p] = "open" /\ p \notin writing /\ commands[p] > 0
    /\ writing' = writing \cup {p}
    /\ commands' = [commands EXCEPT ![p] = @ - 1]
    /\ UNCHANGED <<rest, peer_rx, conn, sending, hung>>

(* write_all returns when the remote has read enough. *)
WriterWrites(p) ==
    /\ p \in writing /\ p \notin hung
    /\ writing' = writing \ {p}
    /\ UNCHANGED <<rest, peer_rx, conn, sending, commands, hung>>

(* run_peer will report Disconnect and return; its command channel goes with it. *)
HandshakeFails(p) ==
    /\ conn[p] = "handshake"
    /\ conn' = [conn EXCEPT ![p] = "refused"]
    /\ hung' = hung \ {p}
    /\ UNCHANGED <<rest, peer_rx, sending, commands, writing>>

(* One half ends: run_peer aborts the other one, and the command channel goes *)
(* with the writer.                                                           *)
TaskEnds(p) ==
    /\ conn[p] = "open"
    /\ conn' = [conn EXCEPT ![p] = "ending"]
    /\ sending' = sending \ {p} /\ writing' = writing \ {p} /\ hung' = hung \ {p}
    /\ commands' = [commands EXCEPT ![p] = 0]
    /\ UNCHANGED <<rest, peer_rx>>

(* run_peer's last act: Disconnect. *)
TaskReports(p) ==
    /\ conn[p] \in {"refused", "ending"} /\ Room
    /\ Post("Disconnect", p)
    /\ conn' = [conn EXCEPT ![p] = "left"]
    /\ commands' = [commands EXCEPT ![p] = 0]
    /\ UNCHANGED <<rest, sending, writing, hung>>

(* The remote stays connected and does nothing any more. *)
RemoteHangs(p) ==
    /\ conn[p] \in {"handshake", "open"} /\ p \in Hanging \ hung
    /\ hung' = hung \cup {p}
    /\ UNCHANGED <<rest, peer_rx, conn, sending, commands, writing>>

PeerNext(p) ==
    \/ DialEnds(p) \/ HandshakeDone(p) \/ ReadMessage(p) \/ ReaderSends(p)
    \/ WriterTakes(p) \/ WriterWrites(p) \/ HandshakeFails(p) \/ TaskEnds(p) \/ TaskReports(p)
    \/ RemoteHangs(p)

------------------------------------------------------------------------------
(* The disk task (disk/disk.rs). *)

DiskTakes ==
    /\ disk = "idle" /\ disk_event > 0
    /\ disk_event' = disk_event - 1 /\ disk' = "working"
    /\ UNCHANGED <<scheduler_event, peer_rx, handlerVars, peerVars,
                   missing, disk_response, resumed>>

(* CompletedPieces at the start; then one response for each piece. *)
DiskAnswers ==
    /\ disk \in {"starting", "working"} /\ disk_response < DISK_RESPONSE
    /\ disk_response' = disk_response + 1 /\ disk' = "idle"
    /\ UNCHANGED <<scheduler_event, peer_rx, handlerVars, peerVars,
                   missing, disk_event, resumed>>

(* An expect fails, or, after an answer, the write to the savefile; whoever  *)
(* sends to the task is not told.                                            *)
DiskPanics ==
    /\ disk # "dead" /\ disk' = "dead"
    /\ disk_event' = 0
    /\ UNCHANGED <<scheduler_event, peer_rx, handlerVars, peerVars,
                   missing, disk_response, resumed>>

SchedulerNext == HandlePeerEvent \/ HandleSchedulerEvent \/ HandleResponse \/ SchedulerSends
DiskNext == DiskTakes \/ DiskAnswers \/ DiskPanics

Next ==
    \/ \E p \in Incoming \cup {Nobody} : SessionSends(p)
    \/ SchedulerNext
    \/ DiskNext
    \/ \E p \in Peers : PeerNext(p)

Spec == Init /\ [][Next]_vars

(* What a peer's task does of itself, at most one of these at a time. *)
PeerGoesOn(p) == HandshakeDone(p) \/ WriterTakes(p) \/ WriterWrites(p) \/ TaskReports(p)

(* The runtime runs a task that can go on (WF).  select! looks at its        *)
(* branches in random order, so the scheduler does not leave out for ever    *)
(* the session's channel, in which there is something again and again (SF).  *)
(* Nothing is asked of trackers, client and remotes, but that a remote that  *)
(* is not hung reads what is written and ends its handshake.                 *)
Fairness ==
    /\ WF_vars(SchedulerSends) /\ SF_vars(HandleSchedulerEvent)
    /\ WF_vars(DiskTakes \/ DiskAnswers)
    /\ \A p \in Peers : WF_vars(PeerGoesOn(p))

FairSpec == Spec /\ Fairness

------------------------------------------------------------------------------
DiskWaits == disk \in {"starting", "working"} /\ disk_response = DISK_RESPONSE
SchedulerWaitsForDisk == handing = 1 /\ disk # "dead" /\ disk_event = DISK_EVENT
SchedulerWaitsFor(p) == Turn(p) /\ Listening(p) /\ commands[p] = PEER_COMMAND
SchedulerWaitsForItself == joining # Nobody /\ ~Room

(* The scheduler is the one that makes room in peer_rx, and run_peer keeps its *)
(* command channel until it has found room there.                             *)
SchedulerWaitsForRefused ==
    ~Room /\ \E p \in Peers : conn[p] = "refused" /\ SchedulerWaitsFor(p)

(* Stuck: the scheduler waits for itself, for a task whose handshake failed and *)
(* that waits for the scheduler, or for a remote that is hung.                  *)
Stuck ==
    \/ SchedulerWaitsForItself
    \/ SchedulerWaitsForRefused
    \/ \E p \in hung : SchedulerWaitsFor(p)

(* The scheduler handing over a piece and the disk task handing back an      *)
(* answer never wait for each other (scheduler.rs:504, disk.rs:83): a torrent*)
(* with no more pieces than the two channels hold cannot fill both.          *)
DiskNeverJammed == ~(SchedulerWaitsForDisk /\ DiskWaits)

(* Each handler of the scheduler comes to its end, whatever its sends wait   *)
(* for (scheduler.rs:276, 326, 379, 404, 504, 526), unless it waits for      *)
(* itself, for a failed handshake to be reported (peers.rs:341), or for a    *)
(* hung remote.                                                              *)
SchedulerReturns == ~Returned ~> Returned \/ Stuck

(* A full channel from the session does not stay full (session.rs:87, 98):   *)
(* the session comes back from its send, unless the scheduler is stuck in    *)
(* one of these three ways.                                                  *)
SessionIsServed ==
    Len(scheduler_event) = SCHEDULER_EVENT ~> Len(scheduler_event) < SCHEDULER_EVENT \/ Stuck
===============================================================================
