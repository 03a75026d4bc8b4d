------------------------------- MODULE Program --------------------------------
(* The program around the sessions: the window, the two accept loops, the    *)
(* client and the sessions it starts (main.rs, ui/ui.rs, client/client.rs,   *)
(* session/session.rs), and the bounded channels from one to the next.  Each *)
(* task waits in a send until there is room; so a scheduler that takes       *)
(* nothing any more can hold up the session, the client and the listeners.   *)
(* What goes on behind a scheduler's channel is the subject of Channels, and *)
(* what the trackers report the subject of Trackers.                         *)
EXTENDS Naturals, Sequences

CONSTANTS
    Listeners,        \* the accept loops, IPv4 and IPv6
    Torrents,         \* the info hashes of the .torrent files the user has
    Foreign,          \* info hashes that only remote peers know
    MaxAdds,          \* how often the user picks a file
    CLIENT,           \* capacity of the channel to the client, 32
    SESSION,          \* of the channel to each session, 32
    TRACKER_RESP,     \* of the channel from its trackers, 32
    SCHEDULER_EVENT   \* of the channel to its scheduler, 32

ASSUME ProgramAssumption ==
    /\ Torrents \cap Foreign = {}
    /\ MaxAdds \in Nat
    /\ {CLIENT, SESSION, TRACKER_RESP, SCHEDULER_EVENT} \subseteq Nat \ {0}

Hash == Torrents \cup Foreign
Sessions == 1..MaxAdds  \* in the order of their start
None == 0

VARIABLES
    adds,             \* files picked so far
    adding,           \* tasks of the window that are sending AddTorrent
    listener,         \* [Listeners -> what the accept loop is doing]
    client,           \* what the client is doing
    client_rx,        \* the ClientCommands that wait for it
    session_map,      \* [Torrents -> a session or None]
    torrent,          \* the torrents of the sessions started
    rx,               \* [Sessions -> the info hashes of the incoming peers that wait for it]
    tracker_resp,     \* [Sessions -> how many reports of its trackers wait for it]
    session,          \* [Sessions -> "idle" or "sending"]
    scheduler_event,  \* [Sessions -> how many events wait for the scheduler]
    scheduler         \* [Sessions -> "running", "dead", or "stuck"]

uiVars == <<adds, adding>>
clientVars == <<client, session_map, torrent>>
sessionVars == <<tracker_resp, session, scheduler_event, scheduler>>
vars == <<uiVars, listener, client_rx, clientVars, rx, sessionVars>>

Accepting == <<"accepting">>  \* waits in accept
Reading == <<"reading">>      \* waits in parse_incoming_handshake
Sending(h) == <<"sending", h>>
Idle == <<"idle">>
Gone == <<"gone">>
Forwarding(s, h) == <<"forwarding", s, h>>
AddTorrent == <<"AddTorrent">>
IncomingPeer(h) == <<"IncomingPeer", h>>

Started == 1..Len(torrent)

(* The variables keep their types, and no channel holds more than it has     *)
(* room for, whoever sends (main.rs:23, client.rs:34, session.rs:46).        *)
TypeOK ==
    /\ adds \in 0..MaxAdds /\ adding \in 0..MaxAdds
    /\ listener \in [Listeners -> {Accepting, Reading} \cup {Sending(h) : h \in Hash}]
    /\ client \in {Idle, Gone} \cup {Forwarding(s, h) : s \in Sessions, h \in Hash}
    /\ client_rx \in Seq({AddTorrent} \cup {IncomingPeer(h) : h \in Hash})
    /\ Len(client_rx) <= CLIENT
    /\ torrent \in Seq(Torrents) /\ Len(torrent) <= MaxAdds
    /\ session_map \in [Torrents -> Started \cup {None}]
    /\ rx \in [Sessions -> Seq(Hash)] /\ \A s \in Sessions : Len(rx[s]) <= SESSION
    /\ tracker_resp \in [Sessions -> 0..TRACKER_RESP]
    /\ session \in [Sessions -> {"idle", "sending"}]
    /\ scheduler_event \in [Sessions -> 0..SCHEDULER_EVENT]
    /\ scheduler \in [Sessions -> {"running", "dead", "stuck"}]

Init ==
    /\ adds = 0 /\ adding = 0
    /\ listener = [l \in Listeners |-> Accepting]
    /\ client = Idle /\ client_rx = <<>>
    /\ session_map = [t \in Torrents |-> None] /\ torrent = <<>>
    /\ rx = [s \in Sessions |-> <<>>]
    /\ tracker_resp = [s \in Sessions |-> 0]
    /\ session = [s \in Sessions |-> "idle"]
    /\ scheduler_event = [s \in Sessions |-> 0]
    /\ scheduler = [s \in Sessions |-> "running"]

------------------------------------------------------------------------------
\* Variant: a send that never waits.
SendToClientAtOnce(cmd) == client_rx' = Append(client_rx, cmd)

(* A send to the client waits for room, and fails once the client is gone. *)
SendToClient(cmd) ==
    IF client = Gone THEN UNCHANGED client_rx
    ELSE Len(client_rx) < CLIENT /\ client_rx' = Append(client_rx, cmd)

(* The window (ui/ui.rs): picking a file starts a task that sends AddTorrent. *)
OnTorrentAdd ==
    /\ adds < MaxAdds
    /\ adds' = adds + 1 /\ adding' = adding + 1
    /\ UNCHANGED <<listener, client_rx, clientVars, rx, sessionVars>>

AddTorrentSends ==
    /\ adding > 0 /\ adding' = adding - 1
    /\ SendToClient(AddTorrent)
    /\ UNCHANGED <<adds, listener, clientVars, rx, sessionVars>>

------------------------------------------------------------------------------
(* The accept loops (main.rs). *)

ListenerGoesTo(l, state) ==
    /\ listener' = [listener EXCEPT ![l] = state]
    /\ UNCHANGED <<uiVars, clientVars, rx, sessionVars>>

Accept(l) ==
    /\ listener[l] = Accepting
    /\ ListenerGoesTo(l, Reading) /\ UNCHANGED client_rx

(* 68 bytes of handshake, when the remote has sent them; it may never do so. *)
HandshakeRead(l) ==
    /\ listener[l] = Reading
    /\ \E h \in Hash : ListenerGoesTo(l, Sending(h))
    /\ UNCHANGED client_rx

(* The connection ends, or what comes is not a handshake. *)
HandshakeFails(l) ==
    /\ listener[l] = Reading
    /\ ListenerGoesTo(l, Accepting) /\ UNCHANGED client_rx

ListenerSends(l) ==
    /\ \E h \in Hash : listener[l] = Sending(h) /\ SendToClient(IncomingPeer(h))
    /\ ListenerGoesTo(l, Accepting)

------------------------------------------------------------------------------
(* The client (client/client.rs). *)

ClientTakes(cmd) ==
    /\ client = Idle /\ client_rx # <<>> /\ Head(client_rx) = cmd
    /\ client_rx' = Tail(client_rx)
    /\ UNCHANGED <<uiVars, listener, rx, sessionVars>>

(* try_parse_torrent fails: nothing happens. *)
AddFails ==
    /\ ClientTakes(AddTorrent)
    /\ UNCHANGED clientVars

(* The lengths of the files add up to more than 64 bits (parser.rs:22), and  *)
(* the build checks for overflow: the client's task is gone.                 *)
AddPanics ==
    /\ client = Idle /\ client_rx # <<>> /\ Head(client_rx) = AddTorrent
    /\ client' = Gone /\ client_rx' = <<>>
    /\ UNCHANGED <<uiVars, listener, session_map, torrent, rx, sessionVars>>

\* Variant: a torrent that is in the map keeps its entry.
EntryIfNew(t) ==
    session_map' = IF session_map[t] = None
                   THEN [session_map EXCEPT ![t] = Len(torrent) + 1] ELSE session_map

Entry(t) == session_map' = [session_map EXCEPT ![t] = Len(torrent) + 1]

(* A session is started; whatever the map held for the torrent is replaced. *)
AddStarts(t) ==
    /\ ClientTakes(AddTorrent)
    /\ torrent' = Append(torrent, t) /\ Entry(t)
    /\ UNCHANGED client

\* Variant: any session will do, found by its place and not by the info hash.
SessionOfAny(h) == Started

(* session_map.get *)
SessionOf(h) == {session_map[t] : t \in Torrents \cap {h}} \ {None}

ForwardPeer(h) ==
    /\ ClientTakes(IncomingPeer(h))
    /\ IF SessionOf(h) = {} THEN UNCHANGED client
       ELSE \E s \in SessionOf(h) : client' = Forwarding(s, h)
    /\ UNCHANGED <<session_map, torrent>>

ClientSends(s, h) ==
    /\ client = Forwarding(s, h) /\ client' = Idle
    /\ Len(rx[s]) < SESSION /\ rx' = [rx EXCEPT ![s] = Append(@, h)]
    /\ UNCHANGED <<uiVars, listener, client_rx, session_map, torrent, sessionVars>>

ClientNext ==
    \/ AddFails \/ AddPanics
    \/ \E t \in Torrents : AddStarts(t)
    \/ \E h \in Hash : ForwardPeer(h)
    \/ \E s \in Sessions, h \in Hash : ClientSends(s, h)

------------------------------------------------------------------------------
(* A session (session/session.rs).  Its task starts by spawning scheduler and*)
(* trackers, which nobody can tell from one that is idle.                    *)

\* Variant: select! is biased towards incoming peers.
TakeReportLast(s) ==
    /\ session[s] = "idle" /\ tracker_resp[s] > 0 /\ rx[s] = <<>>
    /\ tracker_resp' = [tracker_resp EXCEPT ![s] = @ - 1]
    /\ \/ session' = [session EXCEPT ![s] = "sending"]
       \/ UNCHANGED session
    /\ UNCHANGED <<uiVars, listener, client_rx, clientVars, rx, scheduler_event, scheduler>>

(* AnnounceSuccess is passed on as LaunchPeers, AnnounceFailure is not. *)
TakeReport(s) ==
    /\ session[s] = "idle" /\ tracker_resp[s] > 0
    /\ tracker_resp' = [tracker_resp EXCEPT ![s] = @ - 1]
    /\ \/ session' = [session EXCEPT ![s] = "sending"]
       \/ UNCHANGED session
    /\ UNCHANGED <<uiVars, listener, client_rx, clientVars, rx, scheduler_event, scheduler>>

TakePeer(s) ==
    /\ session[s] = "idle" /\ rx[s] # <<>>
    /\ rx' = [rx EXCEPT ![s] = Tail(@)]
    /\ session' = [session EXCEPT ![s] = "sending"]
    /\ UNCHANGED <<uiVars, listener, client_rx, clientVars, tracker_resp, scheduler_event, scheduler>>

\* Variant: the session waits for room although the scheduler is gone.
SessionWaits(s) ==
    /\ session[s] = "sending" /\ session' = [session EXCEPT ![s] = "idle"]
    /\ scheduler[s] # "dead" /\ scheduler_event[s] < SCHEDULER_EVENT
    /\ scheduler_event' = [scheduler_event EXCEPT ![s] = @ + 1]
    /\ UNCHANGED <<uiVars, listener, client_rx, clientVars, rx, tracker_resp, scheduler>>

SessionSends(s) ==
    /\ session[s] = "sending" /\ session' = [session EXCEPT ![s] = "idle"]
    /\ IF scheduler[s] = "dead" THEN UNCHANGED scheduler_event
       ELSE /\ scheduler_event[s] < SCHEDULER_EVENT
            /\ scheduler_event' = [scheduler_event EXCEPT ![s] = @ + 1]
    /\ UNCHANGED <<uiVars, listener, client_rx, clientVars, rx, tracker_resp, scheduler>>

SessionNext(s) == TakeReport(s) \/ TakePeer(s) \/ SessionSends(s)

------------------------------------------------------------------------------
(* Around the sessions: trackers that report, and schedulers that take what  *)
(* they are sent (Channels!SessionIsServed) until they are stuck for ever    *)
(* (Channels!Stuck, Scheduler's "blocked") or panic.                         *)

TrackerReports(s) ==
    /\ s \in Started /\ tracker_resp[s] < TRACKER_RESP
    /\ tracker_resp' = [tracker_resp EXCEPT ![s] = @ + 1]
    /\ UNCHANGED <<uiVars, listener, client_rx, clientVars, rx, session, scheduler_event, scheduler>>

SchedulerTakes(s) ==
    /\ scheduler[s] = "running" /\ scheduler_event[s] > 0
    /\ scheduler_event' = [scheduler_event EXCEPT ![s] = @ - 1]
    /\ UNCHANGED <<uiVars, listener, client_rx, clientVars, rx, tracker_resp, session, scheduler>>

SchedulerEnds(s, how) ==
    /\ s \in Started /\ scheduler[s] = "running"
    /\ scheduler' = [scheduler EXCEPT ![s] = how]
    /\ scheduler_event' = [scheduler_event EXCEPT ![s] = IF how = "dead" THEN 0 ELSE @]
    /\ UNCHANGED <<uiVars, listener, client_rx, clientVars, rx, tracker_resp, session>>

Next ==
    \/ OnTorrentAdd \/ AddTorrentSends
    \/ \E l \in Listeners :
        Accept(l) \/ HandshakeRead(l) \/ HandshakeFails(l) \/ ListenerSends(l)
    \/ ClientNext
    \/ \E s \in Sessions :
        \/ SessionNext(s) \/ TrackerReports(s) \/ SchedulerTakes(s)
        \/ SchedulerEnds(s, "dead") \/ SchedulerEnds(s, "stuck")

Spec == Init /\ [][Next]_vars

(* The runtime runs a task that can go on (WF).  select! looks at its        *)
(* branches in random order, so a session leaves out for ever neither its    *)
(* trackers nor incoming peers (SF).  Users, remotes and trackers owe nothing.*)
Fairness ==
    /\ WF_vars(ClientNext)
    /\ \A s \in Sessions :
        /\ SF_vars(TakeReport(s)) /\ SF_vars(TakePeer(s))
        /\ WF_vars(SessionSends(s)) /\ WF_vars(SchedulerTakes(s))

FairSpec == Spec /\ Fairness

------------------------------------------------------------------------------
Replaced(s) == s \in Started /\ \E later \in Started : later > s /\ torrent[later] = torrent[s]

(* An incoming peer waits only for a session of the torrent it asked for     *)
(* (client.rs:50), also after the torrent was added again.                   *)
PeersOfOwnTorrent ==
    \A s \in Sessions : \A i \in DOMAIN rx[s] : s \in Started /\ rx[s][i] = torrent[s]

(* Adding a running torrent again starts a second session and leaves the     *)
(* first one running (client.rs:31-39): from then on the first one is given  *)
(* no incoming peer any more, it only works off those it has.                *)
ReplacedGetsNoPeers ==
    [][\A s \in Sessions : Replaced(s) => Len(rx'[s]) <= Len(rx[s])]_vars

(* The client's channel never stays full, so that an accept loop that has   *)
(* read a handshake comes back to accept (main.rs:48) and AddTorrent is sent *)
(* (ui.rs:31), unless the scheduler of some session is stuck: the client is  *)
(* at the mercy of every scheduler, but of nothing else.                     *)
ClientIsServed ==
    Len(client_rx) = CLIENT ~>
        Len(client_rx) < CLIENT \/ \E s \in Sessions : scheduler[s] = "stuck"

(* The trackers of a session are always heard (session.rs:81), whatever goes *)
(* on in other sessions, with incoming peers and in the client, unless the   *)
(* session's own scheduler is stuck.  Trackers relies on this.               *)
TrackersAreHeard ==
    \A s \in Sessions :
        tracker_resp[s] = TRACKER_RESP ~> tracker_resp[s] < TRACKER_RESP \/ scheduler[s] = "stuck"
===============================================================================
