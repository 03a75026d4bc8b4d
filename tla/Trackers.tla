------------------------------- MODULE Trackers -------------------------------
(* The tracker tasks of a session side by side, as spawn_trackers starts     *)
(* them (session/session.rs): one UDPTracker and one HTTPTracker, reporting  *)
(* to the session on one channel.                                            *)
EXTENDS UDPTracker, HTTPTracker

CONSTANT Torrents  \* for each torrent, the schemes of its URLs: a set of subsets of {"udp", "http"}

vars == <<udpVars, httpVars, swarm, tracker_resp>>

(* get_tracker_urls collects the URLs; Tracker::new looks at the scheme. *)
SpawnTrackers ==
    \E urls \in Torrents :
        /\ task = IF "udp" \in urls THEN "initializing" ELSE "absent"
        /\ http = IF "http" \in urls THEN "waiting" ELSE "absent"

Init == ChannelInit /\ UDPInit /\ HTTPInit /\ SpawnTrackers

(* Peers join and leave the swarm. *)
SwarmChanges ==
    /\ swarm' \in SUBSET Address
    /\ udpKnown' = IF task = "announcing" THEN udpKnown \cup swarm' ELSE udpKnown
    /\ httpKnown' = IF http \in {"asking", "reporting"} THEN httpKnown \cup swarm' ELSE httpKnown
    /\ UNCHANGED <<task, contexts, connection, step, id, response, network, copies, http, outcome, tracker_resp>>

Next ==
    \/ UDPNext /\ UNCHANGED httpVars
    \/ HTTPNext /\ UNCHANGED udpVars
    \/ SessionTakes /\ UNCHANGED <<udpVars, httpVars, swarm>>
    \/ SwarmChanges

Spec == Init /\ [][Next]_vars

(* The runtime runs a task that can go on; the session, with nothing else to *)
(* wait for, takes its reports; a datagram that is not lost is answered and  *)
(* arrives (a tracker that never answers is one whose answer is lost).       *)
Fairness ==
    /\ \A f \in Family :
        /\ WF_vars((ConnectAnswered(f) \/ AnnounceAnswered(f) \/ WrongAnswer(f)) /\ UNCHANGED httpVars)
        /\ WF_vars(TrackerAnswers(f) /\ UNCHANGED httpVars)
    /\ SF_vars(Report /\ UNCHANGED httpVars)
    /\ SF_vars(HTTPReport /\ UNCHANGED udpVars)
    /\ WF_vars(SessionTakes /\ UNCHANGED <<udpVars, httpVars, swarm>>)

FairSpec == Spec /\ Fairness

------------------------------------------------------------------------------
(* The variables keep their types: phases, contexts and datagrams are those  *)
(* of udp.rs and http.rs, and the channel never holds more than its capacity.*)
TypeOK == ChannelTypeOK /\ UDPTypeOK /\ HTTPTypeOK

(* As long as the network has duplicated nothing, whatever is under way to   *)
(* or from the tracker belongs to the exchange in progress: no answer to an  *)
(* earlier request is left over for a later recv (udp.rs:79, 149), although  *)
(* an exchange may end early, on an error.                                   *)
NothingStale ==
    copies = 0 => \A f \in Family : \A d \in Around(f) : Awaiting(f) /\ d.id = id[f]

(* A datagram too many costs one answer, not more: what is under way exceeds *)
(* what is awaited by the number of duplicates at most.                      *)
BacklogBounded ==
    \A f \in Family :
        Cardinality(requests[f]) + Cardinality(replies[f]) <= (IF Awaiting(f) THEN 1 ELSE 0) + copies

(* The UDP task implements Announcer: what it reports was in the swarm       *)
(* during this announce, whatever the network delivers late or twice.        *)
UDPAnnouncer == INSTANCE Announcer WITH
    Me <- "udp", known <- udpKnown,
    phase <- CASE task \in {"absent", "initializing", "waiting"} -> "waiting"
               [] task = "announcing" -> "asking"
               [] OTHER -> "gone"
UDPImplementsAnnouncer == UDPAnnouncer!Spec

(* The HTTP task implements Announcer. *)
HTTPAnnouncer == INSTANCE Announcer WITH
    Me <- "http", known <- httpKnown,
    phase <- CASE http \in {"absent", "waiting"} -> "waiting"
               [] http \in {"asking", "reporting"} -> "asking"
               [] OTHER -> "gone"
HTTPImplementsAnnouncer == HTTPAnnouncer!Spec

(* A family whose request or answer was lost: it waits, and nothing it could *)
(* receive is under way.                                                     *)
Starved(f) == Awaiting(f) /\ Around(f) = {}

(* Every announce of the UDP task comes to an end, with a report, unless a   *)
(* datagram one of its families waits for was lost: join! waits for both.    *)
AnnounceEnds ==
    task = "announcing" ~> task = "waiting" \/ \E f \in Family : Starved(f)

===============================================================================
