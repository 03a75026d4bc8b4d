------------------------------ MODULE UDPTracker ------------------------------
(* One UDPTracker task (trackers/udp.rs), the network between it and its     *)
(* tracker, and the tracker.  The task holds a connected socket for each     *)
(* address family the tracker's name resolves to, runs the connect and the   *)
(* announce exchange over both at once, and reports once both are over.      *)
(* recv has no time-out and takes whatever datagram comes first.             *)
EXTENDS TrackerChannel, FiniteSets

CONSTANTS
    Ids, NoId,   \* transaction ids; random u32 in the code, here never one still in use
    NetFaults,   \* subset of {"error", "lose", "duplicate"}
    MaxCopies    \* bound on how many datagrams the network duplicates

ASSUME UDPTrackerAssumption == NoId \notin Ids /\ MaxCopies \in Nat

VARIABLES
    task,        \* of run: "absent", "initializing", "waiting", "announcing", "stopped", "panicked"
    contexts,    \* the families with a UDPContext
    connection,  \* the families with a connection that has not expired
    step,        \* [Family -> what announce does]: "idle", "connect", "announce", "ok", "err"
    id,          \* [Family -> the id of the request that waits for its answer]
    response,    \* [Family -> the peers of an announce that is ok]
    requests,    \* [Family -> datagrams under way to the tracker]
    replies,     \* [Family -> datagrams under way to the socket, or in it]
    copies,      \* history: datagrams the network has duplicated
    udpKnown     \* history: peers in the swarm since the announce in progress began

udpVars == <<task, contexts, connection, step, id, response, requests, replies, copies, udpKnown>>
network == <<requests, replies>>

Request == [kind : {"connect", "announce"}, id : Ids]
Reply == [kind : {"connect", "announce", "error"}, id : Ids, peers : SUBSET Address]

UDPTypeOK ==
    /\ task \in {"absent", "initializing", "waiting", "announcing", "stopped", "panicked"}
    /\ contexts \in SUBSET Family
    /\ connection \subseteq contexts
    /\ step \in [Family -> {"idle", "connect", "announce", "ok", "err"}]
    /\ id \in [Family -> Ids \cup {NoId}]
    /\ response \in [Family -> SUBSET Address]
    /\ requests \in [Family -> SUBSET Request]
    /\ replies \in [Family -> SUBSET Reply]
    /\ copies \in Nat
    /\ udpKnown \subseteq Address

UDPInit ==
    /\ task \in {"absent", "initializing"} /\ contexts = {} /\ copies = 0 /\ udpKnown = {}
    /\ connection = {}
    /\ step = [f \in Family |-> "idle"]
    /\ id = [f \in Family |-> NoId]
    /\ response = [f \in Family |-> {}]
    /\ requests = [f \in Family |-> {}]
    /\ replies = [f \in Family |-> {}]

Awaiting(f) == step[f] \in {"connect", "announce"}
Around(f) == requests[f] \cup replies[f]
PeersOf(f) == IF f = "ipv4" THEN IPv4Peers ELSE IPv6Peers
Fresh(f, i) == i \in Ids /\ \A d \in Around(f) : d.id # i
NewId(f) == CHOOSE i \in Ids : Fresh(f, i)

------------------------------------------------------------------------------
(* The task. *)

(* initialize: one context for each family among the addresses; a name that  *)
(* does not resolve and a socket that cannot be bound panic (.unwrap(), and  *)
(* .expect() in Tracker::run).                                               *)
Initialize ==
    /\ task = "initializing"
    /\ \/ task' = "waiting" /\ contexts' \in SUBSET Family
       \/ task' = "panicked" /\ UNCHANGED contexts
    /\ UNCHANGED <<connection, step, id, response, network, copies, udpKnown, swarm, tracker_resp>>

(* announce: connect first unless there is a connection that has not expired. *)
FirstRequest(f) == IF f \in connection THEN "announce" ELSE "connect"

\* Variant: a missing context leaves its half of the join! pending.
NoContextPending == "idle"

(* A family without a context: an error at once. *)
NoContext == "err"

(* The timer fires, or ForceReannounce arrives: perform_announce starts both *)
(* exchanges; the datagrams are sent before either waits.                    *)
PerformAnnounce ==
    /\ task = "waiting" /\ task' = "announcing"
    /\ \A f \in contexts : Fresh(f, NewId(f))
    /\ id' = [f \in Family |-> IF f \in contexts THEN NewId(f) ELSE NoId]
    /\ requests' = [f \in Family |-> IF f \in contexts
            THEN requests[f] \cup {[kind |-> FirstRequest(f), id |-> NewId(f)]}
            ELSE requests[f]]
    /\ step' = [f \in Family |-> IF f \in contexts THEN FirstRequest(f) ELSE NoContext]
    /\ response' = [f \in Family |-> {}]
    /\ udpKnown' = swarm
    /\ UNCHANGED <<contexts, connection, replies, copies, swarm, tracker_resp>>

(* recv: a datagram leaves the socket; the network may hold a copy of it. *)
Recv(f, reply) ==
    \/ /\ replies' = [replies EXCEPT ![f] = @ \ {reply}]
       /\ UNCHANGED copies
    \/ /\ "duplicate" \in NetFaults /\ copies < MaxCopies
       /\ copies' = copies + 1
       /\ UNCHANGED replies

\* Variant: the transaction id is not compared.
ExpectedAnyId(f, reply) == reply.kind = step[f]
Expected(f, reply) == reply.kind = step[f] /\ reply.id = id[f]

(* send_connect succeeds: the connection is kept and send_announce follows. *)
ConnectAnswered(f) ==
    /\ step[f] = "connect"
    /\ \E reply \in replies[f] : Recv(f, reply) /\ Expected(f, reply)
    /\ connection' = connection \cup {f}
    /\ step' = [step EXCEPT ![f] = "announce"]
    /\ Fresh(f, NewId(f))
    /\ id' = [id EXCEPT ![f] = NewId(f)]
    /\ requests' = [requests EXCEPT ![f] = @ \cup {[kind |-> "announce", id |-> NewId(f)]}]
    /\ UNCHANGED <<task, contexts, response, udpKnown, swarm, tracker_resp>>

(* send_announce succeeds. *)
AnnounceAnswered(f) ==
    /\ step[f] = "announce"
    /\ \E reply \in replies[f] :
        /\ Recv(f, reply) /\ Expected(f, reply)
        /\ response' = [response EXCEPT ![f] = reply.peers]
    /\ step' = [step EXCEPT ![f] = "ok"]
    /\ id' = [id EXCEPT ![f] = NoId]
    /\ UNCHANGED <<task, contexts, connection, requests, udpKnown, swarm, tracker_resp>>

(* Any other datagram ends the exchange: wrong action, wrong transaction id, *)
(* wrong length.                                                             *)
WrongAnswer(f) ==
    /\ Awaiting(f)
    /\ \E reply \in replies[f] : Recv(f, reply) /\ ~Expected(f, reply)
    /\ step' = [step EXCEPT ![f] = "err"]
    /\ id' = [id EXCEPT ![f] = NoId]
    /\ UNCHANGED <<task, contexts, connection, response, requests, udpKnown, swarm, tracker_resp>>

(* join! has both results: a failure only if both failed. *)
Outcome ==
    IF \A f \in Family : step[f] = "err"
    THEN Failure("udp")
    ELSE Success("udp", UNION {response[f] : f \in {g \in Family : step[g] = "ok"}})

\* Variant: select! in place of join!, the first family that is done decides.
ReportFirst ==
    /\ task = "announcing"
    /\ \E f \in contexts : step[f] \in {"ok", "err"}
    /\ Send(Outcome)
    /\ task' = "waiting"
    /\ step' = [f \in Family |-> "idle"]
    /\ response' = [f \in Family |-> {}]
    /\ id' = [f \in Family |-> NoId]
    /\ udpKnown' = {}
    /\ UNCHANGED <<contexts, connection, network, copies, swarm>>

Report ==
    /\ task = "announcing"
    /\ \A f \in Family : step[f] \in {"ok", "err"}
    /\ Send(Outcome)
    /\ task' = "waiting"
    /\ step' = [f \in Family |-> "idle"]
    /\ response' = [f \in Family |-> {}]
    /\ id' = [f \in Family |-> NoId]
    /\ udpKnown' = {}
    /\ UNCHANGED <<contexts, connection, network, copies, swarm>>

(* TrackerCommand::Shutdown, which is read only between announces. *)
Shutdown ==
    /\ task = "waiting" /\ task' = "stopped"
    /\ UNCHANGED <<contexts, connection, step, id, response, network, copies, udpKnown, swarm, tracker_resp>>

(* Sixty seconds after a connection was made: it has expired. *)
ConnectionExpires(f) ==
    /\ f \in connection
    /\ connection' = connection \ {f}
    /\ UNCHANGED <<task, contexts, step, id, response, network, copies, udpKnown, swarm, tracker_resp>>

------------------------------------------------------------------------------
(* The tracker and the network. *)

(* The tracker answers a request, with what it was asked for or with         *)
(* something send_connect or send_announce takes for an error; the network   *)
(* may deliver the request a second time.                                    *)
TrackerAnswers(f) ==
    /\ \E request \in requests[f], kind \in {"connect", "announce", "error"} :
        /\ kind = request.kind \/ (kind = "error" /\ "error" \in NetFaults)
        /\ replies' = [replies EXCEPT ![f] = @ \cup {[kind |-> kind, id |-> request.id,
              peers |-> IF kind # "announce" THEN {}
                        ELSE swarm \cap PeersOf(f)]}]
        /\ \/ /\ requests' = [requests EXCEPT ![f] = @ \ {request}]
              /\ UNCHANGED copies
           \/ /\ "duplicate" \in NetFaults /\ copies < MaxCopies
              /\ copies' = copies + 1
              /\ UNCHANGED requests
    /\ UNCHANGED <<task, contexts, connection, step, id, response, udpKnown, swarm, tracker_resp>>

(* A datagram is lost. *)
Lose(f) ==
    /\ "lose" \in NetFaults
    /\ \E d \in Around(f) :
        /\ requests' = [requests EXCEPT ![f] = @ \ {d}]
        /\ replies' = [replies EXCEPT ![f] = @ \ {d}]
    /\ UNCHANGED <<task, contexts, connection, step, id, response, copies, udpKnown, swarm, tracker_resp>>

UDPTaskNext ==
    \/ Initialize \/ PerformAnnounce \/ Report \/ Shutdown
    \/ \E f \in Family : ConnectAnswered(f) \/ AnnounceAnswered(f) \/ WrongAnswer(f) \/ ConnectionExpires(f)

UDPNext ==
    \/ UDPTaskNext
    \/ \E f \in Family : TrackerAnswers(f) \/ Lose(f)
===============================================================================
