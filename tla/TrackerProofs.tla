---------------------------- MODULE TrackerProofs -----------------------------
(* For any addresses, ids and number of duplicated datagrams: without        *)
(* duplicates no answer to an earlier request is ever left over, with them   *)
(* no more than there are duplicates; and with any of the network's faults   *)
(* both tasks implement Announcer.                                           *)
EXTENDS Trackers, FiniteSetTheorems, TLAPS

(* The part of the type invariants the rest needs. *)
Typed ==
    /\ swarm \subseteq Address
    /\ id \in [Family -> Ids \cup {NoId}]
    /\ step \in [Family -> {"idle", "connect", "announce", "ok", "err"}]
    /\ response \in [Family -> SUBSET Address]
    /\ requests \in [Family -> SUBSET Request]
    /\ replies \in [Family -> SUBSET Reply]
    /\ copies \in Nat
    /\ udpKnown \subseteq Address

(* Between announces nothing is awaited. *)
Quiet == task # "announcing" => udpKnown = {} /\ \A f \in Family : step[f] = "idle"

(* Without duplicates, one datagram at most is under way for each family. *)
Single(f) ==
    /\ requests[f] = {} \/ replies[f] = {}
    /\ \A d, e \in requests[f] : d = e
    /\ \A d, e \in replies[f] : d = e

OneUnderWay == copies = 0 => \A f \in Family : Single(f)

(* What the task has accepted, or would accept, was in the swarm during this *)
(* announce: an id in use is never taken for a new request.                  *)
KnownPeers ==
    task = "announcing" =>
        /\ swarm \subseteq udpKnown
        /\ \A f \in Family :
            /\ response[f] \subseteq udpKnown
            /\ \A d \in replies[f] : d.id = id[f] => d.peers \subseteq udpKnown

UDPInv == Typed /\ Quiet /\ OneUnderWay /\ NothingStale /\ KnownPeers

------------------------------------------------------------------------------
LEMMA InitUDP == Init => UDPInv
BY UDPTrackerAssumption DEF Init, ChannelInit, UDPInit, SpawnTrackers, UDPInv, Typed, Quiet, OneUnderWay, Single,
  NothingStale, Around, KnownPeers

LEMMA UDPStutters ==
  ASSUME UDPInv, UNCHANGED udpVars, UNCHANGED swarm
  PROVE  UDPInv'
BY DEF UDPInv, Typed, Quiet, OneUnderWay, Single, NothingStale, Around, Awaiting, KnownPeers, udpVars

LEMMA SwarmKeepsUDP == UDPInv /\ SwarmChanges => UDPInv'
BY DEF UDPInv, SwarmChanges, Typed, Quiet, OneUnderWay, Single, NothingStale, Around, Awaiting, KnownPeers, network

(* Steps of the task that touch no datagram. *)
LEMMA CommandsKeepUDP ==
  ASSUME UDPInv, Initialize \/ Shutdown \/ \E f \in Family : ConnectionExpires(f)
  PROVE  UDPInv'
BY DEF UDPInv, Initialize, Shutdown, ConnectionExpires, Typed, Quiet, OneUnderWay, Single, NothingStale, Around,
  Awaiting, KnownPeers, network

(* A new announce finds nothing under way, or a duplicate was made before. *)
LEMMA PerformKeepsUDP == UDPInv /\ PerformAnnounce => UDPInv'
<1> SUFFICES ASSUME UDPInv, PerformAnnounce PROVE UDPInv'
  OBVIOUS
<1> USE DEF UDPInv, PerformAnnounce
<1>1. Typed' /\ Quiet'
  BY UDPTrackerAssumption DEF Typed, Quiet, Request, FirstRequest, NoContext, Fresh
<1>2. copies = 0 => \A f \in Family : requests[f] = {} /\ replies[f] = {}
  BY DEF NothingStale, Quiet, Awaiting, Around
<1>3. OneUnderWay'
  BY <1>2 DEF OneUnderWay, Single, Typed
<1>4. NothingStale'
  BY <1>2 DEF NothingStale, Around, Awaiting, FirstRequest, Typed
<1>5. KnownPeers'
  BY UDPTrackerAssumption DEF KnownPeers, Typed, Reply, Fresh, Around
<1> QED  BY <1>1, <1>3, <1>4, <1>5

(* What recv leaves behind. *)
LEMMA RecvLeaves ==
  ASSUME UDPInv, NEW f \in Family, NEW reply \in replies[f], Recv(f, reply)
  PROVE  /\ replies' \in [Family -> SUBSET Reply] /\ copies' \in Nat
         /\ \A g \in Family : replies'[g] \subseteq replies[g]
         /\ copies' = 0 => /\ copies = 0 /\ replies'[f] = {} /\ requests[f] = {}
                           /\ \A g \in Family \ {f} : replies'[g] = replies[g]
<1>1. CASE UNCHANGED copies
  BY <1>1 DEF Recv, UDPInv, Typed, OneUnderWay, Single
<1>2. CASE copies' = copies + 1 /\ UNCHANGED replies
  BY <1>2 DEF UDPInv, Typed
<1> QED  BY <1>1, <1>2 DEF Recv

LEMMA AnswersKeepUDP ==
  ASSUME UDPInv, NEW f \in Family, ConnectAnswered(f) \/ AnnounceAnswered(f) \/ WrongAnswer(f)
  PROVE  UDPInv'
<1> USE DEF UDPInv
<1>1. CASE ConnectAnswered(f)
  <2>1. PICK reply \in replies[f] : Recv(f, reply) /\ Expected(f, reply)
    BY <1>1 DEF ConnectAnswered
  <2>2. Typed' /\ Quiet'
    BY <1>1, <2>1, RecvLeaves DEF ConnectAnswered, Typed, Quiet, Request, Fresh
  <2>3. OneUnderWay'
    BY <1>1, <2>1, RecvLeaves DEF ConnectAnswered, OneUnderWay, Single, Typed
  <2>4. NothingStale'
    BY <1>1, <2>1, RecvLeaves DEF ConnectAnswered, NothingStale, Around, Awaiting, Typed
  <2>5. KnownPeers'
    BY <1>1, <2>1, RecvLeaves DEF ConnectAnswered, KnownPeers, Typed, Fresh, Around
  <2> QED  BY <2>2, <2>3, <2>4, <2>5
<1>2. CASE AnnounceAnswered(f)
  <2>1. PICK reply \in replies[f] : /\ Recv(f, reply) /\ Expected(f, reply)
                                    /\ response' = [response EXCEPT ![f] = reply.peers]
    BY <1>2 DEF AnnounceAnswered
  <2>2. reply.peers \subseteq Address /\ reply.id = id[f]
    BY <2>1 DEF Typed, Reply, Expected
  <2>3. Typed' /\ Quiet'
    BY <1>2, <2>1, <2>2, RecvLeaves DEF AnnounceAnswered, Typed, Quiet
  <2>4. OneUnderWay'
    BY <1>2, <2>1, RecvLeaves DEF AnnounceAnswered, OneUnderWay, Single, Typed
  <2>5. NothingStale'
    BY <1>2, <2>1, RecvLeaves DEF AnnounceAnswered, NothingStale, Around, Awaiting, Typed
  <2>6. KnownPeers'
    BY <1>2, <2>1, <2>2, RecvLeaves, UDPTrackerAssumption DEF AnnounceAnswered, KnownPeers, Typed, Reply
  <2> QED  BY <2>3, <2>4, <2>5, <2>6
<1>3. CASE WrongAnswer(f)
  <2>1. PICK reply \in replies[f] : Recv(f, reply)
    BY <1>3 DEF WrongAnswer
  <2>2. Typed' /\ Quiet'
    BY <1>3, <2>1, RecvLeaves DEF WrongAnswer, Typed, Quiet, Awaiting
  <2>3. OneUnderWay'
    BY <1>3, <2>1, RecvLeaves DEF WrongAnswer, OneUnderWay, Single, Typed
  <2>4. NothingStale'
    BY <1>3, <2>1, RecvLeaves DEF WrongAnswer, NothingStale, Around, Awaiting, Typed
  <2>5. KnownPeers'
    BY <1>3, <2>1, RecvLeaves, UDPTrackerAssumption DEF WrongAnswer, KnownPeers, Typed, Reply
  <2> QED  BY <2>2, <2>3, <2>4, <2>5
<1> QED  BY <1>1, <1>2, <1>3

(* All contexts are done when the report is sent, so nothing is awaited. *)
LEMMA ReportKeepsUDP == UDPInv /\ Report => UDPInv'
BY DEF UDPInv, Report, Typed, Quiet, OneUnderWay, Single, NothingStale, Around, Awaiting, KnownPeers, network

LEMMA NetworkKeepsUDP ==
  ASSUME UDPInv, NEW f \in Family, TrackerAnswers(f) \/ Lose(f)
  PROVE  UDPInv'
<1> USE DEF UDPInv
<1>1. CASE TrackerAnswers(f)
  <2>1. PICK request \in requests[f], kind \in {"connect", "announce", "error"} :
          /\ replies' = [replies EXCEPT ![f] = @ \cup {[kind |-> kind, id |-> request.id,
                peers |-> IF kind # "announce" THEN {} ELSE swarm \cap PeersOf(f)]}]
          /\ \/ /\ requests' = [requests EXCEPT ![f] = @ \ {request}] /\ UNCHANGED copies
             \/ copies' = copies + 1 /\ UNCHANGED requests
    BY <1>1 DEF TrackerAnswers
  <2> DEFINE peers == IF kind # "announce" THEN {} ELSE swarm \cap PeersOf(f)
             reply == [kind |-> kind, id |-> request.id, peers |-> peers]
  <2>2. peers \subseteq swarm /\ reply \in Reply
    BY <2>1 DEF Typed, Request, Reply
  <2>3. replies' = [replies EXCEPT ![f] = @ \cup {reply}]
    BY <2>1, Zenon
  <2>4. reply.id = request.id
    OBVIOUS
  <2> HIDE DEF reply
  <2>5. replies' \in [Family -> SUBSET Reply] /\ requests' \in [Family -> SUBSET Request] /\ copies' \in Nat
    <3>1. replies' \in [Family -> SUBSET Reply]
      BY <2>2, <2>3 DEF Typed
    <3>2. requests' \in [Family -> SUBSET Request] /\ copies' \in Nat
      BY <2>1 DEF Typed
    <3> QED  BY <3>1, <3>2
  <2>6. Typed' /\ Quiet'
    BY <1>1, <2>5 DEF TrackerAnswers, Typed, Quiet
  <2>7. copies' = 0 => /\ copies = 0 /\ requests'[f] = {} /\ replies[f] = {} /\ replies'[f] = {reply}
                       /\ \A g \in Family \ {f} : requests'[g] = requests[g] /\ replies'[g] = replies[g]
    <3> SUFFICES ASSUME copies' = 0
                 PROVE  /\ copies = 0 /\ requests'[f] = {} /\ replies[f] = {} /\ replies'[f] = {reply}
                        /\ \A g \in Family \ {f} : requests'[g] = requests[g] /\ replies'[g] = replies[g]
      OBVIOUS
    <3>1. copies = 0 /\ requests' = [requests EXCEPT ![f] = @ \ {request}]
      BY <2>1 DEF Typed
    <3>2. requests[f] = {request} /\ replies[f] = {}
      BY <3>1 DEF OneUnderWay, Single
    <3> QED  BY <3>1, <3>2, <2>3 DEF Typed
  <2>8. OneUnderWay'
    BY <2>7 DEF OneUnderWay, Single
  <2>9. NothingStale'
    BY <1>1, <2>1, <2>3, <2>7, <2>4 DEF TrackerAnswers, NothingStale, Around, Awaiting
  <2>10. KnownPeers'
    <3>1. \A g \in Family : \A d \in replies'[g] : d \in replies[g] \/ d.peers \subseteq swarm
      BY <2>3, <2>2 DEF Typed, reply
    <3> QED  BY <1>1, <3>1 DEF TrackerAnswers, KnownPeers
  <2> QED  BY <2>6, <2>8, <2>9, <2>10
<1>2. CASE Lose(f)
  <2>1. \A g \in Family : requests'[g] \subseteq requests[g] /\ replies'[g] \subseteq replies[g]
    BY <1>2 DEF Lose, Typed
  <2>2. Typed' /\ Quiet'
    BY <1>2 DEF Lose, Typed, Quiet
  <2> QED  BY <1>2, <2>1, <2>2 DEF Lose, OneUnderWay, Single, NothingStale, Around, Awaiting, KnownPeers
<1> QED  BY <1>1, <1>2

THEOREM UDPInvariant == Spec => []UDPInv
<1>1. UDPInv /\ [Next]_vars => UDPInv'
  <2> SUFFICES ASSUME UDPInv, [Next]_vars PROVE UDPInv'
    OBVIOUS
  <2>1. CASE HTTPNext /\ UNCHANGED udpVars
    BY <2>1, UDPStutters DEF HTTPNext, Ask, Respond, RespondError, ParsePeersPanics, HTTPReport, HTTPShutdown
  <2>2. CASE SessionTakes /\ UNCHANGED <<udpVars, httpVars, swarm>>
    BY <2>2, UDPStutters
  <2>3. CASE UNCHANGED vars
    BY <2>3, UDPStutters DEF vars
  <2> QED
    BY <2>1, <2>2, <2>3, CommandsKeepUDP, PerformKeepsUDP, AnswersKeepUDP, ReportKeepsUDP, NetworkKeepsUDP,
      SwarmKeepsUDP DEF Next, UDPNext, UDPTaskNext
<1> QED  BY <1>1, InitUDP, PTL DEF Spec

(* As long as the network has duplicated nothing, every datagram under way   *)
(* belongs to the exchange in progress (udp.rs:79, 149), for any number of   *)
(* announces, errors and losses.                                             *)
THEOREM NeverStale == Spec => []NothingStale
<1>1. UDPInv => NothingStale
  BY DEF UDPInv
<1> QED  BY <1>1, UDPInvariant, PTL

------------------------------------------------------------------------------
(* The HTTP task: what it is about to report was in the swarm.               *)
HTTPInv ==
    /\ swarm \subseteq Address
    /\ IF http \in {"asking", "reporting"} THEN swarm \subseteq httpKnown ELSE httpKnown = {}
    /\ \/ outcome = Failure("http")
       \/ \E peers \in SUBSET Address :
            outcome = Success("http", peers) /\ (http = "reporting" => peers \subseteq httpKnown)

LEMMA InitHTTP == Init => HTTPInv
BY DEF Init, ChannelInit, HTTPInit, SpawnTrackers, HTTPInv

LEMMA StepHTTP == HTTPInv /\ [Next]_vars => HTTPInv'
<1> SUFFICES ASSUME HTTPInv, [Next]_vars PROVE HTTPInv'
  OBVIOUS
<1> USE DEF HTTPInv
<1>1. CASE UNCHANGED <<httpVars, swarm>>
  BY <1>1 DEF httpVars
<1>2. CASE HTTPNext
  <2>1. CASE Ask \/ RespondError \/ ParsePeersPanics \/ HTTPReport \/ HTTPShutdown
    BY <2>1 DEF Ask, RespondError, ParsePeersPanics, HTTPReport, HTTPShutdown
  <2>2. CASE Respond
    BY <2>2 DEF Respond
  <2> QED  BY <1>2, <2>1, <2>2 DEF HTTPNext
<1>3. CASE SwarmChanges
  BY <1>3 DEF SwarmChanges
<1>4. CASE UDPNext /\ UNCHANGED httpVars
  <2>1. UNCHANGED swarm
    BY <1>4 DEF UDPNext, UDPTaskNext, Initialize, PerformAnnounce, Report, Shutdown, ConnectAnswered,
      AnnounceAnswered, WrongAnswer, ConnectionExpires, TrackerAnswers, Lose
  <2> QED  BY <1>1, <1>4, <2>1
<1> QED  BY <1>1, <1>2, <1>3, <1>4 DEF Next, vars

THEOREM HTTPInvariant == Spec => []HTTPInv
BY InitHTTP, StepHTTP, PTL DEF Spec

------------------------------------------------------------------------------
(* Each task's reports are events of its own, so that to the other task they *)
(* are somebody else's.                                                      *)
LEMMA UDPReports ==
  ASSUME UDPInv, task = "announcing"
  PROVE  /\ Outcome \in SessionEvent /\ Outcome.by = "udp"
         /\ \/ Outcome = Failure("udp")
            \/ \E peers \in SUBSET udpKnown : Outcome = Success("udp", peers)
<1> DEFINE peers == UNION {response[f] : f \in {g \in Family : step[g] = "ok"}}
<1>1. peers \subseteq udpKnown
  BY DEF UDPInv, KnownPeers
<1>2. peers \subseteq Address
  BY <1>1 DEF UDPInv, Typed
<1>3. Outcome = Failure("udp") \/ Outcome = Success("udp", peers)
  BY DEF Outcome
<1> HIDE DEF peers
<1> QED  BY <1>1, <1>2, <1>3 DEF SessionEvent, Failure, Success

LEMMA HTTPReports ==
  ASSUME HTTPInv, http = "reporting"
  PROVE  /\ outcome \in SessionEvent /\ outcome.by = "http"
         /\ \/ outcome = Failure("http")
            \/ \E peers \in SUBSET httpKnown : outcome = Success("http", peers)
BY DEF HTTPInv, SessionEvent, Failure, Success

(* What each step of the program is to an announcer.                         *)
LEMMA UDPSteps ==
  ASSUME UDPInv, HTTPInv, [Next]_vars
  PROVE  [UDPAnnouncer!Next]_(UDPAnnouncer!annVars)
<1> USE DEF UDPAnnouncer!annVars
<1>1. CASE UDPNext /\ UNCHANGED httpVars
  <2>1. CASE Initialize
    BY <2>1 DEF Initialize, UDPInv, Quiet, UDPAnnouncer!Next, UDPAnnouncer!End
  <2>2. CASE PerformAnnounce
    BY <2>2 DEF PerformAnnounce, UDPAnnouncer!Next, UDPAnnouncer!Begin
  <2>3. CASE Report
    BY <2>3, UDPReports DEF Report, UDPAnnouncer!Next, UDPAnnouncer!Report, Send, UDPAnnouncer!Send,
      Success, Failure, UDPAnnouncer!Success, UDPAnnouncer!Failure
  <2>4. CASE Shutdown
    BY <2>4 DEF Shutdown, UDPInv, Quiet, UDPAnnouncer!Next, UDPAnnouncer!End
  <2>5. ASSUME NEW f \in Family,
               \/ ConnectAnswered(f) \/ AnnounceAnswered(f) \/ WrongAnswer(f) \/ ConnectionExpires(f)
               \/ TrackerAnswers(f) \/ Lose(f)
        PROVE  UNCHANGED UDPAnnouncer!annVars
    BY <2>5 DEF ConnectAnswered, AnnounceAnswered, WrongAnswer, ConnectionExpires, TrackerAnswers, Lose
  <2> QED  BY <1>1, <2>1, <2>2, <2>3, <2>4, <2>5 DEF UDPNext, UDPTaskNext
<1>2. CASE HTTPNext /\ UNCHANGED udpVars
  <2>1. CASE HTTPReport
    BY <1>2, <2>1, HTTPReports DEF HTTPReport, udpVars, UDPAnnouncer!Next, UDPAnnouncer!ChannelMoves, Send,
      UDPAnnouncer!Send, SessionEvent, UDPAnnouncer!SessionEvent, Address, UDPAnnouncer!Address
  <2>2. CASE Ask \/ Respond \/ RespondError \/ ParsePeersPanics \/ HTTPShutdown
    BY <1>2, <2>2 DEF Ask, Respond, RespondError, ParsePeersPanics, HTTPShutdown, udpVars
  <2> QED  BY <1>2, <2>1, <2>2 DEF HTTPNext
<1>3. CASE SessionTakes /\ UNCHANGED <<udpVars, httpVars, swarm>>
  BY <1>3 DEF SessionTakes, udpVars, UDPAnnouncer!Next, UDPAnnouncer!ChannelMoves, UDPAnnouncer!SessionTakes
<1>4. CASE SwarmChanges
  BY <1>4 DEF SwarmChanges, UDPAnnouncer!Next, UDPAnnouncer!SwarmChanges, Address, UDPAnnouncer!Address
<1>5. CASE UNCHANGED vars
  BY <1>5 DEF vars, udpVars
<1> QED  BY <1>1, <1>2, <1>3, <1>4, <1>5 DEF Next

LEMMA HTTPSteps ==
  ASSUME UDPInv, HTTPInv, [Next]_vars
  PROVE  [HTTPAnnouncer!Next]_(HTTPAnnouncer!annVars)
<1> USE DEF HTTPAnnouncer!annVars
<1>1. CASE HTTPNext /\ UNCHANGED udpVars
  <2>1. CASE Ask
    BY <2>1 DEF Ask, HTTPAnnouncer!Next, HTTPAnnouncer!Begin
  <2>2. CASE Respond \/ RespondError
    BY <2>2 DEF Respond, RespondError
  <2>3. CASE ParsePeersPanics \/ HTTPShutdown
    BY <2>3 DEF ParsePeersPanics, HTTPShutdown, HTTPInv, HTTPAnnouncer!Next, HTTPAnnouncer!End
  <2>4. CASE HTTPReport
    BY <2>4, HTTPReports DEF HTTPReport, HTTPAnnouncer!Next, HTTPAnnouncer!Report, Send, HTTPAnnouncer!Send,
      Success, Failure, HTTPAnnouncer!Success, HTTPAnnouncer!Failure
  <2> QED  BY <1>1, <2>1, <2>2, <2>3, <2>4 DEF HTTPNext
<1>2. CASE UDPNext /\ UNCHANGED httpVars
  <2>1. CASE Report
    BY <1>2, <2>1, UDPReports DEF Report, httpVars, HTTPAnnouncer!Next, HTTPAnnouncer!ChannelMoves, Send,
      HTTPAnnouncer!Send, SessionEvent, HTTPAnnouncer!SessionEvent, Address, HTTPAnnouncer!Address
  <2>2. CASE Initialize \/ PerformAnnounce \/ Shutdown
    BY <1>2, <2>2 DEF Initialize, PerformAnnounce, Shutdown, httpVars
  <2>3. ASSUME NEW f \in Family,
               \/ ConnectAnswered(f) \/ AnnounceAnswered(f) \/ WrongAnswer(f) \/ ConnectionExpires(f)
               \/ TrackerAnswers(f) \/ Lose(f)
        PROVE  UNCHANGED <<swarm, tracker_resp>>
    BY <2>3 DEF ConnectAnswered, AnnounceAnswered, WrongAnswer, ConnectionExpires, TrackerAnswers, Lose
  <2> QED  BY <1>2, <2>1, <2>2, <2>3 DEF UDPNext, UDPTaskNext, httpVars
<1>3. CASE SessionTakes /\ UNCHANGED <<udpVars, httpVars, swarm>>
  BY <1>3 DEF SessionTakes, httpVars, HTTPAnnouncer!Next, HTTPAnnouncer!ChannelMoves, HTTPAnnouncer!SessionTakes
<1>4. CASE SwarmChanges
  BY <1>4 DEF SwarmChanges, HTTPAnnouncer!Next, HTTPAnnouncer!SwarmChanges, Address, HTTPAnnouncer!Address
<1>5. CASE UNCHANGED vars
  BY <1>5 DEF vars, httpVars
<1> QED  BY <1>1, <1>2, <1>3, <1>4, <1>5 DEF Next

(* What the UDP task reports was in the swarm during the announce reported   *)
(* (udp.rs:149, 325), whatever is lost, late or delivered twice.             *)
THEOREM UDPAnnouncerImplemented == Spec => UDPImplementsAnnouncer
<1>1. Init => UDPAnnouncer!Init
  BY DEF Init, ChannelInit, UDPInit, SpawnTrackers, UDPAnnouncer!Init, UDPAnnouncer!ChannelInit, Address,
    UDPAnnouncer!Address
<1> QED
  BY <1>1, UDPSteps, UDPInvariant, HTTPInvariant, PTL DEF Spec, UDPImplementsAnnouncer, UDPAnnouncer!Spec

(* The HTTP task reports once for each announce (http.rs:33-79), and what was*)
(* in the swarm during it.                                                   *)
THEOREM HTTPAnnouncerImplemented == Spec => HTTPImplementsAnnouncer
<1>1. Init => HTTPAnnouncer!Init
  BY DEF Init, ChannelInit, HTTPInit, SpawnTrackers, HTTPAnnouncer!Init, HTTPAnnouncer!ChannelInit, Address,
    HTTPAnnouncer!Address
<1> QED
  BY <1>1, HTTPSteps, UDPInvariant, HTTPInvariant, PTL DEF Spec, HTTPImplementsAnnouncer, HTTPAnnouncer!Spec

------------------------------------------------------------------------------
(* Contexts are made once, and a family without one is never awaited.        *)
ContextsKept ==
    /\ task \in {"absent", "initializing", "waiting", "announcing", "stopped", "panicked"}
    /\ contexts \in SUBSET Family
    /\ connection \subseteq contexts
    /\ task \in {"absent", "initializing"} => contexts = {}
    /\ \A f \in Family : Awaiting(f) => f \in contexts

AllTyped == UDPInv /\ HTTPInv /\ HTTPTypeOK /\ ContextsKept /\ ChannelTypeOK

LEMMA AllTypedTypeOK == AllTyped => TypeOK
BY DEF AllTyped, UDPInv, Typed, ContextsKept, TypeOK, UDPTypeOK, ChannelTypeOK, HTTPTypeOK

LEMMA InitAllTyped == Init => ContextsKept /\ ChannelTypeOK /\ HTTPTypeOK
BY TrackerChannelAssumption DEF Init, ChannelInit, UDPInit, HTTPInit, SpawnTrackers, ContextsKept, Awaiting,
  ChannelTypeOK, HTTPTypeOK, SessionEvent, Failure

LEMMA ContextsStep == UDPInv /\ ContextsKept /\ [Next]_vars => ContextsKept'
<1> SUFFICES ASSUME UDPInv, ContextsKept, [Next]_vars PROVE ContextsKept'
  OBVIOUS
<1>1. CASE UNCHANGED <<task, contexts, connection, step>>
  BY <1>1 DEF ContextsKept, Awaiting
<1>2. CASE Initialize \/ PerformAnnounce \/ Report \/ Shutdown
  BY <1>2 DEF UDPInv, Quiet, Initialize, PerformAnnounce, NoContext, Report, Shutdown, ContextsKept, Awaiting
<1>3. ASSUME NEW f \in Family, ConnectAnswered(f) \/ AnnounceAnswered(f) \/ WrongAnswer(f)
      PROVE  ContextsKept'
  <2>1. task = "announcing" /\ f \in contexts /\ UNCHANGED <<task, contexts>>
    BY <1>3 DEF UDPInv, Quiet, ContextsKept, Awaiting, ConnectAnswered, AnnounceAnswered, WrongAnswer
  <2>2. connection' \subseteq connection \cup {f}
    BY <1>3 DEF ConnectAnswered, AnnounceAnswered, WrongAnswer
  <2>3. \A g \in Family \ {f} : step'[g] = step[g]
    BY <1>3 DEF ConnectAnswered, AnnounceAnswered, WrongAnswer, UDPInv, Typed
  <2> QED  BY <2>1, <2>2, <2>3 DEF ContextsKept, Awaiting
<1>4. CASE \E f \in Family : ConnectionExpires(f)
  BY <1>4 DEF ConnectionExpires, ContextsKept, Awaiting
<1> QED
  BY <1>1, <1>2, <1>3, <1>4 DEF Next, UDPNext, UDPTaskNext, udpVars, SwarmChanges, TrackerAnswers, Lose, vars

(* Reports are events, and the channel is never fuller than it can be.       *)
LEMMA ChannelStep == AllTyped /\ [Next]_vars => ChannelTypeOK'
<1> SUFFICES ASSUME AllTyped, [Next]_vars PROVE ChannelTypeOK'
  OBVIOUS
<1>0. tracker_resp \in Seq(SessionEvent) /\ Len(tracker_resp) <= TRACKER_RESP /\ TRACKER_RESP \in Nat
  BY TrackerChannelAssumption DEF AllTyped, ChannelTypeOK
<1>1. ASSUME NEW event \in SessionEvent, Send(event), UNCHANGED swarm PROVE ChannelTypeOK'
  BY <1>0, <1>1 DEF Send, ChannelTypeOK, AllTyped
<1>2. CASE Report \/ HTTPReport
  BY <1>1, <1>2, UDPReports, HTTPReports DEF AllTyped, Report, HTTPReport
<1>3. CASE SessionTakes /\ UNCHANGED swarm
  <2>1. Tail(tracker_resp) \in Seq(SessionEvent) /\ Len(Tail(tracker_resp)) <= TRACKER_RESP
    BY <1>0, <1>3 DEF SessionTakes
  <2> QED  BY <1>3, <2>1 DEF SessionTakes, ChannelTypeOK, AllTyped
<1>4. CASE UNCHANGED tracker_resp /\ swarm' \subseteq Address
  BY <1>4 DEF AllTyped, ChannelTypeOK, SessionEvent, Address
<1>5. \/ Report \/ HTTPReport
      \/ SessionTakes /\ UNCHANGED swarm
      \/ UNCHANGED tracker_resp /\ swarm' \subseteq Address
  <2>1. swarm \subseteq Address
    BY DEF AllTyped, ChannelTypeOK
  <2>2. CASE UDPNext
    BY <2>1, <2>2 DEF UDPNext, UDPTaskNext, Initialize, PerformAnnounce, Shutdown, ConnectAnswered,
      AnnounceAnswered, WrongAnswer, ConnectionExpires, TrackerAnswers, Lose
  <2>3. CASE HTTPNext
    BY <2>1, <2>3 DEF HTTPNext, Ask, Respond, RespondError, ParsePeersPanics, HTTPShutdown
  <2>4. CASE SwarmChanges \/ UNCHANGED vars
    BY <2>1, <2>4 DEF SwarmChanges, vars
  <2> QED  BY <2>2, <2>3, <2>4 DEF Next
<1> QED  BY <1>2, <1>3, <1>4, <1>5

LEMMA HTTPTypeStep == HTTPInv /\ HTTPTypeOK /\ [Next]_vars => HTTPTypeOK'
<1> SUFFICES ASSUME HTTPInv, HTTPTypeOK, [Next]_vars PROVE HTTPTypeOK'
  OBVIOUS
<1>1. swarm \subseteq Address /\ \A peers \in SUBSET Address : Success("http", peers) \in SessionEvent
  BY DEF HTTPInv, SessionEvent, Success
<1>2. Failure("http") \in SessionEvent
  BY DEF SessionEvent, Failure
<1>3. CASE HTTPNext
  BY <1>1, <1>2, <1>3
    DEF HTTPNext, Ask, Respond, RespondError, ParsePeersPanics, HTTPReport, HTTPShutdown, HTTPTypeOK
<1>4. CASE SwarmChanges
  BY <1>4 DEF SwarmChanges, HTTPTypeOK
<1>5. CASE UNCHANGED httpVars
  BY <1>5 DEF httpVars, HTTPTypeOK
<1> QED  BY <1>3, <1>4, <1>5 DEF Next, vars, httpVars

(* Phases, datagrams and reports keep their types, and tracker_resp never    *)
(* holds more than its capacity (session.rs:46).                             *)
THEOREM TrackersTypeCorrect == Spec => []TypeOK
<1>1. Init => AllTyped
  BY InitUDP, InitHTTP, InitAllTyped DEF AllTyped
<1>2. AllTyped /\ UDPInv' /\ [Next]_vars => AllTyped'
  BY StepHTTP, ContextsStep, ChannelStep, HTTPTypeStep DEF AllTyped
<1> QED  BY <1>1, <1>2, UDPInvariant, AllTypedTypeOK, PTL DEF Spec

------------------------------------------------------------------------------
(* What is under way for one family, counted.                                *)
Allowed(f) == (IF Awaiting(f) THEN 1 ELSE 0) + copies

FewAround(f) ==
    /\ IsFiniteSet(requests[f]) /\ IsFiniteSet(replies[f])
    /\ Cardinality(requests[f]) + Cardinality(replies[f]) <= Allowed(f)

Backlog == \A f \in Family : FewAround(f)

LEMMA OneMore ==
  ASSUME NEW S, NEW x, IsFiniteSet(S)
  PROVE  /\ IsFiniteSet(S \cup {x})
         /\ Cardinality(S) \in Nat /\ Cardinality(S \cup {x}) \in Nat
         /\ Cardinality(S \cup {x}) <= Cardinality(S) + 1
<1>1. Cardinality(S) \in Nat
  BY FS_CardinalityType
<1>2. /\ IsFiniteSet(S \cup {x})
      /\ Cardinality(S \cup {x}) = IF x \in S THEN Cardinality(S) ELSE Cardinality(S) + 1
  BY FS_AddElement
<1> QED  BY <1>1, <1>2

LEMMA OneLess ==
  ASSUME NEW S, NEW x \in S, IsFiniteSet(S)
  PROVE  /\ IsFiniteSet(S \ {x})
         /\ Cardinality(S) \in Nat /\ Cardinality(S \ {x}) \in Nat
         /\ Cardinality(S \ {x}) + 1 = Cardinality(S)
<1>1. Cardinality(S) \in Nat
  BY FS_CardinalityType
<1>2. IsFiniteSet(S \ {x}) /\ Cardinality(S \ {x}) = Cardinality(S) - 1
  BY FS_RemoveElement
<1>3. Cardinality(S \ {x}) \in Nat
  BY <1>2, FS_CardinalityType
<1> QED  BY <1>1, <1>2, <1>3

(* Fewer datagrams, and no less allowed.                                     *)
LEMMA FewerAround ==
  ASSUME NEW f \in Family, FewAround(f), requests'[f] \subseteq requests[f], replies'[f] \subseteq replies[f],
         Allowed(f) \in Nat, Allowed(f)' \in Nat, Allowed(f) <= Allowed(f)'
  PROVE  FewAround(f)'
<1>1. /\ IsFiniteSet(requests'[f]) /\ Cardinality(requests'[f]) <= Cardinality(requests[f])
      /\ IsFiniteSet(replies'[f]) /\ Cardinality(replies'[f]) <= Cardinality(replies[f])
  BY FS_Subset DEF FewAround
<1>2. /\ Cardinality(requests[f]) \in Nat /\ Cardinality(replies[f]) \in Nat
      /\ Cardinality(requests'[f]) \in Nat /\ Cardinality(replies'[f]) \in Nat
  BY <1>1, FS_CardinalityType DEF FewAround
<1>3. Cardinality(requests[f]) + Cardinality(replies[f]) <= Allowed(f)
  BY DEF FewAround
<1>4. Cardinality(requests'[f]) + Cardinality(replies'[f]) <= Allowed(f)'
  BY <1>1, <1>2, <1>3
<1> QED  BY <1>1, <1>4 DEF FewAround

LEMMA AllowedIsNat == ASSUME copies \in Nat PROVE \A f \in Family : Allowed(f) \in Nat
BY DEF Allowed

(* A step that leaves a family's exchange and its datagrams alone.           *)
LEMMA OtherFamilyKept ==
  ASSUME UDPInv, UDPInv', NEW f \in Family, FewAround(f), copies <= copies', step'[f] = step[f],
         requests'[f] \subseteq requests[f], replies'[f] \subseteq replies[f]
  PROVE  FewAround(f)'
<1>1. copies \in Nat /\ copies' \in Nat
  BY DEF UDPInv, Typed
<1>2. Allowed(f) \in Nat /\ Allowed(f)' \in Nat /\ Allowed(f) <= Allowed(f)'
  BY <1>1 DEF Allowed, Awaiting
<1> QED  BY <1>2, FewerAround

(* A request for each family that has a context, where nothing was awaited.  *)
LEMMA PerformKeepsBacklog == UDPInv /\ UDPInv' /\ Backlog /\ PerformAnnounce => Backlog'
<1> SUFFICES ASSUME UDPInv, UDPInv', Backlog, PerformAnnounce, NEW f \in Family PROVE FewAround(f)'
  BY DEF Backlog
<1>1. FewAround(f) /\ copies \in Nat /\ copies' = copies /\ replies' = replies
  BY DEF Backlog, UDPInv, Typed, PerformAnnounce
<1>2. Allowed(f) = copies
  BY <1>1 DEF Allowed, Awaiting, UDPInv, Quiet, PerformAnnounce
<1>3. CASE f \in contexts
  <2>1. PICK d : requests'[f] = requests[f] \cup {d}
    BY <1>3 DEF PerformAnnounce
  <2>2. step'[f] \in {"connect", "announce"}
    BY <1>3 DEF PerformAnnounce, FirstRequest
  <2>3. Allowed(f)' = 1 + copies
    BY <1>1, <2>2 DEF Allowed, Awaiting
  <2>4. /\ IsFiniteSet(requests'[f])
        /\ Cardinality(requests[f]) \in Nat /\ Cardinality(requests'[f]) \in Nat
        /\ Cardinality(requests'[f]) <= Cardinality(requests[f]) + 1
    BY <1>1, <2>1, OneMore DEF FewAround
  <2>5. IsFiniteSet(replies'[f]) /\ Cardinality(replies[f]) \in Nat /\ Cardinality(replies'[f]) = Cardinality(replies[f])
    BY <1>1, FS_CardinalityType DEF FewAround
  <2>6. Cardinality(requests[f]) + Cardinality(replies[f]) <= copies
    BY <1>1, <1>2 DEF FewAround
  <2>7. Cardinality(requests'[f]) + Cardinality(replies'[f]) <= 1 + copies
    BY <1>1, <2>4, <2>5, <2>6
  <2> QED  BY <2>3, <2>4, <2>5, <2>7 DEF FewAround
<1>4. CASE f \notin contexts
  <2>1. requests'[f] = requests[f]
    BY <1>4 DEF PerformAnnounce
  <2>2. Allowed(f) \in Nat /\ Allowed(f)' \in Nat /\ Allowed(f) <= Allowed(f)'
    BY <1>1, <1>2 DEF Allowed
  <2> QED  BY <1>1, <2>1, <2>2, FewerAround
<1> QED  BY <1>3, <1>4

(* recv takes one datagram away, or one more was duplicated.                 *)
LEMMA RecvCounted ==
  ASSUME UDPInv, NEW f \in Family, FewAround(f), NEW reply \in replies[f], Recv(f, reply)
  PROVE  /\ IsFiniteSet(replies'[f])
         /\ Cardinality(replies[f]) \in Nat /\ Cardinality(replies'[f]) \in Nat
         /\ copies' \in Nat /\ copies <= copies'
         /\ Cardinality(replies'[f]) + 1 <= Cardinality(replies[f]) + (copies' - copies)
         /\ \A g \in Family \ {f} : replies'[g] = replies[g]
<1>1. copies \in Nat /\ replies \in [Family -> SUBSET Reply]
  BY DEF UDPInv, Typed
<1>2. IsFiniteSet(replies[f]) /\ Cardinality(replies[f]) \in Nat
  BY FS_CardinalityType DEF FewAround
<1>3. CASE replies' = [replies EXCEPT ![f] = @ \ {reply}] /\ UNCHANGED copies
  <2>1. replies'[f] = replies[f] \ {reply} /\ \A g \in Family \ {f} : replies'[g] = replies[g]
    BY <1>1, <1>3
  <2>2. /\ IsFiniteSet(replies'[f]) /\ Cardinality(replies'[f]) \in Nat
        /\ Cardinality(replies'[f]) + 1 = Cardinality(replies[f])
    BY <1>2, <2>1, OneLess
  <2> QED  BY <1>1, <1>2, <1>3, <2>1, <2>2
<1>4. CASE copies' = copies + 1 /\ UNCHANGED replies
  BY <1>1, <1>2, <1>4
<1> QED  BY <1>3, <1>4 DEF Recv

(* The answer that was awaited costs its request; every other one costs the  *)
(* exchange.                                                                 *)
LEMMA AnswersKeepBacklog ==
  ASSUME UDPInv, UDPInv', Backlog,
         NEW f \in Family, ConnectAnswered(f) \/ AnnounceAnswered(f) \/ WrongAnswer(f)
  PROVE  Backlog'
<1>1. PICK reply \in replies[f] : Recv(f, reply)
  BY DEF ConnectAnswered, AnnounceAnswered, WrongAnswer
<1>2. /\ IsFiniteSet(replies'[f])
      /\ Cardinality(replies[f]) \in Nat /\ Cardinality(replies'[f]) \in Nat
      /\ copies' \in Nat /\ copies <= copies'
      /\ Cardinality(replies'[f]) + 1 <= Cardinality(replies[f]) + (copies' - copies)
      /\ \A g \in Family \ {f} : replies'[g] = replies[g]
  BY <1>1, RecvCounted DEF Backlog
<1>3. copies \in Nat /\ requests \in [Family -> SUBSET Request]
  BY DEF UDPInv, Typed
<1>4. ASSUME NEW g \in Family \ {f} PROVE FewAround(g)'
  <2>1. step'[g] = step[g] /\ requests'[g] = requests[g]
    BY DEF ConnectAnswered, AnnounceAnswered, WrongAnswer, UDPInv, Typed
  <2> QED  BY <1>2, <2>1, OtherFamilyKept DEF Backlog
<1>5. /\ Allowed(f) = 1 + copies
      /\ IsFiniteSet(requests[f]) /\ Cardinality(requests[f]) \in Nat
      /\ Cardinality(requests[f]) + Cardinality(replies[f]) <= 1 + copies
  <2>1. Allowed(f) = 1 + copies
    BY DEF ConnectAnswered, AnnounceAnswered, WrongAnswer, Allowed, Awaiting
  <2> QED  BY <2>1, FS_CardinalityType DEF Backlog, FewAround
<1>6. ASSUME ConnectAnswered(f) PROVE FewAround(f)'
  <2>1. PICK d : requests' = [requests EXCEPT ![f] = @ \cup {d}]
    BY <1>6 DEF ConnectAnswered
  <2>2. /\ IsFiniteSet(requests'[f]) /\ Cardinality(requests'[f]) \in Nat
        /\ Cardinality(requests'[f]) <= Cardinality(requests[f]) + 1
    BY <1>3, <1>5, <2>1, OneMore
  <2>3. Allowed(f)' = 1 + copies'
    BY <1>6 DEF ConnectAnswered, Allowed, Awaiting, UDPInv, Typed
  <2>4. Cardinality(requests'[f]) + Cardinality(replies'[f]) <= 1 + copies'
    BY <1>2, <1>3, <1>5, <2>2
  <2> QED  BY <1>2, <2>2, <2>3, <2>4 DEF FewAround
<1>7. ASSUME AnnounceAnswered(f) \/ WrongAnswer(f) PROVE FewAround(f)'
  <2>1. requests' = requests /\ step'[f] \in {"ok", "err"}
    BY <1>7 DEF AnnounceAnswered, WrongAnswer, UDPInv, Typed
  <2>2. Allowed(f)' = copies'
    BY <1>2, <2>1 DEF Allowed, Awaiting
  <2>3. Cardinality(requests'[f]) + Cardinality(replies'[f]) <= copies'
    BY <1>2, <1>3, <1>5, <2>1
  <2> QED  BY <1>2, <1>5, <2>1, <2>2, <2>3 DEF FewAround
<1>8. FewAround(f)'
  BY <1>6, <1>7
<1> QED  BY <1>4, <1>8 DEF Backlog

(* An answer takes its request's place, or one more was duplicated; what is  *)
(* lost makes room.                                                          *)
LEMMA NetworkKeepsBacklog ==
  ASSUME UDPInv, UDPInv', Backlog, NEW f \in Family, TrackerAnswers(f) \/ Lose(f)
  PROVE  Backlog'
<1>1. CASE TrackerAnswers(f)
  <2>0. PICK request \in requests[f] : \E reply :
          /\ replies' = [replies EXCEPT ![f] = @ \cup {reply}]
          /\ \/ /\ requests' = [requests EXCEPT ![f] = @ \ {request}] /\ UNCHANGED copies
             \/ copies' = copies + 1 /\ UNCHANGED requests
    BY <1>1, Zenon DEF TrackerAnswers
  <2>1. PICK reply :
          /\ replies' = [replies EXCEPT ![f] = @ \cup {reply}]
          /\ \/ /\ requests' = [requests EXCEPT ![f] = @ \ {request}] /\ UNCHANGED copies
             \/ copies' = copies + 1 /\ UNCHANGED requests
    BY <2>0
  <2>2. /\ copies \in Nat /\ step' = step
        /\ requests \in [Family -> SUBSET Request] /\ replies \in [Family -> SUBSET Reply]
    BY <1>1 DEF TrackerAnswers, UDPInv, Typed
  <2>3. ASSUME NEW g \in Family \ {f} PROVE FewAround(g)'
    <3>1. step'[g] = step[g] /\ requests'[g] = requests[g] /\ replies'[g] = replies[g] /\ copies <= copies'
      BY <2>1, <2>2
    <3> QED  BY <3>1, OtherFamilyKept DEF Backlog
  <2>4. /\ IsFiniteSet(requests[f]) /\ IsFiniteSet(replies[f])
        /\ Cardinality(requests[f]) \in Nat /\ Cardinality(replies[f]) \in Nat
        /\ Cardinality(requests[f]) + Cardinality(replies[f]) <= Allowed(f)
    BY FS_CardinalityType DEF Backlog, FewAround
  <2>5. /\ IsFiniteSet(replies'[f]) /\ Cardinality(replies'[f]) \in Nat
        /\ Cardinality(replies'[f]) <= Cardinality(replies[f]) + 1
    BY <2>1, <2>2, <2>4, OneMore
  <2>6. /\ IsFiniteSet(requests'[f]) /\ Cardinality(requests'[f]) \in Nat /\ copies' \in Nat
        /\ Cardinality(requests'[f]) + 1 <= Cardinality(requests[f]) + (copies' - copies)
    <3>1. CASE requests' = [requests EXCEPT ![f] = @ \ {request}] /\ UNCHANGED copies
      <4>1. requests'[f] = requests[f] \ {request}
        BY <2>2, <3>1
      <4>2. /\ IsFiniteSet(requests'[f]) /\ Cardinality(requests'[f]) \in Nat
            /\ Cardinality(requests'[f]) + 1 = Cardinality(requests[f])
        BY <2>4, <4>1, OneLess
      <4> QED  BY <2>2, <2>4, <3>1, <4>2
    <3>2. CASE copies' = copies + 1 /\ UNCHANGED requests
      BY <2>2, <2>4, <3>2
    <3> QED  BY <2>1, <3>1, <3>2
  <2>7. Allowed(f) \in Nat /\ Allowed(f)' = Allowed(f) + (copies' - copies)
    BY <2>2, <2>6 DEF Allowed, Awaiting
  <2>8. Cardinality(requests'[f]) + Cardinality(replies'[f]) <= Allowed(f)'
    BY <2>2, <2>4, <2>5, <2>6, <2>7
  <2>9. FewAround(f)'
    BY <2>5, <2>6, <2>8 DEF FewAround
  <2> QED  BY <2>3, <2>9 DEF Backlog
<1>2. CASE Lose(f)
  <2>1. UNCHANGED <<copies, step>> /\ \A g \in Family : requests'[g] \subseteq requests[g] /\ replies'[g] \subseteq replies[g]
    BY <1>2 DEF Lose, UDPInv, Typed
  <2>2. copies <= copies'
    BY <2>1 DEF UDPInv, Typed
  <2>3. ASSUME NEW g \in Family PROVE FewAround(g)'
    BY <2>1, <2>2, OtherFamilyKept DEF Backlog
  <2> QED  BY <2>3 DEF Backlog
<1> QED  BY <1>1, <1>2

LEMMA BacklogStep == UDPInv /\ UDPInv' /\ Backlog /\ [Next]_vars => Backlog'
<1> SUFFICES ASSUME UDPInv, UDPInv', Backlog, [Next]_vars PROVE Backlog'
  OBVIOUS
<1>1. ASSUME UNCHANGED <<requests, replies, copies, step>> PROVE Backlog'
  BY <1>1 DEF Backlog, FewAround, Allowed, Awaiting
<1>2. CASE Report
  <2>1. UNCHANGED <<requests, replies, copies>> /\ \A f \in Family : ~Awaiting(f) /\ ~Awaiting(f)'
    BY <1>2 DEF Report, Awaiting, network
  <2> QED  BY <2>1 DEF Backlog, FewAround, Allowed
<1>3. CASE Initialize \/ Shutdown \/ \E f \in Family : ConnectionExpires(f)
  BY <1>1, <1>3 DEF Initialize, Shutdown, ConnectionExpires, network
<1>4. CASE SwarmChanges \/ UNCHANGED udpVars
  BY <1>1, <1>4 DEF SwarmChanges, network, udpVars
<1> QED
  BY <1>2, <1>3, <1>4, PerformKeepsBacklog, AnswersKeepBacklog, NetworkKeepsBacklog
  DEF Next, UDPNext, UDPTaskNext, vars

(* A duplicated datagram costs one answer and not more (udp.rs:79, 149): what*)
(* is left over never exceeds the number of duplicates, for any number of    *)
(* announces, errors and losses.                                             *)
THEOREM BacklogIsBounded == Spec => []BacklogBounded
<1>1. Init => Backlog
  <2> SUFFICES ASSUME Init, NEW f \in Family PROVE FewAround(f)
    BY DEF Backlog
  <2>1. requests[f] = {} /\ replies[f] = {} /\ Allowed(f) = 0
    BY DEF Init, UDPInit, Allowed, Awaiting
  <2>2. IsFiniteSet({}) /\ Cardinality({}) = 0
    BY FS_EmptySet
  <2> QED  BY <2>1, <2>2 DEF FewAround
<1>2. Backlog => BacklogBounded
  BY DEF Backlog, FewAround, Allowed, BacklogBounded
<1> QED  BY <1>1, <1>2, BacklogStep, UDPInvariant, PTL DEF Spec
===============================================================================
