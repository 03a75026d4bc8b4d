----------------------------- MODULE ProgramProofs ----------------------------
(* For any number of files, listeners and torrents and any capacities: no    *)
(* channel holds more than it can, an incoming peer reaches a session of its *)
(* own torrent, and of those the one that was started last.                  *)
EXTENDS Program, FiniteSetTheorems, FunctionTheorems, TLAPS

Command == {AddTorrent} \cup {IncomingPeer(h) : h \in Hash}

(* Commands and states of the client are told apart by their first component.*)
LEMMA Different ==
  /\ \A h : AddTorrent # IncomingPeer(h)
  /\ Idle # Gone
  /\ \A s, h : Forwarding(s, h) \notin {Idle, Gone}
BY DEF AddTorrent, IncomingPeer, Idle, Gone, Forwarding

------------------------------------------------------------------------------
(* Queues.                                                                   *)
LEMMA Sent ==
  ASSUME NEW S, NEW q \in Seq(S), NEW e \in S
  PROVE  /\ Append(q, e) \in Seq(S) /\ Len(Append(q, e)) = Len(q) + 1
         /\ \A i \in 1..Len(q) : Append(q, e)[i] = q[i]
         /\ Append(q, e)[Len(q) + 1] = e
OBVIOUS

LEMMA Taken ==
  ASSUME NEW S, NEW q \in Seq(S), q # <<>>
  PROVE  /\ Head(q) \in S /\ Head(q) = q[1] /\ 1 \in DOMAIN q
         /\ Tail(q) \in Seq(S) /\ Len(Tail(q)) = Len(q) - 1
         /\ \A i \in DOMAIN Tail(q) : i + 1 \in DOMAIN q /\ Tail(q)[i] = q[i + 1]
OBVIOUS

(* Where AddTorrent waits in a queue of commands.                            *)
Additions(q) == {i \in DOMAIN q : q[i] = AddTorrent}

LEMMA AdditionsFinite ==
  ASSUME NEW q \in Seq(Command)
  PROVE  IsFiniteSet(Additions(q)) /\ Cardinality(Additions(q)) \in Nat
<1>1. Additions(q) \in SUBSET (1..Len(q)) /\ Len(q) \in Nat
  BY DEF Additions
<1>2. IsFiniteSet(1..Len(q))
  BY <1>1, FS_Interval
<1>3. IsFiniteSet(Additions(q))
  BY <1>1, <1>2, FS_Subset
<1> QED  BY <1>3, FS_CardinalityType

LEMMA AdditionsSent ==
  ASSUME NEW q \in Seq(Command), NEW cmd \in Command
  PROVE  Cardinality(Additions(Append(q, cmd))) <= Cardinality(Additions(q)) + (IF cmd = AddTorrent THEN 1 ELSE 0)
<1>1. DOMAIN Append(q, cmd) = DOMAIN q \cup {Len(q) + 1}
  OBVIOUS
<1>2. /\ \A i \in DOMAIN q : Append(q, cmd)[i] = q[i]
      /\ Append(q, cmd)[Len(q) + 1] = cmd
  OBVIOUS
<1>3. IsFiniteSet(Additions(q)) /\ Cardinality(Additions(q)) \in Nat
  BY AdditionsFinite
<1>4. CASE cmd = AddTorrent
  <2>1. Additions(Append(q, cmd)) = Additions(q) \cup {Len(q) + 1}
    BY <1>1, <1>2, <1>4 DEF Additions
  <2>2. Cardinality(Additions(q) \cup {Len(q) + 1}) =
          IF Len(q) + 1 \in Additions(q) THEN Cardinality(Additions(q)) ELSE Cardinality(Additions(q)) + 1
    BY <1>3, FS_AddElement
  <2> QED  BY <1>3, <1>4, <2>1, <2>2
<1>5. CASE cmd # AddTorrent
  <2>1. Additions(Append(q, cmd)) = Additions(q)
    BY <1>1, <1>2, <1>5 DEF Additions
  <2> QED  BY <1>3, <1>5, <2>1
<1> QED  BY <1>4, <1>5

LEMMA AdditionsTaken ==
  ASSUME NEW q \in Seq(Command), q # <<>>
  PROVE  Cardinality(Additions(Tail(q))) + (IF Head(q) = AddTorrent THEN 1 ELSE 0) <= Cardinality(Additions(q))
<1> DEFINE later == Additions(q) \ {1}
           shift == [i \in Additions(Tail(q)) |-> i + 1]
<1>1. IsFiniteSet(Additions(q)) /\ Cardinality(Additions(q)) \in Nat
  BY AdditionsFinite
<1>2. Tail(q) \in Seq(Command) /\ Head(q) = q[1] /\ 1 \in DOMAIN q
  BY Taken
<1>3. Cardinality(Additions(Tail(q))) \in Nat
  BY <1>2, AdditionsFinite
<1>4. \A i \in Additions(Tail(q)) : i \in Nat /\ i + 1 \in later
  <2> TAKE i \in Additions(Tail(q))
  <2>1. i \in DOMAIN Tail(q) /\ Tail(q)[i] = AddTorrent /\ i \in Nat \ {0}
    BY <1>2 DEF Additions
  <2>2. i + 1 \in DOMAIN q /\ q[i + 1] = AddTorrent
    BY <2>1, Taken
  <2> QED  BY <2>1, <2>2 DEF Additions
<1>5. shift \in Injection(Additions(Tail(q)), later)
  <2>1. shift \in [Additions(Tail(q)) -> later]
    BY <1>4
  <2>2. \A i, j \in Additions(Tail(q)) : shift[i] = shift[j] => i = j
    BY <1>4
  <2> HIDE DEF shift, later
  <2> QED  BY <2>1, <2>2, Fun_IsInj
<1>6. IsFiniteSet(later) /\ Cardinality(later) \in Nat
  BY <1>1, FS_RemoveElement, FS_CardinalityType
<1>7. Cardinality(Additions(Tail(q))) <= Cardinality(later)
  <2> HIDE DEF shift, later
  <2> QED  BY <1>5, <1>6, FS_Injection
<1>8. Cardinality(later) = IF 1 \in Additions(q) THEN Cardinality(Additions(q)) - 1 ELSE Cardinality(Additions(q))
  BY <1>1, FS_RemoveElement
<1>9. 1 \in Additions(q) <=> Head(q) = AddTorrent
  BY <1>2 DEF Additions
<1> HIDE DEF later
<1> QED  BY <1>1, <1>3, <1>6, <1>7, <1>8, <1>9

------------------------------------------------------------------------------
(* The commands under way to the client.  A session is started for an        *)
(* AddTorrent that the user asked for, at most.                              *)
CommandsInv ==
    /\ adds \in 0..MaxAdds /\ adding \in Nat
    /\ client_rx \in Seq(Command) /\ Len(client_rx) <= CLIENT
    /\ torrent \in Seq(Torrents)
    /\ Len(torrent) + adding + Cardinality(Additions(client_rx)) <= adds

commands == <<adds, adding, client_rx, torrent>>

(* The steps that move a command.                                            *)
LEMMA CommandSteps ==
  ASSUME [Next]_vars
  PROVE  \/ UNCHANGED commands
         \/ OnTorrentAdd \/ AddTorrentSends \/ \E l \in Listeners : ListenerSends(l)
         \/ AddFails \/ AddPanics
         \/ \E t \in Torrents : AddStarts(t)
         \/ \E h \in Hash : ForwardPeer(h)
<1> USE DEF commands, uiVars, clientVars
<1>1. CASE UNCHANGED vars
  BY <1>1 DEF vars
<1>2. ASSUME NEW l \in Listeners, Accept(l) \/ HandshakeRead(l) \/ HandshakeFails(l) PROVE UNCHANGED commands
  BY <1>2 DEF Accept, HandshakeRead, HandshakeFails, ListenerGoesTo
<1>3. ASSUME NEW s \in Sessions, NEW h \in Hash, ClientSends(s, h) PROVE UNCHANGED commands
  BY <1>3 DEF ClientSends
<1>4. ASSUME NEW s \in Sessions,
             \/ SessionNext(s) \/ TrackerReports(s) \/ SchedulerTakes(s)
             \/ SchedulerEnds(s, "dead") \/ SchedulerEnds(s, "stuck")
      PROVE  UNCHANGED commands
  BY <1>4 DEF SessionNext, TakeReport, TakePeer, SessionSends, TrackerReports, SchedulerTakes, SchedulerEnds
<1> QED  BY <1>1, <1>2, <1>3, <1>4 DEF Next, ClientNext

(* A send leaves at most one more AddTorrent under way, and only its own.    *)
LEMMA SendToClientCounted ==
  ASSUME CommandsInv, NEW cmd \in Command, SendToClient(cmd)
  PROVE  /\ client_rx' \in Seq(Command) /\ Len(client_rx') <= CLIENT
         /\ Cardinality(Additions(client_rx)) \in Nat /\ Cardinality(Additions(client_rx')) \in Nat
         /\ Cardinality(Additions(client_rx')) <=
              Cardinality(Additions(client_rx)) + (IF cmd = AddTorrent THEN 1 ELSE 0)
<1>1. CLIENT \in Nat /\ client_rx \in Seq(Command) /\ Len(client_rx) <= CLIENT
  BY ProgramAssumption DEF ProgramAssumption, CommandsInv
<1>2. Cardinality(Additions(client_rx)) \in Nat
  BY <1>1, AdditionsFinite
<1>3. CASE UNCHANGED client_rx
  BY <1>1, <1>2, <1>3
<1>4. CASE Len(client_rx) < CLIENT /\ client_rx' = Append(client_rx, cmd)
  <2>1. client_rx' \in Seq(Command) /\ Len(client_rx') <= CLIENT
    BY <1>1, <1>4, Sent
  <2> QED  BY <1>1, <1>2, <1>4, <2>1, AdditionsFinite, AdditionsSent
<1> QED  BY <1>3, <1>4 DEF SendToClient

LEMMA ClientTakesCounted ==
  ASSUME CommandsInv, NEW cmd, ClientTakes(cmd)
  PROVE  /\ UNCHANGED <<adds, adding>>
         /\ client_rx' \in Seq(Command) /\ Len(client_rx') <= CLIENT
         /\ Cardinality(Additions(client_rx)) \in Nat /\ Cardinality(Additions(client_rx')) \in Nat
         /\ Cardinality(Additions(client_rx')) + (IF cmd = AddTorrent THEN 1 ELSE 0)
              <= Cardinality(Additions(client_rx))
<1>1. /\ CLIENT \in Nat /\ client_rx \in Seq(Command) /\ Len(client_rx) <= CLIENT /\ client_rx # <<>>
      /\ client_rx' = Tail(client_rx) /\ Head(client_rx) = cmd
  BY ProgramAssumption DEF ProgramAssumption, CommandsInv, ClientTakes
<1>2. client_rx' \in Seq(Command) /\ Len(client_rx') <= CLIENT
  BY <1>1, Taken
<1>3. Cardinality(Additions(client_rx)) \in Nat /\ Cardinality(Additions(client_rx')) \in Nat
  BY <1>1, <1>2, AdditionsFinite
<1> QED  BY <1>1, <1>2, <1>3, AdditionsTaken DEF ClientTakes, uiVars

LEMMA CommandsStep == CommandsInv /\ [Next]_vars => CommandsInv'
<1> SUFFICES ASSUME CommandsInv, [Next]_vars PROVE CommandsInv'
  OBVIOUS
<1>0. /\ MaxAdds \in Nat /\ CLIENT \in Nat
      /\ adds \in 0..MaxAdds /\ adding \in Nat
      /\ torrent \in Seq(Torrents) /\ Len(torrent) \in Nat
      /\ client_rx \in Seq(Command) /\ Cardinality(Additions(client_rx)) \in Nat
      /\ Len(torrent) + adding + Cardinality(Additions(client_rx)) <= adds
  BY ProgramAssumption, AdditionsFinite DEF ProgramAssumption, CommandsInv
<1>1. CASE UNCHANGED commands
  BY <1>1 DEF CommandsInv, commands
<1>2. CASE OnTorrentAdd
  BY <1>0, <1>2 DEF OnTorrentAdd, CommandsInv, clientVars
<1>3. CASE AddTorrentSends
  <2>1. adding > 0 /\ adding' = adding - 1 /\ UNCHANGED <<adds, torrent>> /\ SendToClient(AddTorrent)
    BY <1>3 DEF AddTorrentSends, clientVars
  <2>2. /\ client_rx' \in Seq(Command) /\ Len(client_rx') <= CLIENT
        /\ Cardinality(Additions(client_rx')) \in Nat
        /\ Cardinality(Additions(client_rx')) <= Cardinality(Additions(client_rx)) + 1
    BY <2>1, SendToClientCounted DEF Command
  <2>3. Len(torrent') + adding' + Cardinality(Additions(client_rx')) <= adds'
    BY <1>0, <2>1, <2>2
  <2> QED  BY <1>0, <2>1, <2>2, <2>3 DEF CommandsInv
<1>4. ASSUME NEW l \in Listeners, ListenerSends(l) PROVE CommandsInv'
  <2>1. UNCHANGED <<adds, adding, torrent>>
    BY <1>4 DEF ListenerSends, ListenerGoesTo, uiVars, clientVars
  <2>2. PICK h \in Hash : SendToClient(IncomingPeer(h))
    BY <1>4 DEF ListenerSends
  <2>3. IncomingPeer(h) \in Command /\ IncomingPeer(h) # AddTorrent
    BY Different DEF Command
  <2>4. /\ client_rx' \in Seq(Command) /\ Len(client_rx') <= CLIENT
        /\ Cardinality(Additions(client_rx')) \in Nat
        /\ Cardinality(Additions(client_rx')) <= Cardinality(Additions(client_rx)) + 0
    BY <2>2, <2>3, SendToClientCounted
  <2>5. Len(torrent') + adding' + Cardinality(Additions(client_rx')) <= adds'
    BY <1>0, <2>1, <2>4
  <2> QED  BY <1>0, <2>1, <2>4, <2>5 DEF CommandsInv
<1>5. CASE AddFails \/ \E h \in Hash : ForwardPeer(h)
  <2>1. UNCHANGED torrent /\ \E cmd : ClientTakes(cmd)
    BY <1>5 DEF AddFails, ForwardPeer, clientVars
  <2>2. /\ UNCHANGED <<adds, adding>>
        /\ client_rx' \in Seq(Command) /\ Len(client_rx') <= CLIENT
        /\ Cardinality(Additions(client_rx')) \in Nat
        /\ Cardinality(Additions(client_rx')) <= Cardinality(Additions(client_rx))
    BY <1>0, <2>1, ClientTakesCounted
  <2>3. Len(torrent') + adding' + Cardinality(Additions(client_rx')) <= adds'
    BY <1>0, <2>1, <2>2
  <2> QED  BY <1>0, <2>1, <2>2, <2>3 DEF CommandsInv
<1>6. CASE AddPanics
  <2>1. UNCHANGED <<adds, adding, torrent>> /\ client_rx' = <<>>
    BY <1>6 DEF AddPanics, uiVars
  <2>2. client_rx' \in Seq(Command) /\ Len(client_rx') = 0
    BY <2>1
  <2>3. Additions(client_rx') = {}
    BY <2>1 DEF Additions
  <2>4. Cardinality(Additions(client_rx')) = 0
    BY <2>3, FS_EmptySet
  <2>5. Len(torrent') + adding' + Cardinality(Additions(client_rx')) <= adds'
    BY <1>0, <2>1, <2>4
  <2> QED  BY <1>0, <2>1, <2>2, <2>5 DEF CommandsInv
<1>7. ASSUME NEW t \in Torrents, AddStarts(t) PROVE CommandsInv'
  <2>1. ClientTakes(AddTorrent) /\ torrent' = Append(torrent, t)
    BY <1>7 DEF AddStarts
  <2>2. /\ UNCHANGED <<adds, adding>>
        /\ client_rx' \in Seq(Command) /\ Len(client_rx') <= CLIENT
        /\ Cardinality(Additions(client_rx')) \in Nat
        /\ Cardinality(Additions(client_rx')) + 1 <= Cardinality(Additions(client_rx))
    BY <2>1, ClientTakesCounted
  <2>3. torrent' \in Seq(Torrents) /\ Len(torrent') = Len(torrent) + 1
    BY <1>0, <2>1, Sent
  <2>4. Len(torrent') + adding' + Cardinality(Additions(client_rx')) <= adds'
    BY <1>0, <2>2, <2>3
  <2> QED  BY <1>0, <2>2, <2>3, <2>4 DEF CommandsInv
<1> QED  BY <1>1, <1>2, <1>3, <1>4, <1>5, <1>6, <1>7, CommandSteps

(* No more sessions than the user asked for.                                 *)
LEMMA SessionsBounded ==
  ASSUME CommandsInv
  PROVE  Len(torrent) \in Nat /\ Len(torrent) <= MaxAdds /\ adding <= MaxAdds /\ Started \subseteq Sessions
<1>1. /\ MaxAdds \in Nat /\ adds \in 0..MaxAdds /\ adding \in Nat /\ Len(torrent) \in Nat
      /\ Cardinality(Additions(client_rx)) \in Nat
      /\ Len(torrent) + adding + Cardinality(Additions(client_rx)) <= adds
  BY ProgramAssumption, AdditionsFinite DEF ProgramAssumption, CommandsInv
<1> QED  BY <1>1 DEF Started, Sessions

------------------------------------------------------------------------------
(* Which session a peer is sent to: the map has, of the sessions of a        *)
(* torrent, the one that was started last, and the client that waits to      *)
(* forward a peer has taken its session from there.                          *)
RoutingInv ==
    /\ torrent \in Seq(Torrents)
    /\ session_map \in [Torrents -> Started \cup {None}]
    /\ \A t \in Torrents : session_map[t] # None => torrent[session_map[t]] = t
    /\ \A s \in Started : s <= session_map[torrent[s]]
    /\ \/ client \in {Idle, Gone}
       \/ \E h \in Torrents : session_map[h] # None /\ client = Forwarding(session_map[h], h)

LEMMA RoutingSteps ==
  ASSUME [Next]_vars
  PROVE  \/ UNCHANGED clientVars
         \/ AddPanics \/ \E t \in Torrents : AddStarts(t)
         \/ \E h \in Hash : ForwardPeer(h)
         \/ \E s \in Sessions, h \in Hash : ClientSends(s, h)
<1>1. CASE UNCHANGED vars
  BY <1>1 DEF vars
<1>2. CASE OnTorrentAdd \/ AddTorrentSends \/ AddFails
  BY <1>2 DEF OnTorrentAdd, AddTorrentSends, AddFails
<1>3. ASSUME NEW l \in Listeners, Accept(l) \/ HandshakeRead(l) \/ HandshakeFails(l) \/ ListenerSends(l)
      PROVE  UNCHANGED clientVars
  BY <1>3 DEF Accept, HandshakeRead, HandshakeFails, ListenerSends, ListenerGoesTo
<1>4. ASSUME NEW s \in Sessions,
             \/ SessionNext(s) \/ TrackerReports(s) \/ SchedulerTakes(s)
             \/ SchedulerEnds(s, "dead") \/ SchedulerEnds(s, "stuck")
      PROVE  UNCHANGED clientVars
  BY <1>4 DEF SessionNext, TakeReport, TakePeer, SessionSends, TrackerReports, SchedulerTakes, SchedulerEnds
<1> QED  BY <1>1, <1>2, <1>3, <1>4 DEF Next, ClientNext

(* A session that is started is the last of its torrent.                     *)
LEMMA AddStartsKeepsRouting ==
  ASSUME RoutingInv, NEW t \in Torrents, AddStarts(t)
  PROVE  RoutingInv'
<1> DEFINE n == Len(torrent) + 1
<1>1. /\ torrent \in Seq(Torrents) /\ torrent' = Append(torrent, t)
      /\ session_map \in [Torrents -> Started \cup {None}] /\ session_map' = [session_map EXCEPT ![t] = n]
      /\ client = Idle /\ client' = client
  BY DEF RoutingInv, AddStarts, Entry, ClientTakes
<1>2. /\ torrent' \in Seq(Torrents) /\ Len(torrent) \in Nat /\ Len(torrent') = n
      /\ \A i \in 1..Len(torrent) : torrent'[i] = torrent[i]
      /\ torrent'[n] = t
  BY <1>1, Sent
<1>3. Started' = Started \cup {n} /\ n \in Nat \ {0} /\ \A s \in Started : s \in Nat /\ s < n
  BY <1>2 DEF Started
<1>4. session_map' \in [Torrents -> Started' \cup {None}]
  BY <1>1, <1>3
<1>5. \A u \in Torrents : session_map'[u] # None => torrent'[session_map'[u]] = u
  BY <1>1, <1>2 DEF RoutingInv, Started
<1>6. \A s \in Started' : s <= session_map'[torrent'[s]]
  <2> TAKE s \in Started'
  <2>1. CASE s = n
    BY <1>1, <1>2, <1>3, <2>1
  <2>2. CASE s \in Started
    <3>1. torrent'[s] = torrent[s] /\ torrent[s] \in Torrents
      BY <1>1, <1>2, <2>2 DEF Started
    <3>2. s <= session_map[torrent[s]] /\ s \in Nat /\ s < n
      BY <1>3, <2>2 DEF RoutingInv
    <3> QED  BY <1>1, <1>3, <3>1, <3>2
  <2> QED  BY <1>3, <2>1, <2>2
<1> QED  BY <1>1, <1>2, <1>4, <1>5, <1>6 DEF RoutingInv

LEMMA RoutingStep == RoutingInv /\ [Next]_vars => RoutingInv'
<1> SUFFICES ASSUME RoutingInv, [Next]_vars PROVE RoutingInv'
  OBVIOUS
<1>1. CASE UNCHANGED clientVars
  BY <1>1 DEF RoutingInv, Started, clientVars
<1>2. CASE AddPanics
  BY <1>2 DEF AddPanics, RoutingInv, Started
<1>3. ASSUME NEW h \in Hash, ForwardPeer(h) PROVE RoutingInv'
  <2>1. UNCHANGED <<session_map, torrent>>
    BY <1>3 DEF ForwardPeer
  <2>2. ASSUME NEW s \in SessionOf(h) PROVE h \in Torrents /\ s = session_map[h] /\ s # None
    BY <2>2 DEF SessionOf
  <2>3. \/ UNCHANGED client
        \/ h \in Torrents /\ session_map[h] # None /\ client' = Forwarding(session_map[h], h)
    BY <1>3, <2>2 DEF ForwardPeer
  <2> QED  BY <2>1, <2>3 DEF RoutingInv, Started
<1>4. ASSUME NEW s \in Sessions, NEW h \in Hash, ClientSends(s, h) PROVE RoutingInv'
  BY <1>4 DEF ClientSends, RoutingInv, Started
<1> QED  BY <1>1, <1>2, <1>3, <1>4, AddStartsKeepsRouting, RoutingSteps

(* The session the client sends to: the last one of the peer's torrent.      *)
LEMMA SentToLatest ==
  ASSUME RoutingInv, NEW s, NEW h, client = Forwarding(s, h)
  PROVE  /\ h \in Torrents /\ s \in Started /\ torrent[s] = h
         /\ \A later \in Started : torrent[later] = h => later <= s
<1>1. PICK k \in Torrents : session_map[k] # None /\ client = Forwarding(session_map[k], k)
  BY Different DEF RoutingInv
<1>2. s = session_map[k] /\ h = k
  BY <1>1 DEF Forwarding
<1> QED  BY <1>1, <1>2 DEF RoutingInv

------------------------------------------------------------------------------
(* The queues of incoming peers.                                             *)
PeersInv ==
    /\ rx \in [Sessions -> Seq(Hash)]
    /\ \A s \in Sessions : Len(rx[s]) <= SESSION
    /\ PeersOfOwnTorrent

LEMMA PeersSteps ==
  ASSUME [Next]_vars
  PROVE  \/ UNCHANGED rx
         \/ \E s \in Sessions, h \in Hash : ClientSends(s, h)
         \/ \E s \in Sessions : TakePeer(s)
<1>1. CASE UNCHANGED vars
  BY <1>1 DEF vars
<1>2. CASE OnTorrentAdd \/ AddTorrentSends \/ AddFails \/ AddPanics
  BY <1>2 DEF OnTorrentAdd, AddTorrentSends, AddFails, AddPanics, ClientTakes
<1>3. ASSUME NEW l \in Listeners, Accept(l) \/ HandshakeRead(l) \/ HandshakeFails(l) \/ ListenerSends(l)
      PROVE  UNCHANGED rx
  BY <1>3 DEF Accept, HandshakeRead, HandshakeFails, ListenerSends, ListenerGoesTo
<1>4. ASSUME NEW s \in Sessions,
             \/ TakeReport(s) \/ SessionSends(s) \/ TrackerReports(s) \/ SchedulerTakes(s)
             \/ SchedulerEnds(s, "dead") \/ SchedulerEnds(s, "stuck")
      PROVE  UNCHANGED rx
  BY <1>4 DEF TakeReport, SessionSends, TrackerReports, SchedulerTakes, SchedulerEnds
<1>5. CASE (\E t \in Torrents : AddStarts(t)) \/ \E h \in Hash : ForwardPeer(h)
  BY <1>5 DEF AddStarts, ForwardPeer, ClientTakes
<1> QED  BY <1>1, <1>2, <1>3, <1>4, <1>5 DEF Next, ClientNext, SessionNext

(* Sessions that are started stay, with their torrents.                      *)
LEMMA SessionsStay ==
  ASSUME RoutingInv, [Next]_vars
  PROVE  Started \subseteq Started' /\ \A s \in Started : torrent'[s] = torrent[s]
<1>1. CASE UNCHANGED torrent
  BY <1>1 DEF Started
<1>2. ASSUME NEW t \in Torrents, AddStarts(t)
      PROVE  Started \subseteq Started' /\ \A s \in Started : torrent'[s] = torrent[s]
  BY <1>2, Sent DEF AddStarts, RoutingInv, Started
<1>3. CASE AddPanics \/ \E h \in Hash : ForwardPeer(h)
  BY <1>1, <1>3 DEF AddPanics, ForwardPeer
<1>4. ASSUME NEW s \in Sessions, NEW h \in Hash, ClientSends(s, h) PROVE UNCHANGED torrent
  BY <1>4 DEF ClientSends
<1> QED  BY <1>1, <1>2, <1>3, <1>4, RoutingSteps DEF clientVars

LEMMA PeersStep == RoutingInv /\ PeersInv /\ [Next]_vars => PeersInv'
<1> SUFFICES ASSUME RoutingInv, PeersInv, [Next]_vars PROVE PeersInv'
  OBVIOUS
<1>0. SESSION \in Nat /\ rx \in [Sessions -> Seq(Hash)] /\ \A s \in Sessions : Len(rx[s]) <= SESSION
  BY ProgramAssumption DEF ProgramAssumption, PeersInv
<1>1. ASSUME NEW s \in Sessions, NEW i \in DOMAIN rx[s]
      PROVE  s \in Started' /\ rx[s][i] = torrent'[s]
  BY <1>1, SessionsStay DEF PeersInv, PeersOfOwnTorrent
<1>2. CASE UNCHANGED rx
  BY <1>0, <1>1, <1>2 DEF PeersInv, PeersOfOwnTorrent
<1>3. ASSUME NEW s \in Sessions, NEW h \in Hash, ClientSends(s, h) PROVE PeersInv'
  <2>1. client = Forwarding(s, h) /\ Len(rx[s]) < SESSION /\ rx' = [rx EXCEPT ![s] = Append(@, h)]
    BY <1>3 DEF ClientSends
  <2>2. s \in Started' /\ torrent'[s] = h
    BY <2>1, SentToLatest, SessionsStay
  <2>3. /\ rx'[s] \in Seq(Hash) /\ Len(rx'[s]) <= SESSION
        /\ \A i \in DOMAIN rx'[s] : rx'[s][i] = torrent'[s]
    <3>1. rx[s] \in Seq(Hash) /\ rx'[s] = Append(rx[s], h) /\ Len(rx[s]) \in Nat
      BY <1>0, <2>1
    <3>2. /\ rx'[s] \in Seq(Hash) /\ Len(rx'[s]) = Len(rx[s]) + 1
          /\ \A i \in 1..Len(rx[s]) : rx'[s][i] = rx[s][i]
          /\ rx'[s][Len(rx[s]) + 1] = h
      BY <3>1, Sent
    <3>3. DOMAIN rx'[s] = 1..Len(rx'[s]) /\ DOMAIN rx[s] = 1..Len(rx[s])
      BY <3>1, <3>2
    <3>4. \A i \in DOMAIN rx'[s] : i \in DOMAIN rx[s] \/ i = Len(rx[s]) + 1
      BY <3>1, <3>2, <3>3
    <3> QED  BY <1>0, <1>1, <2>1, <2>2, <3>1, <3>2, <3>3, <3>4
  <2>4. \A r \in Sessions \ {s} : rx'[r] = rx[r]
    BY <1>0, <2>1
  <2>5. rx' \in [Sessions -> Seq(Hash)] /\ \A r \in Sessions : Len(rx'[r]) <= SESSION
    BY <1>0, <2>1, <2>3, <2>4
  <2> QED  BY <1>1, <2>2, <2>3, <2>4, <2>5 DEF PeersInv, PeersOfOwnTorrent
<1>4. ASSUME NEW s \in Sessions, TakePeer(s) PROVE PeersInv'
  <2>1. rx[s] # <<>> /\ rx' = [rx EXCEPT ![s] = Tail(@)]
    BY <1>4 DEF TakePeer
  <2>2. /\ rx'[s] \in Seq(Hash) /\ Len(rx'[s]) <= SESSION
        /\ \A i \in DOMAIN rx'[s] : i + 1 \in DOMAIN rx[s] /\ rx'[s][i] = rx[s][i + 1]
    <3>1. rx[s] \in Seq(Hash) /\ rx'[s] = Tail(rx[s]) /\ Len(rx[s]) \in Nat
      BY <1>0, <2>1
    <3> QED  BY <1>0, <2>1, <3>1, Taken
  <2>3. \A i \in DOMAIN rx'[s] : s \in Started' /\ rx'[s][i] = torrent'[s]
    BY <1>1, <2>2
  <2>4. \A r \in Sessions \ {s} : rx'[r] = rx[r]
    BY <1>0, <2>1
  <2>5. rx' \in [Sessions -> Seq(Hash)] /\ \A r \in Sessions : Len(rx'[r]) <= SESSION
    BY <1>0, <2>1, <2>2, <2>4
  <2> QED  BY <1>1, <2>3, <2>4, <2>5 DEF PeersInv, PeersOfOwnTorrent
<1> QED  BY <1>2, <1>3, <1>4, PeersSteps

------------------------------------------------------------------------------
(* The accept loops, and the sessions with their schedulers.                 *)
TasksInv ==
    /\ listener \in [Listeners -> {Accepting, Reading} \cup {Sending(h) : h \in Hash}]
    /\ tracker_resp \in [Sessions -> 0..TRACKER_RESP]
    /\ session \in [Sessions -> {"idle", "sending"}]
    /\ scheduler_event \in [Sessions -> 0..SCHEDULER_EVENT]
    /\ scheduler \in [Sessions -> {"running", "dead", "stuck"}]

tasks == <<listener, sessionVars>>

LEMMA TasksStep == TasksInv /\ [Next]_vars => TasksInv'
<1> SUFFICES ASSUME TasksInv, [Next]_vars PROVE TasksInv'
  OBVIOUS
<1>0. TRACKER_RESP \in Nat /\ SCHEDULER_EVENT \in Nat
  BY ProgramAssumption DEF ProgramAssumption
<1>1. CASE UNCHANGED tasks
  BY <1>1 DEF tasks, sessionVars, TasksInv
<1>2. CASE UNCHANGED vars \/ OnTorrentAdd \/ AddTorrentSends \/ AddFails \/ AddPanics
  BY <1>1, <1>2 DEF vars, OnTorrentAdd, AddTorrentSends, AddFails, AddPanics, ClientTakes, tasks
<1>3. CASE (\E t \in Torrents : AddStarts(t)) \/ \E h \in Hash : ForwardPeer(h)
  BY <1>1, <1>3 DEF AddStarts, ForwardPeer, ClientTakes, tasks
<1>4. ASSUME NEW s \in Sessions, NEW h \in Hash, ClientSends(s, h) PROVE TasksInv'
  BY <1>1, <1>4 DEF ClientSends, tasks
<1>5. ASSUME NEW l \in Listeners, Accept(l) \/ HandshakeRead(l) \/ HandshakeFails(l) \/ ListenerSends(l)
      PROVE  TasksInv'
  <2>1. PICK state \in {Accepting, Reading} \cup {Sending(h) : h \in Hash} : ListenerGoesTo(l, state)
    BY <1>5 DEF Accept, HandshakeRead, HandshakeFails, ListenerSends
  <2> QED  BY <2>1 DEF ListenerGoesTo, sessionVars, TasksInv
<1>6. ASSUME NEW s \in Sessions, SessionNext(s) PROVE TasksInv'
  <2>1. CASE TakeReport(s)
    <3>1. tracker_resp[s] - 1 \in 0..TRACKER_RESP
      BY <1>0, <2>1 DEF TakeReport, TasksInv
    <3> QED  BY <2>1, <3>1 DEF TakeReport, TasksInv
  <2>2. CASE TakePeer(s)
    BY <2>2 DEF TakePeer, TasksInv
  <2>3. CASE SessionSends(s)
    <3>1. scheduler_event' \in [Sessions -> 0..SCHEDULER_EVENT]
      BY <1>0, <2>3 DEF SessionSends, TasksInv
    <3> QED  BY <2>3, <3>1 DEF SessionSends, TasksInv
  <2> QED  BY <1>6, <2>1, <2>2, <2>3 DEF SessionNext
<1>7. ASSUME NEW s \in Sessions, TrackerReports(s) PROVE TasksInv'
  BY <1>0, <1>7 DEF TrackerReports, TasksInv
<1>8. ASSUME NEW s \in Sessions, SchedulerTakes(s) PROVE TasksInv'
  BY <1>0, <1>8 DEF SchedulerTakes, TasksInv
<1>9. ASSUME NEW s \in Sessions, NEW how \in {"dead", "stuck"}, SchedulerEnds(s, how) PROVE TasksInv'
  <2>1. scheduler_event' \in [Sessions -> 0..SCHEDULER_EVENT]
    BY <1>0, <1>9 DEF SchedulerEnds, TasksInv
  <2> QED  BY <1>9, <2>1 DEF SchedulerEnds, TasksInv
<1> QED  BY <1>2, <1>3, <1>4, <1>5, <1>6, <1>7, <1>8, <1>9 DEF Next, ClientNext

------------------------------------------------------------------------------
ProgramInv == CommandsInv /\ RoutingInv /\ PeersInv /\ TasksInv

LEMMA InitProgram == Init => ProgramInv
<1> SUFFICES ASSUME Init PROVE ProgramInv
  OBVIOUS
<1>1. MaxAdds \in Nat /\ {CLIENT, SESSION, TRACKER_RESP, SCHEDULER_EVENT} \subseteq Nat
  BY ProgramAssumption DEF ProgramAssumption
<1>2. Started = {} /\ \A s \in Sessions : rx[s] = <<>>
  BY DEF Init, Started
<1>3. Cardinality(Additions(client_rx)) = 0
  <2>1. Additions(client_rx) = {}
    BY DEF Init, Additions
  <2> QED  BY <2>1, FS_EmptySet
<1>4. CommandsInv
  BY <1>1, <1>3 DEF Init, CommandsInv
<1>5. RoutingInv
  BY <1>2 DEF Init, RoutingInv
<1>6. PeersInv
  BY <1>1, <1>2 DEF Init, PeersInv, PeersOfOwnTorrent
<1>7. TasksInv
  BY <1>1 DEF Init, TasksInv
<1> QED  BY <1>4, <1>5, <1>6, <1>7 DEF ProgramInv

THEOREM ProgramInvariant == Spec => []ProgramInv
<1>1. ProgramInv /\ [Next]_vars => ProgramInv'
  BY CommandsStep, RoutingStep, PeersStep, TasksStep DEF ProgramInv
<1> QED  BY <1>1, InitProgram, PTL DEF Spec

(* No channel of the program ever holds more than its capacity (main.rs:23,  *)
(* client.rs:34, session.rs:46), and there are no more sessions than files   *)
(* picked.                                                                   *)
THEOREM ProgramTypeCorrect == Spec => []TypeOK
<1>1. ProgramInv => TypeOK
  <2> SUFFICES ASSUME ProgramInv PROVE TypeOK
    OBVIOUS
  <2>1. Len(torrent) <= MaxAdds /\ adding \in 0..MaxAdds /\ Started \subseteq Sessions
    BY SessionsBounded, ProgramAssumption DEF ProgramAssumption, ProgramInv, CommandsInv
  <2>2. client \in {Idle, Gone} \cup {Forwarding(s, h) : s \in Sessions, h \in Hash}
    BY <2>1 DEF ProgramInv, RoutingInv, Hash
  <2> QED  BY <2>1, <2>2 DEF ProgramInv, CommandsInv, RoutingInv, PeersInv, TasksInv, TypeOK, Command
<1> QED  BY <1>1, ProgramInvariant, PTL

(* An incoming peer waits only for a session of the torrent it asked for     *)
(* (client.rs:50), however often that torrent was added again while the peer *)
(* was on its way.                                                           *)
THEOREM PeersReachOwnTorrent == Spec => []PeersOfOwnTorrent
<1>1. ProgramInv => PeersOfOwnTorrent
  BY DEF ProgramInv, PeersInv
<1> QED  BY <1>1, ProgramInvariant, PTL

(* Once a torrent was added again (client.rs:31-39), the session it had is   *)
(* given no incoming peer any more: also the peer the client was holding     *)
(* when the channel was full goes to the session the map has now.            *)
THEOREM OnlyLatestGetsPeers == Spec => ReplacedGetsNoPeers
<1> DEFINE Fewer == \A s \in Sessions : Replaced(s) => Len(rx'[s]) <= Len(rx[s])
<1>1. ProgramInv /\ [Next]_vars => Fewer
  <2> SUFFICES ASSUME ProgramInv, [Next]_vars, NEW s \in Sessions, Replaced(s) PROVE Len(rx'[s]) <= Len(rx[s])
    OBVIOUS
  <2>0. rx \in [Sessions -> Seq(Hash)] /\ rx[s] \in Seq(Hash) /\ Len(rx[s]) \in Nat
    BY DEF ProgramInv, PeersInv
  <2>1. CASE UNCHANGED rx
    BY <2>0, <2>1
  <2>2. ASSUME NEW r \in Sessions, NEW h \in Hash, ClientSends(r, h) PROVE Len(rx'[s]) <= Len(rx[s])
    <3>1. client = Forwarding(r, h) /\ rx' = [rx EXCEPT ![r] = Append(@, h)]
      BY <2>2 DEF ClientSends
    <3>2. torrent[r] = h /\ \A later \in Started : torrent[later] = h => later <= r
      BY <3>1, SentToLatest DEF ProgramInv
    <3>3. r # s
      <4>1. PICK later \in Started : later > s /\ torrent[later] = torrent[s]
        BY DEF Replaced
      <4>2. later \in Int /\ s \in Int
        BY <4>1 DEF Started, Sessions
      <4> QED  BY <3>2, <4>1, <4>2
    <3> QED  BY <2>0, <3>1, <3>3
  <2>3. ASSUME NEW r \in Sessions, TakePeer(r) PROVE Len(rx'[s]) <= Len(rx[s])
    <3>1. rx[r] # <<>> /\ rx' = [rx EXCEPT ![r] = Tail(@)]
      BY <2>3 DEF TakePeer
    <3>2. CASE r = s
      <4>1. Len(rx'[s]) = Len(rx[s]) - 1
        BY <2>0, <3>1, <3>2, Taken
      <4> QED  BY <2>0, <4>1
    <3>3. CASE r # s
      BY <2>0, <3>1, <3>3
    <3> QED  BY <3>2, <3>3
  <2> QED  BY <2>1, <2>2, <2>3, PeersSteps
<1>2. ProgramInv /\ [Next]_vars => [Fewer]_vars
  BY <1>1
<1> QED  BY <1>2, ProgramInvariant, PTL DEF Spec, ReplacedGetsNoPeers
===============================================================================
