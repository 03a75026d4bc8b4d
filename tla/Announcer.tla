------------------------------- MODULE Announcer -------------------------------
(* What a tracker task promises its session: it asks again and again, every  *)
(* announce is reported at most once and before the next one begins, and a   *)
(* success lists only peers that were in the swarm at some moment of this    *)
(* very announce, never what an earlier one was told.                        *)
EXTENDS TrackerChannel

CONSTANT Me  \* the sender of this task's reports

VARIABLES
    phase,  \* "waiting", "asking" or "gone"
    known   \* the peers that were in the swarm since the announce began

annVars == <<phase, known, swarm, tracker_resp>>

Init == phase = "waiting" /\ known = {} /\ ChannelInit

(* An announce begins. *)
Begin ==
    /\ phase = "waiting"
    /\ phase' = "asking" /\ known' = swarm
    /\ UNCHANGED <<swarm, tracker_resp>>

(* The announce is over and its outcome is reported. *)
Report ==
    /\ phase = "asking"
    /\ \/ Send(Failure(Me))
       \/ \E peers \in SUBSET known : Send(Success(Me, peers))
    /\ phase' = "waiting" /\ known' = {}
    /\ UNCHANGED swarm

(* The task ends, by a command or a panic; nothing is reported any more. *)
End ==
    /\ phase # "gone" /\ phase' = "gone" /\ known' = {}
    /\ UNCHANGED <<swarm, tracker_resp>>

(* Peers join and leave the swarm. *)
SwarmChanges ==
    /\ swarm' \in SUBSET Address
    /\ known' = IF phase = "asking" THEN known \cup swarm' ELSE known
    /\ UNCHANGED <<phase, tracker_resp>>

(* The session takes a report; other trackers send theirs. *)
ChannelMoves ==
    /\ \/ SessionTakes
       \/ \E event \in SessionEvent : event.by # Me /\ Send(event)
    /\ UNCHANGED <<phase, known, swarm>>

Next == Begin \/ Report \/ End \/ SwarmChanges \/ ChannelMoves

Spec == Init /\ [][Next]_annVars
===============================================================================
