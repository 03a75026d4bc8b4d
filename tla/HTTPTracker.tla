------------------------------ MODULE HTTPTracker ------------------------------
(* One HTTPTracker task (trackers/http.rs): a loop around one HTTP request,  *)
(* which has no time-out.  The connection to the server is reqwest's; what   *)
(* the task sees of it is a response or an error.                            *)
EXTENDS TrackerChannel

VARIABLES
    http,       \* of run: "absent", "waiting", "asking", "reporting", "stopped", "panicked"
    outcome,    \* while reporting: the event to send
    httpKnown   \* history: peers in the swarm since the announce in progress began

httpVars == <<http, outcome, httpKnown>>

HTTPTypeOK ==
    /\ http \in {"absent", "waiting", "asking", "reporting", "stopped", "panicked"}
    /\ outcome \in SessionEvent
    /\ httpKnown \subseteq Address

HTTPInit == http \in {"absent", "waiting"} /\ outcome = Failure("http") /\ httpKnown = {}

(* The timer fires, or ForceReannounce arrives: announce sends the request. *)
Ask ==
    /\ http = "waiting" /\ http' = "asking"
    /\ httpKnown' = swarm
    /\ UNCHANGED <<outcome, swarm, tracker_resp>>

(* A response that parses and gives no failure reason: its peers and peers6, *)
(* without the entries that do not parse, as they were when the server       *)
(* answered.                                                                 *)
Respond ==
    /\ http = "asking" /\ http' = "reporting"
    /\ \E peers \in SUBSET swarm : outcome' = Success("http", peers)
    /\ UNCHANGED <<httpKnown, swarm, tracker_resp>>

(* A transport error, a response that does not parse, a failure reason. *)
RespondError ==
    /\ http = "asking" /\ http' = "reporting"
    /\ outcome' = Failure("http")
    /\ UNCHANGED <<httpKnown, swarm, tracker_resp>>

(* parse_peers has no case for a peers value that is neither bytes nor list. *)
ParsePeersPanics ==
    /\ http = "asking" /\ http' = "panicked"
    /\ httpKnown' = {}
    /\ UNCHANGED <<outcome, swarm, tracker_resp>>

\* Variant: no return after a failure has been reported; a success follows.
HTTPReportGoesOn ==
    /\ http = "reporting"
    /\ Send(outcome)
    /\ \/ /\ outcome.type = "AnnounceFailure"
          /\ outcome' = Success("http", {})
          /\ UNCHANGED <<http, httpKnown, swarm>>
       \/ /\ outcome.type = "AnnounceSuccess"
          /\ http' = "waiting" /\ outcome' = Failure("http") /\ httpKnown' = {}
          /\ UNCHANGED swarm

HTTPReport ==
    /\ http = "reporting" /\ http' = "waiting"
    /\ Send(outcome)
    /\ outcome' = Failure("http") /\ httpKnown' = {}
    /\ UNCHANGED swarm

(* TrackerCommand::Shutdown, which is read only between announces. *)
HTTPShutdown ==
    /\ http = "waiting" /\ http' = "stopped"
    /\ UNCHANGED <<outcome, httpKnown, swarm, tracker_resp>>

HTTPNext == Ask \/ Respond \/ RespondError \/ ParsePeersPanics \/ HTTPReport \/ HTTPShutdown
===============================================================================
