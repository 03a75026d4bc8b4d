---------------------------- MODULE TrackerChannel ----------------------------
(* What the tracker tasks of a session share: the bounded channel            *)
(* tracker_resp on which they report to the session (session.rs:46), and, on *)
(* the other side, the swarm: the peers the trackers know of at the moment.  *)
EXTENDS Naturals, Sequences

CONSTANTS
    IPv4Peers, IPv6Peers,  \* the addresses a tracker may list, by family
    TRACKER_RESP           \* capacity of the channel, 32 in the code

ASSUME TrackerChannelAssumption == TRACKER_RESP \in Nat \ {0}

VARIABLES
    swarm,        \* the peers in the swarm now; they come and go
    tracker_resp  \* reports under way to the session

Family == {"ipv4", "ipv6"}
Address == IPv4Peers \cup IPv6Peers

(* SessionEvent: AnnounceSuccess carries peers, AnnounceFailure none. *)
SessionEvent ==
    [type : {"AnnounceSuccess"}, by : {"udp", "http"}, peers : SUBSET Address]
        \cup [type : {"AnnounceFailure"}, by : {"udp", "http"}]

Success(by, peers) == [type |-> "AnnounceSuccess", by |-> by, peers |-> peers]
Failure(by) == [type |-> "AnnounceFailure", by |-> by]

ChannelTypeOK ==
    /\ swarm \subseteq Address
    /\ tracker_resp \in Seq(SessionEvent)
    /\ Len(tracker_resp) <= TRACKER_RESP

ChannelInit == swarm \in SUBSET Address /\ tracker_resp = <<>>

\* Variant: an unbounded channel.
SendUnbounded(event) == tracker_resp' = Append(tracker_resp, event)

(* self.sender.send(..).await: completes once there is room. *)
Send(event) ==
    /\ Len(tracker_resp) < TRACKER_RESP
    /\ tracker_resp' = Append(tracker_resp, event)

(* The session takes a report off the channel (session.rs:81). *)
SessionTakes ==
    /\ tracker_resp # <<>>
    /\ tracker_resp' = Tail(tracker_resp)
===============================================================================
