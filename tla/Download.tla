------------------------------ MODULE Download ------------------------------
(***************************************************************************)
(* What the scheduler and the disk task promise together about a torrent's *)
(* pieces, with peers, blocks and channels left out: a piece is missing,   *)
(* being verified, or had; having a piece is final; the savefile is read   *)
(* once, before any verdict.                                               *)
(***************************************************************************)
EXTENDS Integers, FiniteSets

CONSTANT Piece

VARIABLES
  state,    \* of each piece
  resumed,  \* the savefile has been read
  count     \* pieces reported as completed

vars == <<state, resumed, count>>

Init ==
  /\ state = [p \in Piece |-> "missing"]
  /\ resumed = FALSE
  /\ count = 0

Submit(p) ==
  /\ state[p] = "missing"
  /\ state' = [state EXCEPT ![p] = "verifying"]
  /\ UNCHANGED <<resumed, count>>

\* A saved piece that is being downloaded again waits for its verdict.
Resume(saved) ==
  /\ ~resumed
  /\ resumed' = TRUE
  /\ state' = [p \in Piece |->
       IF p \in saved /\ state[p] = "missing" THEN "have" ELSE state[p]]
  /\ count' = count + Cardinality(saved)

Confirm(p) ==
  /\ resumed
  /\ state[p] = "verifying"
  /\ state' = [state EXCEPT ![p] = "have"]
  /\ count' = count + 1
  /\ UNCHANGED resumed

Reject(p) ==
  /\ resumed
  /\ state[p] = "verifying"
  /\ state' = [state EXCEPT ![p] = "missing"]
  /\ UNCHANGED <<resumed, count>>

Next ==
  \/ \E saved \in SUBSET Piece : Resume(saved)
  \/ \E p \in Piece : Submit(p) \/ Confirm(p) \/ Reject(p)

Spec == Init /\ [][Next]_vars
=============================================================================
