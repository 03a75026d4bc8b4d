------------------------------ MODULE Verifier ------------------------------
(***************************************************************************)
(* What the disk task promises to the scheduler: first the list of saved   *)
(* pieces, all of them verified at some time, then one verdict for each    *)
(* piece in the order in which they were submitted.                        *)
(***************************************************************************)
EXTENDS Sequences

CONSTANT Piece

VARIABLES
  disk,      \* "starting" until the list of saved pieces has been sent
  rx,        \* pieces waiting for their verdict
  tx,        \* answers on the way back
  verified   \* pieces that have ever been confirmed

vars == <<disk, rx, tx, verified>>

Init ==
  /\ disk = "starting"
  /\ rx = <<>>
  /\ tx = <<>>
  /\ verified = {}

Submit(p) ==
  /\ rx' = Append(rx, p)
  /\ UNCHANGED <<disk, tx, verified>>

Deliver ==
  /\ tx # <<>>
  /\ tx' = Tail(tx)
  /\ UNCHANGED <<disk, rx, verified>>

Announce(saved) ==
  /\ disk = "starting"
  /\ disk' = "ready"
  /\ tx' = Append(tx, [type |-> "CompletedPieces", bits |-> saved])
  /\ UNCHANGED <<rx, verified>>

Answer(verdict) ==
  /\ disk = "ready"
  /\ rx # <<>>
  /\ rx' = Tail(rx)
  /\ tx' = Append(tx, [type |-> verdict, piece |-> Head(rx)])
  /\ verified' = IF verdict = "Failed" THEN verified ELSE verified \cup {Head(rx)}
  /\ UNCHANGED disk

\* The program is killed and started again.
Restart ==
  /\ disk' = "starting"
  /\ rx' = <<>>
  /\ tx' = <<>>
  /\ UNCHANGED verified

Next ==
  \/ \E p \in Piece : Submit(p)
  \/ Deliver
  \/ \E saved \in SUBSET verified : Announce(saved)
  \/ \E verdict \in {"PieceHashedAndWritten", "Failed"} : Answer(verdict)
  \/ Restart

Spec == Init /\ [][Next]_vars
=============================================================================
