---------------------------- MODULE MCScheduler -----------------------------
(***************************************************************************)
(* Instances of the scheduler for TLC.                                     *)
(***************************************************************************)
EXTENDS SchedulerProperties, TLC

CONSTANTS a1, a2, s1, s2

Symmetry == Permutations({a1, a2}) \cup Permutations({s1, s2})

Seed == {Piece}

\* An answer for the second block of the first piece, of another length.
Short == {[request |-> <<0, 1>>, fits |-> TRUE]}
=============================================================================
