-------------------------- MODULE MCTaskGovernance --------------------------
(* Values of the constants of TaskGovernance for TLC. *)
EXTENDS TaskGovernance, TLC

CONSTANTS c1, c2, b1, b2, a1, a2, p1, nobody

\* b1 has a string longer than 1200 characters, b2 is what the cut leaves of it.
Cut == [b \in Body |-> b2]

Symmetry == Permutations(Caller) \cup Permutations(Approval)
=============================================================================
