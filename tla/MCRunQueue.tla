----------------------------- MODULE MCRunQueue -----------------------------
(* Values of the constants of RunQueue for TLC. *)
EXTENDS RunQueue, TLC

CONSTANTS t1, r1, r2, r3, c1, c2, c3

\* Only the admin and the worker run an L4 task, always as its config says.
MCLevel == [t \in Task |-> 4]
MCDryRun == [t \in Task |-> FALSE]
MCMinGap == [t \in Task |-> 1]
MCRateLimits == [t \in Task |-> {[window |-> 1, max |-> 1]}]
MCTimeout == [t \in Task |-> 0]

Symmetry == Permutations(RunId) \cup Permutations(Caller)
=============================================================================
