------------------------------ MODULE MCWorker ------------------------------
(* Values of the constants of Worker for TLC. *)
EXTENDS Worker, TLC

CONSTANTS t1, t2, r1, r2, r3, w1, w2

MCLevel == [t \in Task |-> 1]
MCManualLevel == [t \in Task |-> 4]
MCDryRun == [t \in Task |-> t # t1]
MCMinGap == [t \in Task |-> 0]
MCRateLimits == [t \in Task |-> {}]
MCTimeout == [t \in Task |-> 0]

Symmetry == Permutations(Proc)
=============================================================================
