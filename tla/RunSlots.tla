------------------------------ MODULE RunSlots ------------------------------
(***************************************************************************)
(* What the run queue promises, without rows, transactions or time: a task *)
(* has one slot.  A run enters the slot by being queued, is taken by one   *)
(* worker, and leaves the slot for good when it finishes or is recovered.  *)
(* Queueing may evict a run that was executing (its lease had expired), it *)
(* never joins one.                                                        *)
(***************************************************************************)
EXTENDS FiniteSets

CONSTANTS Task, RunId

VARIABLES waiting,    \* waiting[t]: runs of t that are queued
          executing   \* executing[t]: runs of t that a worker has claimed

slots == <<waiting, executing>>

Init == /\ waiting = [t \in Task |-> {}]
        /\ executing = [t \in Task |-> {}]

\* A new run takes the slot of t; whatever was executing there is given up.
Enqueue(t, r) ==
  /\ waiting[t] = {}
  /\ \A u \in Task : r \notin waiting[u] \cup executing[u]
  /\ waiting' = [waiting EXCEPT ![t] = {r}]
  /\ executing' = [executing EXCEPT ![t] = {}]

\* A worker takes a queued run.
Claim(t, r) ==
  /\ r \in waiting[t]
  /\ waiting' = [waiting EXCEPT ![t] = @ \ {r}]
  /\ executing' = [executing EXCEPT ![t] = @ \cup {r}]

\* Executing runs leave their slots: completed, failed or recovered.
Finish(R) ==
  /\ UNCHANGED waiting
  /\ executing' = [t \in Task |-> executing[t] \ R]

Next ==
  \/ \E R \in SUBSET RunId : Finish(R)
  \/ \E t \in Task, r \in RunId : Enqueue(t, r) \/ Claim(t, r)

Spec == Init /\ [][Next]_slots
=============================================================================
