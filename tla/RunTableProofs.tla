--------------------------- MODULE RunTableProofs ---------------------------
(***************************************************************************)
(* What the operators of RunTable leave behind, for any tasks, runs and    *)
(* limits: rows of the declared type, and which of them may be active.     *)
(***************************************************************************)
EXTENDS RunTable, TLAPS

-----------------------------------------------------------------------------
(* Types *)

LEMMA HorizonType == Horizon \in Nat /\ 0 \in 0..Horizon /\ 0 \in -1..Horizon
                     /\ -1 \in -1..Horizon
  BY RunTableAssumption

LEMMA NoRunType == NoRun \in Run
  BY HorizonType, RunTableAssumption DEF NoRun, Run, NotCompleted

LEMMA LeaseType == ASSUME NEW t \in Task PROVE LeaseSeconds(t) \in Nat
  BY RunTableAssumption DEF LeaseSeconds

LEMMA QueuedRunType ==
  ASSUME NEW t \in Task, NEW dry \in BOOLEAN
  PROVE  QueuedRun(t, dry) \in Run
  BY HorizonType DEF QueuedRun, Run, NotCompleted, ActiveStatuses, ClaimableStatuses

LEMMA ClaimedRunType ==
  ASSUME NEW row \in Run PROVE ClaimedRun(row) \in Run
  BY LeaseType DEF ClaimedRun, Run, ActiveStatuses, RunningStatuses

LEMMA FinishedRunType ==
  ASSUME NEW row \in Run, NEW st \in FinalStatuses PROVE FinishedRun(row, st) \in Run
  BY HorizonType DEF FinishedRun, Run

\* Marking rows stale keeps them rows.
LEMMA MarkStaleType ==
  ASSUME NEW tbl \in [RunId -> Run], NEW S
  PROVE  MarkStale(tbl, S) \in [RunId -> Run]
  <1>1. ASSUME NEW r \in RunId
        PROVE  FinishedRun(tbl[r], IF tbl[r].status = "running_dry_run"
                                   THEN "failed_stale_dry_run" ELSE "failed_stale") \in Run
    BY FinishedRunType DEF FinalStatuses, StaleStatuses
  <1> QED
    BY <1>1 DEF MarkStale

LEMMA DeletedType ==
  ASSUME NEW tbl \in [RunId -> Run], NEW S
  PROVE  Deleted(tbl, S) \in [RunId -> Run]
  BY NoRunType DEF Deleted

\* A tick keeps ages below the horizon and NULL timestamps NULL.
LEMMA OlderType ==
  ASSUME NEW a \in -1..Horizon
  PROVE  /\ Older(a) \in -1..Horizon
         /\ a \in 0..Horizon => Older(a) \in 0..Horizon
         /\ Older(a) = NotCompleted <=> a = NotCompleted
  BY HorizonType DEF Older, NotCompleted

LEMMA AgedType ==
  ASSUME NEW tbl \in [RunId -> Run] PROVE Aged(tbl) \in [RunId -> Run]
  <1> SUFFICES ASSUME NEW r \in RunId, tbl[r].status # "absent"
               PROVE  [tbl[r] EXCEPT !.age = Older(@), !.done = Older(@),
                                     !.lease = Remaining(@)] \in Run
    BY DEF Aged
  <1>1. /\ tbl[r].age \in 0..Horizon
        /\ tbl[r].done \in -1..Horizon
        /\ tbl[r].lease \in Nat
    BY DEF Run
  <1>2. Older(tbl[r].age) \in 0..Horizon
    BY <1>1, OlderType
  <1>3. Older(tbl[r].done) \in -1..Horizon
    BY <1>1, OlderType
  <1>4. Remaining(tbl[r].lease) \in Nat
    BY <1>1 DEF Remaining
  <1> QED
    BY <1>2, <1>3, <1>4 DEF Run

-----------------------------------------------------------------------------
(* Active rows *)

USE DEF NotCompleted

\* A row that is marked stale is no longer active.
LEMMA MarkStaleRetires ==
  ASSUME NEW tbl \in [RunId -> Run], NEW S
  PROVE  /\ \A r \in RunId : r \in S => ~IsActive(MarkStale(tbl, S)[r])
         /\ \A r \in RunId : r \notin S => MarkStale(tbl, S)[r] = tbl[r]
  <1>1. ASSUME NEW r \in RunId, r \in S PROVE ~IsActive(MarkStale(tbl, S)[r])
    <2>1. \A st : FinishedRun(tbl[r], st).done = 0
      BY DEF FinishedRun, Run
    <2> QED
      BY <1>1, <2>1 DEF MarkStale, IsActive
  <1> QED
    BY <1>1 DEF MarkStale

LEMMA ActiveIsRow ==
  ASSUME NEW tbl, NEW r \in RunId, IsActive(tbl[r])
  PROVE  r \in RowsOf(tbl, tbl[r].task)
  BY DEF RowsOf, Rows, IsActive, ActiveStatuses, ClaimableStatuses, RunningStatuses

\* A tick leaves every row as active as it was.
LEMMA AgedActivity ==
  ASSUME NEW tbl \in [RunId -> Run], NEW r \in RunId
  PROVE  /\ Aged(tbl)[r].status = tbl[r].status
         /\ Aged(tbl)[r].task = tbl[r].task
         /\ Aged(tbl)[r].dry = tbl[r].dry
         /\ Aged(tbl)[r].done = -1 <=> tbl[r].done = -1
  <1>1. tbl[r] \in Run /\ tbl[r].done \in -1..Horizon
    BY DEF Run
  <1>2. Older(tbl[r].done) = -1 <=> tbl[r].done = -1
    BY <1>1, OlderType
  <1>3. CASE tbl[r].status = "absent"
    BY <1>3 DEF Aged
  <1>4. CASE tbl[r].status # "absent"
    <2>1. Aged(tbl)[r] = [tbl[r] EXCEPT !.age = Older(@), !.done = Older(@),
                                        !.lease = Remaining(@)]
      BY <1>4 DEF Aged
    <2>2. Aged(tbl)[r].done = Older(tbl[r].done)
      BY <1>1, <2>1 DEF Run
    <2> QED
      BY <1>1, <1>2, <2>1, <2>2 DEF Run
  <1> QED
    BY <1>3, <1>4
=============================================================================
