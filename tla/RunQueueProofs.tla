--------------------------- MODULE RunQueueProofs ---------------------------
(***************************************************************************)
(* Proofs about RunQueue for any tasks, runs, request threads, limits and  *)
(* leases, and for both readings of a plain SELECT.                        *)
(*                                                                         *)
(* The argument: a request that is not overtaken holds a snapshot in which *)
(* every run of its task that is there now is there with the same age, is  *)
(* active if it is active now, and is active or recently completed if it   *)
(* has completed recently (the parts named Seen).  So it declines whenever *)
(* the rows of the moment would make it decline, and what it decided still *)
(* holds when it commits, because it holds the lock of its task.  A run of *)
(* any other request is blind.                                             *)
(***************************************************************************)
EXTENDS RunQueue, RunTableProofs, FiniteSetTheorems

-----------------------------------------------------------------------------
(* Type invariant *)

\* What a snapshot keeps of a row.
LEMMA AsReadFacts ==
  ASSUME NEW row \in Run
  PROVE  /\ AsRead(row) \in Run
         /\ AsRead(row).task = row.task /\ AsRead(row).age = row.age
         /\ AsRead(row).status = "absent" <=> row.status = "absent"
         /\ IsActive(AsRead(row)) <=> IsActive(row)
         /\ IsRecent(row) => IsRecent(AsRead(row)) /\ AsRead(row).done = row.done
  <1> DEFINE status == IF row.status = "absent" THEN row.status
                       ELSE IF IsActive(row) THEN "queued"
                       ELSE IF IsRecent(row) THEN row.status ELSE "failed"
             done == IF IsRecent(row) THEN row.done ELSE NotCompleted
             new == [row EXCEPT !.dry = FALSE, !.lease = 0, !.status = status, !.done = done]
  <1>1. AsRead(row) = new
    BY DEF AsRead
  <1>2. /\ row.status \in ActiveStatuses \cup FinalStatuses \cup {"absent"}
        /\ row.done \in -1..Horizon
    BY DEF Run
  <1>3. status \in ActiveStatuses \cup FinalStatuses \cup {"absent"} /\ done \in -1..Horizon
    BY <1>2, HorizonType DEF ActiveStatuses, ClaimableStatuses, FinalStatuses, NotCompleted
  <1>4. /\ status = "absent" <=> row.status = "absent"
        /\ status \in ActiveStatuses /\ done = NotCompleted <=> IsActive(row)
        /\ IsRecent(row) => /\ status = "completed" /\ done \in 0..DedupeWindow
                            /\ done = row.done
    BY <1>2, RunTableAssumption
       DEF IsActive, IsRecent, ActiveStatuses, ClaimableStatuses, RunningStatuses, NotCompleted
  <1> HIDE DEF status, done
  <1>5. /\ new \in Run /\ new.task = row.task /\ new.age = row.age
        /\ new.status = status /\ new.done = done
    BY <1>3 DEF Run
  <1> HIDE DEF new
  <1> QED
    BY <1>1, <1>4, <1>5 DEF IsActive, IsRecent

LEMMA SeenFacts ==
  ASSUME NEW tbl \in [RunId -> Run]
  PROVE  /\ Seen(tbl) \in [RunId -> Run]
         /\ Rows(Seen(tbl)) = Rows(tbl)
         /\ \A r \in RunId :
              /\ Seen(tbl)[r].task = tbl[r].task
              /\ Seen(tbl)[r].age = tbl[r].age
              /\ IsActive(Seen(tbl)[r]) <=> IsActive(tbl[r])
              /\ IsRecent(tbl[r]) => IsRecent(Seen(tbl)[r]) /\ Seen(tbl)[r].done = tbl[r].done
  <1>1. ASSUME NEW r \in RunId
        PROVE  /\ Seen(tbl)[r] \in Run
               /\ Seen(tbl)[r].status = "absent" <=> tbl[r].status = "absent"
               /\ Seen(tbl)[r].task = tbl[r].task
               /\ Seen(tbl)[r].age = tbl[r].age
               /\ IsActive(Seen(tbl)[r]) <=> IsActive(tbl[r])
               /\ IsRecent(tbl[r]) => IsRecent(Seen(tbl)[r]) /\ Seen(tbl)[r].done = tbl[r].done
    <2>1. tbl[r] \in Run /\ Seen(tbl)[r] = AsRead(tbl[r])
      BY DEF Seen
    <2> QED
      BY <2>1, AsReadFacts
  <1>2. Seen(tbl) \in [RunId -> Run]
    <2>1. DOMAIN Seen(tbl) = RunId /\ Seen(tbl) = [r \in RunId |-> Seen(tbl)[r]]
      BY DEF Seen
    <2> QED
      BY <1>1, <2>1
  <1>3. Rows(Seen(tbl)) = Rows(tbl)
    <2>1. \A r \in RunId : Seen(tbl)[r].status = "absent" <=> tbl[r].status = "absent"
      BY <1>1
    <2> QED
      BY <2>1 DEF Rows
  <1> QED
    BY <1>1, <1>2, <1>3

LEMMA EndRequestType ==
  ASSUME TypeOK, NEW c \in Caller, EndRequest(c)
  PROVE  /\ pc' \in [Caller -> {"idle", "locking", "deciding", "committing"}]
         /\ req' \in [Caller -> Request]
         /\ view' \in [Caller -> [RunId -> Run]]
         /\ expired' \in [Caller -> SUBSET RunId]
  <1>1. NoRequest \in Request
    BY RunTableAssumption DEF NoRequest, Request
  <1>2. NoRows \in [RunId -> Run]
    BY NoRunType DEF NoRows
  <1> QED
    BY <1>1, <1>2 DEF TypeOK, EndRequest

\* Marking rows that exist stale, and finishing or claiming one, leaves no key free.
LEMMA MarkStaleRows ==
  ASSUME NEW tbl \in [RunId -> Run], NEW S
  PROVE  Rows(tbl) \subseteq Rows(MarkStale(tbl, S))
  <1>1. ASSUME NEW r \in Rows(tbl) PROVE MarkStale(tbl, S)[r].status # "absent"
    <2>1. r \in RunId /\ tbl[r] \in Run /\ tbl[r].status # "absent"
      BY DEF Rows
    <2>2. \A st : FinishedRun(tbl[r], st).status = st
      BY <2>1 DEF FinishedRun, Run
    <2> QED
      BY <2>1, <2>2 DEF MarkStale
  <1> QED
    BY <1>1 DEF Rows

LEMMA WrittenRowStays ==
  ASSUME NEW r \in RunId, runs \in [RunId -> Run], NEW row, row.status # "absent",
         runs' = [runs EXCEPT ![r] = row]
  PROVE  Rows(runs) \subseteq Rows(runs')
  BY DEF Rows

\* Every step of the queue, whatever the isolation level, keeps its state in
\* the declared types: ages stay below the horizon, statuses are the code's.
THEOREM TypeInvariant == Spec => []TypeOK
  <1>1. Init => TypeOK
    BY NoRunType, RunTableAssumption DEF Init, TypeOK, NoRows, NoRequest, Request
  <1>2. TypeOK /\ [Next]_vars => TypeOK'
    <2> SUFFICES ASSUME TypeOK, [Next]_vars PROVE TypeOK'
      OBVIOUS
    <2> USE DEF history
    <2>0. runs \in [RunId -> Run] /\ blind \subseteq Rows(runs)
      BY DEF TypeOK
    <2>1. ASSUME NEW c \in Caller, NEW t \in Task, NEW dry \in BOOLEAN, NEW force \in BOOLEAN,
                 ReadTask(c, t, dry, force)
          PROVE  TypeOK'
      <3>1. view' \in [Caller -> [RunId -> Run]]
        BY <2>0, <2>1, SeenFacts DEF TypeOK, ReadTask
      <3> QED
        BY <2>1, <3>1 DEF TypeOK, ReadTask, Request
    <2>2. ASSUME NEW c \in Caller, LockTask(c) PROVE TypeOK'
      BY <2>2 DEF TypeOK, LockTask
    <2>3. ASSUME NEW c \in Caller, Decide(c) PROVE TypeOK'
      <3> DEFINE stale == ExpiredRuns(runs, req[c].task)
      <3>1. stale \subseteq RunId
        BY DEF ExpiredRuns, RowsOf, Rows
      <3>2. CASE Denied(Visible(c, stale), req[c])
        <4>1. /\ runs' = MarkStale(runs, stale)
              /\ recovered' = recovered \cup stale
              /\ EndRequest(c) /\ EndsWithoutRun(c)
              /\ UNCHANGED task
          BY <2>3, <3>2 DEF Decide
        <4> HIDE DEF stale
        <4>2. overtaken' \subseteq Caller /\ blind' \subseteq Rows(runs')
          BY <2>0, <4>1, MarkStaleRows DEF TypeOK, EndsWithoutRun
        <4> QED
          BY <3>1, <4>1, <4>2, EndRequestType, MarkStaleType DEF TypeOK
      <3>3. CASE ~Denied(Visible(c, stale), req[c])
        <4>1. /\ pc' = [pc EXCEPT ![c] = "committing"]
              /\ expired' = [expired EXCEPT ![c] = stale]
              /\ view' = [view EXCEPT ![c] = NoRows]
              /\ UNCHANGED <<task, runs, recovered, req, history>>
          BY <2>3, <3>3 DEF Decide
        <4>2. NoRows \in [RunId -> Run]
          BY NoRunType DEF NoRows
        <4> HIDE DEF stale
        <4> QED
          BY <3>1, <4>1, <4>2 DEF TypeOK
      <3> QED
        BY <3>2, <3>3
    <2>4. ASSUME NEW c \in Caller, CommitRun(c) PROVE TypeOK'
      <3>1. PICK r \in RunId \ Rows(runs) :
              /\ runs' = [MarkStale(runs, expired[c]) EXCEPT
                            ![r] = QueuedRun(req[c].task, req[c].dry)]
              /\ recovered' = recovered \cup expired[c]
              /\ blind' = IF c \in overtaken THEN blind \cup {r} ELSE blind
        BY <2>4 DEF CommitRun
      <3>2. MarkStale(runs, expired[c]) \in [RunId -> Run]
        BY MarkStaleType DEF TypeOK
      <3>3. /\ QueuedRun(req[c].task, req[c].dry) \in Run
            /\ QueuedRun(req[c].task, req[c].dry).status # "absent"
        BY QueuedRunType DEF TypeOK, Request, QueuedRun
      <3>4. runs' \in [RunId -> Run]
        BY <3>1, <3>2, <3>3
      <3>5. EndRequest(c) /\ UNCHANGED task /\ overtaken' \subseteq Caller
        BY <2>4 DEF CommitRun, Overtakes, TypeOK
      <3>6. Rows(runs) \cup {r} \subseteq Rows(runs')
        BY <2>0, <3>1, <3>2, <3>3, MarkStaleRows DEF Rows
      <3>7. blind' \subseteq Rows(runs')
        BY <2>0, <3>1, <3>6
      <3> QED
        BY <3>1, <3>4, <3>5, <3>7, EndRequestType DEF TypeOK
    <2>5. ASSUME NEW c \in Caller, Rollback(c) PROVE TypeOK'
      BY <2>5, EndRequestType DEF TypeOK, Rollback, EndsWithoutRun
    <2>6. ASSUME NEW r \in RunId, ClaimRun(r) PROVE TypeOK'
      <3>1. ClaimedRun(runs[r]) \in Run /\ ClaimedRun(runs[r]).status # "absent"
        BY <2>0, ClaimedRunType DEF ClaimedRun, Run
      <3>2. runs' = [runs EXCEPT ![r] = ClaimedRun(runs[r])] /\ UNCHANGED <<task, recovered, requests, blind>>
        BY <2>6 DEF ClaimRun
      <3>3. blind' \subseteq Rows(runs')
        BY <2>0, <3>1, <3>2, WrittenRowStays
      <3> QED
        BY <3>1, <3>2, <3>3 DEF TypeOK, requests
    <2>7. ASSUME NEW r \in RunId, NEW st \in FinalStatuses, UpdateRun(r, st) PROVE TypeOK'
      <3>1. FinishedRun(runs[r], st) \in Run /\ FinishedRun(runs[r], st).status # "absent"
        <4>1. runs[r] \in Run /\ st # "absent"
          BY <2>0 DEF FinalStatuses, StaleStatuses
        <4>2. FinishedRun(runs[r], st).status = st
          BY <4>1 DEF FinishedRun, Run
        <4> QED
          BY <4>1, <4>2, FinishedRunType
      <3>2. runs' = [runs EXCEPT ![r] = FinishedRun(runs[r], st)] /\ UNCHANGED <<task, recovered, requests, blind>>
        BY <2>7 DEF UpdateRun
      <3>3. blind' \subseteq Rows(runs')
        BY <2>0, <3>1, <3>2, WrittenRowStays
      <3> QED
        BY <3>1, <3>2, <3>3 DEF TypeOK, requests
    <2>8. ASSUME RecoverStaleRuns PROVE TypeOK'
      <3>1. PICK S \in SUBSET RunId : /\ runs' = MarkStale(runs, S)
                                      /\ recovered' = recovered \cup S
                                      /\ UNCHANGED <<task, requests, blind>>
        BY <2>8 DEF RecoverStaleRuns
      <3>2. blind' \subseteq Rows(runs')
        BY <2>0, <3>1, MarkStaleRows
      <3> QED
        BY <3>1, <3>2, MarkStaleType DEF TypeOK, requests
    <2>9. ASSUME ApplyRetention PROVE TypeOK'
      <3>1. /\ runs' = Deleted(runs, OldCompleted(runs)) /\ blind' = blind \ OldCompleted(runs)
            /\ recovered' = recovered \ OldCompleted(runs) /\ UNCHANGED requests
        BY <2>9 DEF ApplyRetention
      <3>2. blind' \subseteq Rows(runs')
        BY <2>0, <3>1 DEF Rows, Deleted
      <3>3. runs' \in [RunId -> Run]
        BY <2>0, <3>1, DeletedType
      <3>4. task' \in [Task -> {"enabled", "disabled", "deleted"}]
        BY <2>9 DEF ApplyRetention, TypeOK
      <3> QED
        BY <3>1, <3>2, <3>3, <3>4 DEF TypeOK, requests
    <2>10. ASSUME NEW t \in Task, NEW state \in {"enabled", "disabled"}, SetTask(t, state)
           PROVE  TypeOK'
      BY <2>10 DEF TypeOK, SetTask, requests
    <2>11. ASSUME Tick PROVE TypeOK'
      <3>1. runs' \in [RunId -> Run] /\ view' \in [Caller -> [RunId -> Run]]
        BY <2>11, AgedType, SeenFacts DEF TypeOK, Tick
      <3>2. blind' \subseteq Rows(runs')
        BY <2>0, <2>11, AgedActivity DEF Tick, Rows
      <3> QED
        BY <2>11, <3>1, <3>2 DEF TypeOK, Tick
    <2>12. CASE UNCHANGED vars
      BY <2>12 DEF TypeOK, vars, requests
    <2> QED
      BY <2>1, <2>2, <2>3, <2>4, <2>5, <2>6, <2>7, <2>8, <2>9, <2>10, <2>11, <2>12 DEF Next
  <1> QED
    BY <1>1, <1>2, PTL DEF Spec

-----------------------------------------------------------------------------
(* What snapshots, decisions and rows have to do with each other *)

\* Every row of t in tbl is in seen with the same age, no more active than
\* there, and recently completed only if that can be seen there, or if it is
\* known to have been recovered.
Shows(seen, tbl, known, t) ==
  \A r \in RowsOf(tbl, t) :
    /\ r \in RowsOf(seen, t) /\ seen[r].age = tbl[r].age
    /\ IsActive(tbl[r]) => IsActive(seen[r])
    /\ IsRecent(tbl[r]) /\ r \notin known
         => IsActive(seen[r]) \/ (IsRecent(seen[r]) /\ seen[r].done = tbl[r].done)

\* The requests whose snapshot will be read and was not overtaken.
Sighted(c) == SnapshotReads /\ pc[c] \in {"locking", "deciding"} /\ c \notin overtaken

\* Two requests never hold the lock of one task.
LockExclusion ==
  \A c, d \in Caller :
    pc[c] \in {"deciding", "committing"} /\ pc[d] \in {"deciding", "committing"}
    /\ req[c].task = req[d].task => c = d

\* What a request marked stale is still running, and of the task it locked.
ExpiredStillRunning ==
  \A c \in Caller : \A r \in expired[c] :
    pc[c] = "committing" /\ IsRunning(runs[r]) /\ runs[r].task = req[c].task

\* A row that recovery marked stale is on record, and no running row has ended.
RowsRecorded ==
  \A r \in RunId : /\ runs[r].status \in StaleStatuses => r \in recovered
                   /\ runs[r].status \in RunningStatuses => runs[r].done = NotCompleted

SnapshotsShow == \A c \in Caller : Sighted(c) => Shows(view[c], runs, recovered, req[c].task)

\* Between the decision and the commit no run of the task becomes active.
DecisionStands ==
  \A c \in Caller \ overtaken : pc[c] = "committing" =>
    \A r \in RunId : IsActive(runs[r]) /\ runs[r].task = req[c].task => r \in expired[c]

\* The runs of t that would make a new run of t a repetition.
Repeats(tbl, known, t) == {r \in RowsOf(tbl, t) \ known : IsRecent(tbl[r])}

Deduped(c) == pc[c] = "committing" /\ ~req[c].dry /\ ~req[c].force /\ DedupeWindow > 0

\* From the decision to the commit the new run would repeat nothing.
NothingToRepeat ==
  \A c \in Caller \ overtaken : Deduped(c) => Repeats(runs, recovered, req[c].task) = {}

SingleActive ==
  \A r, q \in RunId \ blind :
    IsActive(runs[r]) /\ IsActive(runs[q]) /\ runs[r].task = runs[q].task => r = q

QueueInv ==
  /\ LockExclusion
  /\ ExpiredStillRunning
  /\ RowsRecorded
  /\ SnapshotsShow
  /\ DecisionStands
  /\ NothingToRepeat
  /\ SingleActive

USE DEF NotCompleted

LEMMA InactiveKinds ==
  ASSUME NEW row, row.status \in FinalStatuses \cup {"absent"}
  PROVE  ~IsActive(row) /\ ~IsRunning(row) /\ ~IsClaimable(row)
  BY DEF FinalStatuses, StaleStatuses, IsActive, IsRunning, IsClaimable, ActiveStatuses,
         ClaimableStatuses, RunningStatuses

LEMMA ShowsAgain ==
  ASSUME NEW old, NEW known, NEW new, NEW known2, NEW seen, NEW t,
         Shows(old, new, known2, t), Shows(seen, old, known, t),
         \A r \in Rows(new) : r \in known => r \in known2
  PROVE  Shows(seen, new, known2, t)
  <1> SUFFICES ASSUME NEW r \in RowsOf(new, t)
               PROVE  /\ r \in RowsOf(seen, t) /\ seen[r].age = new[r].age
                      /\ IsActive(new[r]) => IsActive(seen[r])
                      /\ IsRecent(new[r]) /\ r \notin known2
                           => IsActive(seen[r]) \/ (IsRecent(seen[r]) /\ seen[r].done = new[r].done)
    BY DEF Shows
  <1>1. r \in Rows(new)
    BY DEF RowsOf
  <1>2. /\ r \in RowsOf(old, t) /\ old[r].age = new[r].age
        /\ IsActive(new[r]) => IsActive(old[r])
        /\ IsRecent(new[r]) /\ r \notin known2
             => IsActive(old[r]) \/ (IsRecent(old[r]) /\ old[r].done = new[r].done)
    BY DEF Shows
  <1>3. /\ r \in RowsOf(seen, t) /\ seen[r].age = old[r].age
        /\ IsActive(old[r]) => IsActive(seen[r])
        /\ IsRecent(old[r]) /\ r \notin known
             => IsActive(seen[r]) \/ (IsRecent(seen[r]) /\ seen[r].done = old[r].done)
    BY <1>2 DEF Shows
  <1> QED
    BY <1>1, <1>2, <1>3

\* Rows that a step leaves alone, or that it ends without their having
\* completed.
LEMMA ShownBefore ==
  ASSUME NEW old, NEW new, NEW known, NEW t,
         \A r \in RowsOf(new, t) :
           \/ new[r] = old[r]
           \/ /\ r \in RowsOf(old, t) /\ old[r].age = new[r].age
              /\ IsActive(new[r]) => IsActive(old[r])
              /\ IsRecent(new[r]) => r \in known \/ IsActive(old[r])
  PROVE  Shows(old, new, known, t)
  BY DEF Shows, RowsOf, Rows

-----------------------------------------------------------------------------
(* Steps that start no run and open no request *)

\* Request d goes on as it was.
Continues(d) ==
  /\ pc'[d] = pc[d] /\ req'[d] = req[d] /\ view'[d] = view[d] /\ expired'[d] = expired[d]
  /\ d \in overtaken' <=> d \in overtaken

\* The rows that request d depends on have only become older or ended.
Undisturbed(d) ==
  /\ Continues(d)
  /\ Shows(runs, runs', recovered', req[d].task)
  /\ \A r \in expired[d] : IsRunning(runs'[r]) /\ runs'[r].task = req[d].task

\* Request d is over, or was overtaken.
Idles(d) == pc'[d] \in {"idle", "locking"} /\ expired'[d] = {} /\ ~Sighted(d)'

\* The parts of QueueInv about requests.
LEMMA RequestsKept ==
  ASSUME TypeOK, QueueInv, \A d \in Caller : Undisturbed(d) \/ Idles(d),
         \A r \in Rows(runs') : r \in recovered => r \in recovered'
  PROVE  /\ LockExclusion' /\ ExpiredStillRunning' /\ SnapshotsShow'
         /\ DecisionStands' /\ NothingToRepeat'
  <1>1. \A d \in Caller : pc'[d] \in {"deciding", "committing"} => Undisturbed(d) /\ Continues(d)
    BY DEF Idles, Undisturbed
  <1>2. LockExclusion'
    BY <1>1 DEF QueueInv, LockExclusion, Continues
  <1>3. ExpiredStillRunning'
    <2> SUFFICES ASSUME NEW d \in Caller, NEW r \in expired'[d]
                 PROVE  pc'[d] = "committing" /\ IsRunning(runs'[r]) /\ runs'[r].task = req'[d].task
      BY DEF ExpiredStillRunning
    <2>1. Undisturbed(d) /\ Continues(d) /\ r \in expired[d]
      BY DEF Idles, Undisturbed, Continues
    <2> QED
      BY <2>1 DEF QueueInv, ExpiredStillRunning, Undisturbed, Continues
  <1>4. SnapshotsShow'
    <2> SUFFICES ASSUME NEW d \in Caller, Sighted(d)'
                 PROVE  Shows(view'[d], runs', recovered', req'[d].task)
      BY DEF SnapshotsShow
    <2>1. Undisturbed(d) /\ Continues(d)
      BY DEF Idles, Undisturbed
    <2>2. Sighted(d)
      BY <2>1 DEF Sighted, Continues
    <2>3. Shows(view[d], runs, recovered, req[d].task)
      BY <2>2 DEF QueueInv, SnapshotsShow
    <2>4. Shows(view[d], runs', recovered', req[d].task)
      BY <2>1, <2>3, ShowsAgain DEF Undisturbed
    <2> QED
      BY <2>1, <2>4 DEF Continues
  <1>5. DecisionStands'
    <2> SUFFICES ASSUME NEW d \in Caller, d \notin overtaken', pc'[d] = "committing",
                        NEW r \in RunId, IsActive(runs'[r]), runs'[r].task = req'[d].task
                 PROVE  r \in expired'[d]
      BY DEF DecisionStands
    <2>1. Undisturbed(d) /\ Continues(d)
      BY <1>1
    <2>2. r \in RowsOf(runs', req[d].task)
      BY <2>1, ActiveIsRow DEF Continues
    <2>3. IsActive(runs[r]) /\ runs[r].task = req[d].task
      BY <2>1, <2>2 DEF Undisturbed, Shows, RowsOf
    <2> QED
      BY <2>1, <2>3 DEF Continues, QueueInv, DecisionStands
  <1>6. NothingToRepeat'
    <2> SUFFICES ASSUME NEW d \in Caller, d \notin overtaken', Deduped(d)',
                        NEW r \in Repeats(runs', recovered', req'[d].task)
                 PROVE  FALSE
      BY DEF NothingToRepeat
    <2>1. Undisturbed(d) /\ Continues(d)
      BY <1>1 DEF Deduped
    <2>2. /\ r \in RowsOf(runs', req[d].task) /\ r \in Rows(runs') /\ r \in RunId
          /\ r \notin recovered' /\ IsRecent(runs'[r])
      BY <2>1 DEF Repeats, RowsOf, Rows, Continues
    <2>3. /\ r \in RowsOf(runs, req[d].task)
          /\ IsActive(runs[r]) \/ IsRecent(runs[r])
      BY <2>1, <2>2 DEF Undisturbed, Shows
    <2>4. r \notin recovered /\ Deduped(d) /\ d \notin overtaken
      BY <2>1, <2>2 DEF Continues, Deduped
    <2>5. ASSUME IsActive(runs[r]) PROVE FALSE
      <3>1. r \in expired[d]
        BY <2>2, <2>3, <2>4, <2>5 DEF QueueInv, DecisionStands, Deduped, RowsOf
      <3>2. IsRunning(runs'[r])
        BY <2>1, <3>1 DEF Undisturbed
      <3> QED
        BY <2>2, <3>2 DEF IsRecent, IsRunning, RunningStatuses
    <2>6. ASSUME IsRecent(runs[r]) PROVE FALSE
      BY <2>3, <2>4, <2>6 DEF QueueInv, NothingToRepeat, Repeats
    <2> QED
      BY <2>3, <2>5, <2>6
  <1> QED
    BY <1>2, <1>3, <1>4, <1>5, <1>6

\* A step of this kind: rows end or age, requests go on or end.
Calm ==
  /\ \A d \in Caller : Undisturbed(d) \/ Idles(d)
  /\ \A t \in Task : Shows(runs, runs', recovered', t)
  /\ \A r \in Rows(runs') : /\ r \in recovered => r \in recovered'
                            /\ r \in blind => r \in blind'

LEMMA CalmKeeps ==
  ASSUME TypeOK, TypeOK', QueueInv, Calm, RowsRecorded'
  PROVE  QueueInv'
  <1>1. SingleActive'
    <2>1. ASSUME NEW r \in RunId, r \notin blind', IsActive(runs'[r])
          PROVE  r \notin blind /\ IsActive(runs[r]) /\ runs[r].task = runs'[r].task
      <3>1. runs'[r].task \in Task
        BY DEF TypeOK, Run
      <3>2. r \in RowsOf(runs', runs'[r].task) /\ r \in Rows(runs')
        BY <2>1, ActiveIsRow DEF RowsOf
      <3> QED
        BY <2>1, <3>1, <3>2 DEF Calm, Shows, RowsOf
    <2> QED
      BY <2>1 DEF QueueInv, SingleActive
  <1>2. /\ LockExclusion' /\ ExpiredStillRunning' /\ SnapshotsShow'
        /\ DecisionStands' /\ NothingToRepeat'
    BY RequestsKept DEF Calm
  <1> QED
    BY <1>1, <1>2 DEF QueueInv

LEMMA EndRequestIdles ==
  ASSUME TypeOK, NEW c \in Caller, EndRequest(c)
  PROVE  /\ Idles(c) /\ view'[c] = NoRows
         /\ \A d \in Caller \ {c} : /\ pc'[d] = pc[d] /\ req'[d] = req[d]
                                    /\ view'[d] = view[d] /\ expired'[d] = expired[d]
  BY DEF TypeOK, EndRequest, Idles, Sighted

\* A step that leaves every request alone is calm, provided it keeps what an
\* open request marked stale.
LEMMA TableCalm ==
  ASSUME TypeOK, QueueInv, UNCHANGED requests,
         \A t \in Task : Shows(runs, runs', recovered', t),
         \A r \in Rows(runs') : (r \in recovered => r \in recovered') /\ (r \in blind => r \in blind'),
         \A d \in Caller : \A r \in expired[d] : IsRunning(runs'[r]) /\ runs'[r].task = runs[r].task
  PROVE  Calm
  <1>1. \A d \in Caller : req[d].task \in Task
    BY DEF TypeOK, Request
  <1>2. \A d \in Caller : \A r \in expired[d] : runs[r].task = req[d].task
    BY DEF QueueInv, ExpiredStillRunning
  <1>3. \A d \in Caller : Continues(d)
    BY DEF requests, Continues
  <1>4. \A d \in Caller : Undisturbed(d)
    BY <1>1, <1>2, <1>3 DEF Undisturbed
  <1> QED
    BY <1>4 DEF Calm

-----------------------------------------------------------------------------
(* The steps of the worker, of maintenance and of time *)

LEMMA ClaimCalm ==
  ASSUME TypeOK, QueueInv, NEW r \in RunId, ClaimRun(r)
  PROVE  Calm /\ RowsRecorded'
  <1>1. /\ runs'[r] = ClaimedRun(runs[r]) /\ runs[r] \in Run /\ IsClaimable(runs[r])
        /\ \A q \in RunId : q # r => runs'[q] = runs[q]
        /\ UNCHANGED <<requests, recovered, blind>>
    BY DEF ClaimRun, TypeOK
  <1>2. /\ runs'[r].task = runs[r].task /\ runs'[r].age = runs[r].age
        /\ runs'[r].status \in RunningStatuses /\ runs'[r].done = runs[r].done
    BY <1>1 DEF ClaimedRun, Run, RunningStatuses
  <1>3. /\ IsActive(runs[r]) /\ ~IsRunning(runs[r]) /\ ~IsRecent(runs'[r])
        /\ runs[r].status # "absent" /\ runs'[r].done = NotCompleted
    BY <1>1, <1>2 DEF IsClaimable, IsActive, IsRunning, IsRecent, ActiveStatuses, ClaimableStatuses,
                      RunningStatuses
  <1>4. ASSUME NEW t \in Task PROVE Shows(runs, runs', recovered', t)
    <2>1. ASSUME NEW q \in RowsOf(runs', t), q = r
          PROVE  q \in RowsOf(runs, t) /\ runs[q].age = runs'[q].age
      BY <1>2, <1>3, <2>1 DEF RowsOf, Rows
    <2>2. RowsOf(runs', t) \subseteq RunId
      BY DEF RowsOf, Rows
    <2> QED
      BY <1>1, <1>3, <2>1, <2>2, ShownBefore
  <1>5. \A d \in Caller : \A q \in expired[d] : IsRunning(runs'[q]) /\ runs'[q].task = runs[q].task
    <2>1. \A d \in Caller : \A q \in expired[d] : q \in RunId /\ q # r /\ IsRunning(runs[q])
      BY <1>3 DEF QueueInv, ExpiredStillRunning, TypeOK
    <2> QED
      BY <1>1, <2>1
  <1>6. RowsRecorded'
    BY <1>1, <1>2, <1>3 DEF QueueInv, RowsRecorded, StaleStatuses, RunningStatuses
  <1> QED
    BY <1>1, <1>4, <1>5, <1>6, TableCalm

\* A run whose lease was not taken away is reported completed only while it runs.
LEMMA UpdateCalm ==
  ASSUME TypeOK, QueueInv, NEW r \in RunId, NEW st \in FinalStatuses, UpdateRun(r, st)
  PROVE  Calm /\ RowsRecorded'
  <1>1. /\ runs'[r] = FinishedRun(runs[r], st) /\ runs[r] \in Run
        /\ \A q \in RunId : q # r => runs'[q] = runs[q]
        /\ UNCHANGED <<requests, recovered, blind>>
        /\ \A d \in Caller : r \notin expired[d]
    BY DEF UpdateRun, TypeOK, RowLocked
  <1>2. /\ runs'[r].task = runs[r].task /\ runs'[r].age = runs[r].age /\ runs'[r].status = st
    BY <1>1 DEF FinishedRun, Run
  <1>3. st \notin StaleStatuses /\ st \notin RunningStatuses /\ runs[r].status # "absent"
    BY DEF UpdateRun, ReportedStatuses, StaleStatuses, RunningStatuses
  <1>4. ~IsActive(runs'[r])
    BY <1>2, InactiveKinds
  <1>5. IsRecent(runs'[r]) => r \in recovered \/ IsActive(runs[r])
    <2> SUFFICES ASSUME st = "completed" PROVE r \in recovered \/ IsActive(runs[r])
      BY <1>2 DEF IsRecent
    <2>1. runs[r].status \in RunningStatuses \cup StaleStatuses
      BY DEF UpdateRun
    <2> QED
      BY <2>1 DEF QueueInv, RowsRecorded, IsActive, ActiveStatuses
  <1>6. ASSUME NEW t \in Task PROVE Shows(runs, runs', recovered', t)
    <2>1. ASSUME NEW q \in RowsOf(runs', t), q = r
          PROVE  q \in RowsOf(runs, t) /\ runs[q].age = runs'[q].age
      BY <1>2, <1>3, <2>1 DEF RowsOf, Rows
    <2>2. RowsOf(runs', t) \subseteq RunId
      BY DEF RowsOf, Rows
    <2> QED
      BY <1>1, <1>4, <1>5, <2>1, <2>2, ShownBefore
  <1>7. \A d \in Caller : \A q \in expired[d] : IsRunning(runs'[q]) /\ runs'[q].task = runs[q].task
    <2>1. \A d \in Caller : \A q \in expired[d] : q \in RunId /\ q # r /\ IsRunning(runs[q])
      BY <1>1 DEF QueueInv, ExpiredStillRunning, TypeOK
    <2> QED
      BY <1>1, <2>1
  <1>8. RowsRecorded'
    BY <1>1, <1>2, <1>3 DEF QueueInv, RowsRecorded
  <1> QED
    BY <1>1, <1>6, <1>7, <1>8, TableCalm

\* Marking rows that exist stale, and recording it.
LEMMA MarkedRows ==
  ASSUME NEW tbl \in [RunId -> Run], NEW S \in SUBSET Rows(tbl), NEW r \in RunId
  PROVE  /\ MarkStale(tbl, S)[r].task = tbl[r].task
         /\ MarkStale(tbl, S)[r].age = tbl[r].age
         /\ MarkStale(tbl, S)[r].status # "absent" <=> tbl[r].status # "absent"
         /\ r \in S => /\ MarkStale(tbl, S)[r].status \in StaleStatuses
                       /\ ~IsActive(MarkStale(tbl, S)[r]) /\ ~IsRecent(MarkStale(tbl, S)[r])
         /\ r \notin S => MarkStale(tbl, S)[r] = tbl[r]
  <1>1. ASSUME r \in S
        PROVE  /\ MarkStale(tbl, S)[r].task = tbl[r].task
               /\ MarkStale(tbl, S)[r].age = tbl[r].age
               /\ MarkStale(tbl, S)[r].status \in StaleStatuses
               /\ tbl[r].status # "absent"
    <2>1. tbl[r].status # "absent" /\ tbl[r] \in Run
      BY <1>1 DEF Rows
    <2>2. PICK st \in {"failed_stale_dry_run", "failed_stale"} :
            MarkStale(tbl, S)[r] = FinishedRun(tbl[r], st)
      BY <1>1 DEF MarkStale
    <2> QED
      BY <2>1, <2>2 DEF FinishedRun, Run, StaleStatuses
  <1>2. ASSUME r \in S
        PROVE  ~IsActive(MarkStale(tbl, S)[r]) /\ ~IsRecent(MarkStale(tbl, S)[r])
    BY <1>1, <1>2, InactiveKinds DEF FinalStatuses, StaleStatuses, IsRecent
  <1>3. ASSUME r \notin S PROVE MarkStale(tbl, S)[r] = tbl[r]
    BY <1>3 DEF MarkStale
  <1> QED
    BY <1>1, <1>2, <1>3 DEF StaleStatuses

LEMMA MarkedShows ==
  ASSUME TypeOK, QueueInv, NEW S \in SUBSET Rows(runs), runs' = MarkStale(runs, S),
         recovered' = recovered \cup S
  PROVE  RowsRecorded' /\ \A t \in Task : Shows(runs, runs', recovered', t)
  <1>1. ASSUME NEW r \in RunId
        PROVE  /\ runs'[r].task = runs[r].task /\ runs'[r].age = runs[r].age
               /\ runs'[r].status # "absent" <=> runs[r].status # "absent"
               /\ r \in S => runs'[r].status \in StaleStatuses /\ ~IsActive(runs'[r])
                             /\ ~IsRecent(runs'[r])
               /\ r \notin S => runs'[r] = runs[r]
    BY MarkedRows DEF TypeOK
  <1>2. RowsRecorded'
    BY <1>1 DEF QueueInv, RowsRecorded, StaleStatuses, RunningStatuses
  <1>3. ASSUME NEW t \in Task PROVE Shows(runs, runs', recovered', t)
    BY <1>1, ShownBefore DEF RowsOf, Rows
  <1> QED
    BY <1>2, <1>3

LEMMA RecoverCalm ==
  ASSUME TypeOK, QueueInv, RecoverStaleRuns
  PROVE  Calm /\ RowsRecorded'
  <1>1. PICK S \in SUBSET {r \in RunId : IsRunning(runs[r])} :
          /\ runs' = MarkStale(runs, S) /\ recovered' = recovered \cup S
          /\ \A r \in S : ~RowLocked(r)
          /\ UNCHANGED <<requests, blind>>
    BY DEF RecoverStaleRuns
  <1>2. S \in SUBSET Rows(runs)
    BY DEF Rows, IsRunning, RunningStatuses
  <1>3. RowsRecorded' /\ \A t \in Task : Shows(runs, runs', recovered', t)
    BY <1>1, <1>2, MarkedShows
  <1>4. \A d \in Caller : \A r \in expired[d] : IsRunning(runs'[r]) /\ runs'[r].task = runs[r].task
    <2>1. \A d \in Caller : \A r \in expired[d] : r \in RunId /\ r \notin S /\ IsRunning(runs[r])
      BY <1>1 DEF QueueInv, ExpiredStillRunning, TypeOK, RowLocked
    <2>2. \A r \in RunId : r \notin S => runs'[r] = runs[r]
      BY <1>1 DEF MarkStale
    <2> QED
      BY <2>1, <2>2
  <1> QED
    BY <1>1, <1>3, <1>4, TableCalm

LEMMA RetentionCalm ==
  ASSUME TypeOK, QueueInv, ApplyRetention
  PROVE  Calm /\ RowsRecorded'
  <1> DEFINE old == OldCompleted(runs)
  <1>1. /\ \A r \in RunId : r \in old => runs'[r] = NoRun
        /\ \A r \in RunId : r \notin old => runs'[r] = runs[r]
        /\ recovered' = recovered \ old /\ blind' = blind \ old /\ UNCHANGED requests
    BY DEF ApplyRetention, Deleted
  <1>2. \A r \in old : ~IsRunning(runs[r])
    BY DEF OldCompleted, IsRunning
  <1> HIDE DEF old
  <1>3. NoRun.status = "absent"
    BY DEF NoRun
  <1>4. \A r \in Rows(runs') : r \in RunId /\ r \notin old /\ runs'[r] = runs[r]
    BY <1>1, <1>3 DEF Rows
  <1>5. \A t \in Task : Shows(runs, runs', recovered', t)
    BY <1>4, ShownBefore DEF RowsOf
  <1>6. \A d \in Caller : \A r \in expired[d] : IsRunning(runs'[r]) /\ runs'[r].task = runs[r].task
    <2>1. \A d \in Caller : \A r \in expired[d] : r \in RunId /\ r \notin old /\ IsRunning(runs[r])
      BY <1>2 DEF QueueInv, ExpiredStillRunning, TypeOK
    <2> QED
      BY <1>1, <2>1
  <1>7. RowsRecorded'
    BY <1>1, <1>3 DEF QueueInv, RowsRecorded, StaleStatuses, RunningStatuses
  <1> QED
    BY <1>1, <1>4, <1>5, <1>6, <1>7, TableCalm

\* A tick makes a row and what a snapshot holds of it older by the same.
LEMMA AgedRow ==
  ASSUME NEW tbl \in [RunId -> Run], NEW r \in RunId, tbl[r].status # "absent"
  PROVE  /\ Aged(tbl)[r].task = tbl[r].task /\ Aged(tbl)[r].status = tbl[r].status
         /\ Aged(tbl)[r].age = Older(tbl[r].age) /\ Aged(tbl)[r].done = Older(tbl[r].done)
         /\ IsActive(Aged(tbl)[r]) <=> IsActive(tbl[r])
         /\ IsRunning(Aged(tbl)[r]) <=> IsRunning(tbl[r])
         /\ IsRecent(Aged(tbl)[r]) => IsRecent(tbl[r])
  <1>1. tbl[r] \in Run /\ tbl[r].done \in -1..Horizon
    BY DEF Run
  <1>2. Aged(tbl)[r] = [tbl[r] EXCEPT !.age = Older(@), !.done = Older(@), !.lease = Remaining(@)]
    BY DEF Aged
  <1>3. /\ Aged(tbl)[r].task = tbl[r].task /\ Aged(tbl)[r].status = tbl[r].status
        /\ Aged(tbl)[r].age = Older(tbl[r].age) /\ Aged(tbl)[r].done = Older(tbl[r].done)
    BY <1>1, <1>2 DEF Run
  <1>4. Older(tbl[r].done) = -1 <=> tbl[r].done = -1
    BY <1>1, OlderType
  <1>5. Older(tbl[r].done) \in 0..DedupeWindow => tbl[r].done \in 0..DedupeWindow
    BY <1>1, RunTableAssumption DEF Older
  <1> QED
    BY <1>3, <1>4, <1>5 DEF IsActive, IsRunning, IsRecent

LEMMA TickRows ==
  ASSUME TypeOK, Tick, NEW r \in RunId
  PROVE  /\ runs'[r].task = runs[r].task /\ runs'[r].status = runs[r].status
         /\ runs'[r].done = -1 <=> runs[r].done = -1
         /\ IsActive(runs'[r]) <=> IsActive(runs[r])
         /\ IsRunning(runs'[r]) <=> IsRunning(runs[r])
         /\ IsRecent(runs'[r]) => IsRecent(runs[r])
  <1>1. runs' = Aged(runs) /\ runs \in [RunId -> Run]
    BY DEF Tick, TypeOK
  <1>2. CASE runs[r].status = "absent"
    BY <1>1, <1>2 DEF Aged
  <1>3. CASE runs[r].status # "absent"
    BY <1>1, <1>3, AgedRow, AgedActivity
  <1> QED
    BY <1>2, <1>3

LEMMA TickShows ==
  ASSUME TypeOK, Tick, NEW seen \in [RunId -> Run], NEW t, Shows(seen, runs, recovered, t)
  PROVE  Shows(Seen(Aged(seen)), runs', recovered', t)
  <1>1. runs' = Aged(runs) /\ runs \in [RunId -> Run] /\ recovered' = recovered
    BY DEF Tick, TypeOK
  <1> DEFINE new == Seen(Aged(seen))
  <1> SUFFICES ASSUME NEW r \in RowsOf(runs', t)
               PROVE  /\ r \in RowsOf(new, t) /\ new[r].age = runs'[r].age
                      /\ IsActive(runs'[r]) => IsActive(new[r])
                      /\ IsRecent(runs'[r]) /\ r \notin recovered
                           => IsActive(new[r]) \/ (IsRecent(new[r]) /\ new[r].done = runs'[r].done)
    BY <1>1 DEF Shows
  <1>2. r \in RunId /\ r \in RowsOf(runs, t) /\ runs[r].status # "absent"
    BY TickRows DEF RowsOf, Rows
  <1>3. /\ r \in RowsOf(seen, t) /\ seen[r].age = runs[r].age /\ seen[r].status # "absent"
        /\ IsActive(runs[r]) => IsActive(seen[r])
        /\ IsRecent(runs[r]) /\ r \notin recovered
             => IsActive(seen[r]) \/ (IsRecent(seen[r]) /\ seen[r].done = runs[r].done)
    BY <1>2 DEF Shows, RowsOf, Rows
  <1>4. /\ runs'[r].age = Older(runs[r].age) /\ runs'[r].done = Older(runs[r].done)
        /\ IsActive(runs'[r]) <=> IsActive(runs[r])
        /\ IsRecent(runs'[r]) => IsRecent(runs[r])
    BY <1>1, <1>2, AgedRow
  <1>5. /\ Aged(seen)[r].task = seen[r].task /\ Aged(seen)[r].status = seen[r].status
        /\ Aged(seen)[r].age = Older(seen[r].age) /\ Aged(seen)[r].done = Older(seen[r].done)
        /\ IsActive(Aged(seen)[r]) <=> IsActive(seen[r])
    BY <1>2, <1>3, AgedRow
  <1>6. Aged(seen) \in [RunId -> Run]
    BY AgedType
  <1>7. /\ new[r].task = Aged(seen)[r].task /\ new[r].age = Aged(seen)[r].age
        /\ IsActive(new[r]) <=> IsActive(Aged(seen)[r])
        /\ IsRecent(Aged(seen)[r]) => IsRecent(new[r]) /\ new[r].done = Aged(seen)[r].done
        /\ Rows(new) = Rows(Aged(seen))
    BY <1>2, <1>6, SeenFacts
  <1> HIDE DEF new
  <1>8. r \in RowsOf(new, t) /\ new[r].age = runs'[r].age
    BY <1>2, <1>3, <1>4, <1>5, <1>7 DEF RowsOf, Rows
  <1>9. ASSUME IsRecent(runs'[r]), r \notin recovered, ~IsActive(new[r])
        PROVE  IsRecent(new[r]) /\ new[r].done = runs'[r].done
    <2>1. IsRecent(runs[r]) /\ IsRecent(seen[r]) /\ seen[r].done = runs[r].done
      BY <1>3, <1>4, <1>5, <1>7, <1>9
    <2>2. Aged(seen)[r].status = "completed" /\ Aged(seen)[r].done = runs'[r].done
      BY <1>4, <1>5, <2>1 DEF IsRecent
    <2>3. IsRecent(Aged(seen)[r])
      BY <1>9, <2>2 DEF IsRecent
    <2> QED
      BY <1>7, <2>2, <2>3
  <1> QED
    BY <1>3, <1>4, <1>5, <1>7, <1>8, <1>9

LEMMA TickKeeps ==
  ASSUME TypeOK, QueueInv, Tick
  PROVE  QueueInv'
  <1>1. UNCHANGED <<recovered, pc, req, expired, overtaken, blind>>
    BY DEF Tick, history
  <1>2. LockExclusion' /\ ExpiredStillRunning' /\ RowsRecorded' /\ DecisionStands' /\ SingleActive'
    BY <1>1, TickRows DEF QueueInv, LockExclusion, ExpiredStillRunning, RowsRecorded,
                          DecisionStands, SingleActive, TypeOK
  <1>3. NothingToRepeat'
    <2>1. \A t : Repeats(runs', recovered', t) \subseteq Repeats(runs, recovered, t)
      BY <1>1, TickRows DEF Repeats, RowsOf, Rows
    <2> QED
      BY <1>1, <2>1 DEF QueueInv, NothingToRepeat, Deduped
  <1>4. SnapshotsShow'
    <2> SUFFICES ASSUME NEW d \in Caller, Sighted(d)'
                 PROVE  Shows(view'[d], runs', recovered', req'[d].task)
      BY DEF SnapshotsShow
    <2>1. Shows(view[d], runs, recovered, req[d].task) /\ view[d] \in [RunId -> Run]
      BY <1>1 DEF QueueInv, SnapshotsShow, Sighted, TypeOK
    <2>2. view'[d] = Seen(Aged(view[d])) /\ req'[d] = req[d]
      BY DEF Tick
    <2> QED
      BY <2>1, <2>2, TickShows
  <1> QED
    BY <1>2, <1>3, <1>4 DEF QueueInv

-----------------------------------------------------------------------------
(* The steps of a request *)

\* A step that leaves the rows alone.
LEMMA SameRowsShow ==
  ASSUME UNCHANGED <<runs, recovered>>
  PROVE  \A t \in Task : Shows(runs, runs', recovered', t)
  BY ShownBefore

LEMMA ReadKeeps ==
  ASSUME TypeOK, QueueInv, NEW c \in Caller, NEW t \in Task, NEW dry \in BOOLEAN,
         NEW force \in BOOLEAN, ReadTask(c, t, dry, force)
  PROVE  QueueInv'
  <1>1. /\ UNCHANGED <<runs, recovered, expired, overtaken, blind>>
        /\ pc[c] = "idle" /\ pc'[c] = "locking" /\ expired[c] = {}
        /\ \A d \in Caller \ {c} : pc'[d] = pc[d] /\ req'[d] = req[d] /\ view'[d] = view[d]
        /\ SnapshotReads => view'[c] = Seen(runs)
    BY DEF ReadTask, TypeOK, QueueInv, ExpiredStillRunning, history
  <1>2. LockExclusion' /\ ExpiredStillRunning' /\ RowsRecorded' /\ DecisionStands' /\ SingleActive'
        /\ NothingToRepeat'
    BY <1>1 DEF QueueInv, LockExclusion, ExpiredStillRunning, RowsRecorded, DecisionStands,
                SingleActive, NothingToRepeat, Deduped
  <1>3. ASSUME NEW u PROVE Shows(Seen(runs), runs, recovered, u)
    BY SeenFacts DEF Shows, RowsOf, Rows, TypeOK
  <1>4. SnapshotsShow'
    <2> SUFFICES ASSUME NEW d \in Caller, Sighted(d)'
                 PROVE  Shows(view'[d], runs', recovered', req'[d].task)
      BY DEF SnapshotsShow
    <2>1. CASE d = c
      BY <1>1, <1>3, <2>1 DEF Sighted
    <2>2. CASE d # c
      BY <1>1, <2>2 DEF QueueInv, SnapshotsShow, Sighted
    <2> QED
      BY <2>1, <2>2
  <1> QED
    BY <1>2, <1>4 DEF QueueInv

LEMMA LockKeeps ==
  ASSUME TypeOK, QueueInv, NEW c \in Caller, LockTask(c)
  PROVE  QueueInv'
  <1>1. /\ UNCHANGED <<runs, recovered, req, view, expired, overtaken, blind>>
        /\ pc[c] = "locking" /\ pc'[c] = "deciding"
        /\ \A d \in Caller \ {c} : pc'[d] = pc[d]
        /\ \A d \in Caller : pc[d] \in {"deciding", "committing"} => req[d].task # req[c].task
    BY DEF LockTask, TypeOK, TaskLocked, HoldsLock, history
  <1>2. LockExclusion'
    BY <1>1 DEF QueueInv, LockExclusion
  <1>3. ExpiredStillRunning' /\ RowsRecorded' /\ DecisionStands' /\ SingleActive' /\ NothingToRepeat'
    BY <1>1 DEF QueueInv, ExpiredStillRunning, RowsRecorded, DecisionStands, SingleActive,
                NothingToRepeat, Deduped
  <1>4. SnapshotsShow'
    BY <1>1 DEF QueueInv, SnapshotsShow, Sighted
  <1> QED
    BY <1>2, <1>3, <1>4 DEF QueueInv

\* A request that ends without a run leaves the others as they are, also when
\* it marks runs of its own task stale.
LEMMA EndsCalm ==
  ASSUME TypeOK, QueueInv, NEW c \in Caller, EndRequest(c), EndsWithoutRun(c),
         NEW S \in SUBSET Rows(runs), runs' = MarkStale(runs, S), recovered' = recovered \cup S,
         \A d \in Caller \ {c} : expired[d] \cap S = {}
  PROVE  Calm /\ RowsRecorded'
  <1>1. RowsRecorded' /\ \A t \in Task : Shows(runs, runs', recovered', t)
    BY MarkedShows
  <1>2. Idles(c)
    BY EndRequestIdles
  <1>3. ASSUME NEW d \in Caller \ {c} PROVE Undisturbed(d)
    <2>1. Continues(d)
      BY EndRequestIdles DEF Continues, EndsWithoutRun
    <2>2. \A r \in expired[d] : runs'[r] = runs[r]
      BY DEF MarkStale, TypeOK
    <2>3. req[d].task \in Task
      BY DEF TypeOK, Request
    <2> QED
      BY <1>1, <2>1, <2>2, <2>3 DEF Undisturbed, QueueInv, ExpiredStillRunning
  <1> QED
    BY <1>1, <1>2, <1>3 DEF Calm, EndsWithoutRun

LEMMA RollbackCalm ==
  ASSUME TypeOK, QueueInv, NEW c \in Caller, Rollback(c)
  PROVE  Calm /\ RowsRecorded'
  <1>1. MarkStale(runs, {}) = runs
    BY DEF MarkStale, TypeOK
  <1>2. runs' = MarkStale(runs, {}) /\ recovered' = recovered \cup {}
    BY <1>1 DEF Rollback
  <1> QED
    BY <1>2, EndsCalm DEF Rollback

\* What a request that was not overtaken sees when it decides: every row of its
\* task, apart from those it has just marked stale as it is.
LEMMA VisibleShows ==
  ASSUME TypeOK, QueueInv, NEW c \in Caller, pc[c] = "deciding", c \notin overtaken,
         NEW S \in SUBSET Rows(runs), \A r \in S : IsActive(runs[r]),
         NEW r \in RowsOf(runs, req[c].task)
  PROVE  /\ r \in RowsOf(Visible(c, S), req[c].task)
         /\ Visible(c, S)[r].age = runs[r].age
         /\ IsActive(runs[r]) /\ r \notin S => IsActive(Visible(c, S)[r])
         /\ IsRecent(runs[r]) /\ r \notin recovered
              => IsActive(Visible(c, S)[r]) \/ IsRecent(Visible(c, S)[r])
  <1> DEFINE seen == IF SnapshotReads
                     THEN [q \in RunId |-> IF q \in S THEN runs[q] ELSE view[c][q]]
                     ELSE runs
  <1>1. seen \in [RunId -> Run] /\ Visible(c, S) = MarkStale(seen, S) /\ r \in RunId
    BY DEF TypeOK, Visible, RowsOf, Rows
  <1>2. S \in SUBSET Rows(seen)
    BY DEF Rows
  <1>3. /\ r \in RowsOf(seen, req[c].task) /\ seen[r].age = runs[r].age
        /\ IsActive(runs[r]) => IsActive(seen[r])
        /\ IsRecent(runs[r]) /\ r \notin recovered => IsActive(seen[r]) \/ IsRecent(seen[r])
    <2>1. CASE SnapshotReads
      <3>1. Shows(view[c], runs, recovered, req[c].task)
        BY <2>1 DEF QueueInv, SnapshotsShow, Sighted
      <3> QED
        BY <1>1, <2>1, <3>1 DEF Shows, RowsOf, Rows
    <2>2. CASE ~SnapshotReads
      BY <2>2
    <2> QED
      BY <2>1, <2>2
  <1> HIDE DEF seen
  <1>4. /\ Visible(c, S)[r].task = seen[r].task /\ Visible(c, S)[r].age = seen[r].age
        /\ Visible(c, S)[r].status # "absent" <=> seen[r].status # "absent"
        /\ r \notin S => Visible(c, S)[r] = seen[r]
    BY <1>1, <1>2, MarkedRows
  <1>5. r \in S => ~IsRecent(runs[r])
    BY DEF IsActive, IsRecent, ActiveStatuses, ClaimableStatuses, RunningStatuses
  <1> QED
    BY <1>1, <1>3, <1>4, <1>5 DEF RowsOf, Rows

LEMMA DecideKeeps ==
  ASSUME TypeOK, TypeOK', QueueInv, NEW c \in Caller, Decide(c)
  PROVE  QueueInv'
  <1> DEFINE t == req[c].task
             stale == ExpiredRuns(runs, t)
  <1>1. /\ stale \in SUBSET Rows(runs)
        /\ \A r \in stale : r \in RunId /\ IsRunning(runs[r]) /\ runs[r].task = t
    BY DEF ExpiredRuns, RowsOf, Rows, IsExpired
  <1>2. pc[c] = "deciding" /\ UNCHANGED task
    BY DEF Decide
  <1>3. \A d \in Caller : expired[d] \cap stale = {}
    <2> SUFFICES ASSUME NEW d \in Caller, NEW r \in expired[d], r \in stale PROVE FALSE
      OBVIOUS
    <2>1. pc[d] = "committing" /\ req[d].task = t
      BY <1>1 DEF QueueInv, ExpiredStillRunning
    <2> QED
      BY <1>2, <2>1 DEF QueueInv, LockExclusion
  <1>4. CASE Denied(Visible(c, stale), req[c])
    <2>1. /\ runs' = MarkStale(runs, stale) /\ recovered' = recovered \cup stale
          /\ EndRequest(c) /\ EndsWithoutRun(c)
      BY <1>4 DEF Decide
    <2> HIDE DEF stale
    <2> QED
      BY <1>1, <1>3, <2>1, EndsCalm, CalmKeeps
  <1>5. CASE ~Denied(Visible(c, stale), req[c])
    <2>1. /\ pc' = [pc EXCEPT ![c] = "committing"]
          /\ expired' = [expired EXCEPT ![c] = stale]
          /\ view' = [view EXCEPT ![c] = NoRows]
          /\ UNCHANGED <<runs, recovered, req, overtaken, blind>>
      BY <1>5 DEF Decide, history
    <2>2. /\ ActiveRuns(Visible(c, stale), t) = {}
          /\ ~req[c].dry /\ ~req[c].force => RecentlyCompleted(Visible(c, stale), t) = {}
      BY <1>5 DEF Denied
    <2>3. \A r \in stale : IsActive(runs[r])
      BY <1>1 DEF IsRunning, IsActive, ActiveStatuses
    <2> HIDE DEF stale, t
    <2>4. t = req[c].task
      BY DEF t
    <2>5. ASSUME c \notin overtaken, NEW r \in RowsOf(runs, t)
          PROVE  /\ r \in RowsOf(Visible(c, stale), t)
                 /\ IsActive(runs[r]) /\ r \notin stale => IsActive(Visible(c, stale)[r])
                 /\ IsRecent(runs[r]) /\ r \notin recovered
                      => IsActive(Visible(c, stale)[r]) \/ IsRecent(Visible(c, stale)[r])
      BY <1>1, <1>2, <2>3, <2>4, <2>5, VisibleShows
    <2>6. ASSUME c \notin overtaken, NEW r \in RunId, IsActive(runs[r]), runs[r].task = t
          PROVE  r \in stale
      <3>1. r \in RowsOf(runs, t)
        BY <2>6, ActiveIsRow
      <3> QED
        BY <2>2, <2>5, <2>6, <3>1 DEF ActiveRuns
    <2>7. ASSUME c \notin overtaken, ~req[c].dry, ~req[c].force, DedupeWindow > 0
          PROVE  Repeats(runs, recovered, t) = {}
      <3> SUFFICES ASSUME NEW r \in RowsOf(runs, t), r \notin recovered, IsRecent(runs[r])
                   PROVE  FALSE
        BY DEF Repeats
      <3>1. r \in RowsOf(Visible(c, stale), t) /\ ~IsActive(Visible(c, stale)[r])
        BY <2>2, <2>5, <2>7 DEF ActiveRuns
      <3>2. IsRecent(Visible(c, stale)[r])
        BY <2>5, <2>7, <3>1
      <3>3. /\ Visible(c, stale)[r].status = "completed" /\ Visible(c, stale)[r].done # -1
            /\ Visible(c, stale)[r].done <= DedupeWindow
        BY <3>2, RunTableAssumption DEF IsRecent
      <3> QED
        BY <2>2, <2>7, <3>1, <3>3 DEF RecentlyCompleted
    <2>8. LockExclusion'
      BY <1>2, <2>1 DEF QueueInv, LockExclusion, TypeOK
    <2>9. ExpiredStillRunning'
      BY <1>1, <2>1, <2>4 DEF QueueInv, ExpiredStillRunning, TypeOK
    <2>10. DecisionStands'
      BY <2>1, <2>4, <2>6 DEF QueueInv, DecisionStands, TypeOK
    <2>11. NothingToRepeat'
      BY <2>1, <2>4, <2>7 DEF QueueInv, NothingToRepeat, Deduped, TypeOK
    <2>12. SnapshotsShow'
      BY <2>1 DEF QueueInv, SnapshotsShow, Sighted, TypeOK
    <2>13. SingleActive' /\ RowsRecorded'
      BY <2>1 DEF QueueInv, SingleActive, RowsRecorded
    <2> QED
      BY <2>8, <2>9, <2>10, <2>11, <2>12, <2>13 DEF QueueInv
  <1> QED
    BY <1>4, <1>5

\* What a commit leaves in the table.
LEMMA CommitRows ==
  ASSUME TypeOK, QueueInv, NEW c \in Caller, CommitRun(c)
  PROVE  \E n \in RunId \ Rows(runs) :
           /\ runs'[n] = QueuedRun(req[c].task, req[c].dry)
           /\ n \notin blind /\ blind' = IF c \in overtaken THEN blind \cup {n} ELSE blind
           /\ recovered' = recovered \cup expired[c]
           /\ expired[c] \in SUBSET Rows(runs)
           /\ \A r \in RunId \ {n} :
                /\ runs'[r].task = runs[r].task /\ runs'[r].age = runs[r].age
                /\ runs'[r].status # "absent" <=> runs[r].status # "absent"
                /\ r \in expired[c] => /\ runs'[r].status \in StaleStatuses
                                       /\ ~IsActive(runs'[r]) /\ ~IsRecent(runs'[r])
                /\ r \notin expired[c] => runs'[r] = runs[r]
  <1>1. PICK n \in RunId \ Rows(runs) :
          /\ runs' = [MarkStale(runs, expired[c]) EXCEPT ![n] = QueuedRun(req[c].task, req[c].dry)]
          /\ blind' = IF c \in overtaken THEN blind \cup {n} ELSE blind
          /\ recovered' = recovered \cup expired[c]
    BY DEF CommitRun
  <1>2. expired[c] \in SUBSET Rows(runs)
    BY DEF QueueInv, ExpiredStillRunning, TypeOK, Rows, IsRunning, RunningStatuses
  <1>3. runs \in [RunId -> Run] /\ MarkStale(runs, expired[c]) \in [RunId -> Run] /\ n \notin blind
    BY MarkStaleType DEF TypeOK
  <1>4. /\ runs'[n] = QueuedRun(req[c].task, req[c].dry)
        /\ \A r \in RunId \ {n} : runs'[r] = MarkStale(runs, expired[c])[r]
    BY <1>1, <1>3
  <1>5. \A r \in RunId \ {n} :
          /\ runs'[r].task = runs[r].task /\ runs'[r].age = runs[r].age
          /\ runs'[r].status # "absent" <=> runs[r].status # "absent"
          /\ r \in expired[c] => /\ runs'[r].status \in StaleStatuses
                                 /\ ~IsActive(runs'[r]) /\ ~IsRecent(runs'[r])
          /\ r \notin expired[c] => runs'[r] = runs[r]
    BY <1>2, <1>3, <1>4, MarkedRows
  <1> QED
    BY <1>1, <1>2, <1>3, <1>4, <1>5

LEMMA CommitKeeps ==
  ASSUME TypeOK, QueueInv, NEW c \in Caller, CommitRun(c)
  PROVE  QueueInv'
  <1> DEFINE t == req[c].task
  <1>1. PICK n \in RunId \ Rows(runs) :
          /\ runs'[n] = QueuedRun(t, req[c].dry)
          /\ n \notin blind /\ blind' = IF c \in overtaken THEN blind \cup {n} ELSE blind
          /\ recovered' = recovered \cup expired[c]
          /\ expired[c] \in SUBSET Rows(runs)
          /\ \A r \in RunId \ {n} :
               /\ runs'[r].task = runs[r].task /\ runs'[r].age = runs[r].age
               /\ runs'[r].status # "absent" <=> runs[r].status # "absent"
               /\ r \in expired[c] => /\ runs'[r].status \in StaleStatuses
                                      /\ ~IsActive(runs'[r]) /\ ~IsRecent(runs'[r])
               /\ r \notin expired[c] => runs'[r] = runs[r]
    BY CommitRows
  <1>2. pc[c] = "committing" /\ EndRequest(c) /\ overtaken' = (overtaken \ {c}) \cup Overtakes(c)
    BY DEF CommitRun
  <1>3. runs'[n].task = t /\ runs'[n].status \in ClaimableStatuses
    BY <1>1 DEF QueuedRun, ClaimableStatuses
  <1>4. \A r \in expired[c] : r \in RunId \ {n} /\ runs[r].task = t
    BY <1>1 DEF QueueInv, ExpiredStillRunning, Rows
  <1> HIDE DEF t
  <1>5. t = req[c].task
    BY DEF t
  <1>6. ASSUME NEW u \in Task, u # t PROVE Shows(runs, runs', recovered', u)
    <2>1. ASSUME NEW r \in RowsOf(runs', u) PROVE runs'[r] = runs[r]
      <3>1. r \in RunId /\ r # n
        BY <1>3, <1>6, <2>1 DEF RowsOf, Rows
      <3>2. runs[r].task = u
        BY <1>1, <3>1 DEF RowsOf
      <3> QED
        BY <1>1, <1>4, <1>6, <3>1, <3>2
    <2> QED
      BY <2>1, ShownBefore
  <1>7. ASSUME NEW d \in Caller, d # c, req[d].task # t PROVE Undisturbed(d)
    <2>1. Continues(d)
      BY <1>2, <1>5, <1>7, EndRequestIdles DEF Continues, Overtakes
    <2>2. \A r \in expired[d] : IsRunning(runs'[r]) /\ runs'[r].task = req[d].task
      <3>1. \A r \in expired[d] : /\ r \in RunId /\ IsRunning(runs[r])
                                  /\ runs[r].task = req[d].task
        BY DEF QueueInv, ExpiredStillRunning, TypeOK
      <3>2. ~IsRunning(runs[n])
        BY InactiveKinds DEF Rows
      <3> QED
        BY <1>1, <1>4, <1>7, <3>1, <3>2
    <2>3. req[d].task \in Task
      BY DEF TypeOK, Request
    <2> QED
      BY <1>6, <1>7, <2>1, <2>2, <2>3 DEF Undisturbed
  <1>8. ASSUME NEW d \in Caller, d # c, req[d].task = t PROVE Idles(d)
    <2>1. /\ pc'[d] = pc[d] /\ req'[d] = req[d] /\ expired'[d] = expired[d]
      BY <1>2, <1>8, EndRequestIdles
    <2>2. pc[d] \in {"idle", "locking"}
      BY <1>2, <1>5, <1>8 DEF QueueInv, LockExclusion, TypeOK
    <2>3. expired[d] = {}
      BY <2>2 DEF QueueInv, ExpiredStillRunning
    <2>4. ~Sighted(d)'
      BY <1>2, <1>5, <1>8, <2>1, <2>2 DEF Sighted, Overtakes
    <2> QED
      BY <2>1, <2>2, <2>3, <2>4 DEF Idles
  <1>9. Idles(c)
    BY <1>2, EndRequestIdles
  <1>10. /\ LockExclusion' /\ ExpiredStillRunning' /\ SnapshotsShow'
         /\ DecisionStands' /\ NothingToRepeat'
    BY <1>1, <1>7, <1>8, <1>9, RequestsKept
  <1>11. RowsRecorded'
    BY <1>1, <1>3 DEF QueueInv, RowsRecorded, StaleStatuses, RunningStatuses, ClaimableStatuses
  <1>12. SingleActive'
    <2>1. ASSUME NEW r \in RunId, r # n, IsActive(runs'[r])
          PROVE  runs'[r] = runs[r] /\ r \notin expired[c]
      BY <1>1, <2>1
    <2>2. CASE c \in overtaken
      BY <1>1, <2>1, <2>2 DEF QueueInv, SingleActive
    <2>3. CASE c \notin overtaken
      <3>1. ASSUME NEW r \in RunId, r # n, IsActive(runs'[r]) PROVE runs'[r].task # t
        BY <1>2, <1>5, <2>1, <2>3, <3>1 DEF QueueInv, DecisionStands
      <3> QED
        BY <1>1, <1>3, <2>1, <2>3, <3>1 DEF QueueInv, SingleActive
    <2> QED
      BY <2>2, <2>3
  <1> QED
    BY <1>10, <1>11, <1>12 DEF QueueInv

-----------------------------------------------------------------------------
(* At most one active run of a task that is not blind *)

LEMMA InitQueueInv == Init => QueueInv
  <1> SUFFICES ASSUME Init PROVE QueueInv
    OBVIOUS
  <1>1. \A r \in RunId : runs[r].status = "absent"
    BY DEF Init, NoRows, NoRun
  <1>2. \A r \in RunId : ~IsActive(runs[r])
    BY <1>1, InactiveKinds
  <1>3. \A c \in Caller : pc[c] = "idle" /\ expired[c] = {}
    BY DEF Init
  <1> QED
    BY <1>1, <1>2, <1>3 DEF QueueInv, LockExclusion, ExpiredStillRunning, RowsRecorded,
                            SnapshotsShow, Sighted, DecisionStands, NothingToRepeat, Deduped,
                            SingleActive, StaleStatuses, RunningStatuses

\* The steps that the three invariants of the queue share.
LEMMA CalmStep ==
  ASSUME TypeOK, QueueInv
  PROVE  /\ \A r \in RunId : ClaimRun(r) => Calm /\ RowsRecorded'
         /\ \A r \in RunId, st \in FinalStatuses : UpdateRun(r, st) => Calm /\ RowsRecorded'
         /\ RecoverStaleRuns \/ ApplyRetention => Calm /\ RowsRecorded'
         /\ \A c \in Caller : Rollback(c) => Calm /\ RowsRecorded'
         /\ UNCHANGED <<requests, runs, recovered, blind>> => Calm /\ RowsRecorded'
  <1>1. ASSUME UNCHANGED <<requests, runs, recovered, blind>> PROVE Calm /\ RowsRecorded'
    <2>1. \A d \in Caller : \A r \in expired[d] : IsRunning(runs'[r]) /\ runs'[r].task = runs[r].task
      BY <1>1 DEF QueueInv, ExpiredStillRunning
    <2>2. RowsRecorded'
      BY <1>1 DEF QueueInv, RowsRecorded
    <2> QED
      BY <1>1, <2>1, <2>2, SameRowsShow, TableCalm
  <1> QED
    BY <1>1, ClaimCalm, UpdateCalm, RecoverCalm, RetentionCalm, RollbackCalm

\* The invariant is inductive under either reading of a plain SELECT.
THEOREM QueueInvariant == Spec => []QueueInv
  <1>1. TypeOK /\ TypeOK' /\ QueueInv /\ [Next]_vars => QueueInv'
    <2> SUFFICES ASSUME TypeOK, TypeOK', QueueInv, [Next]_vars PROVE QueueInv'
      OBVIOUS
    <2>1. ASSUME Calm /\ RowsRecorded' PROVE QueueInv'
      BY <2>1, CalmKeeps
    <2>2. ASSUME NEW c \in Caller, NEW t \in Task, NEW dry \in BOOLEAN, NEW force \in BOOLEAN,
                 ReadTask(c, t, dry, force)
          PROVE  QueueInv'
      BY <2>2, ReadKeeps
    <2>3. ASSUME NEW c \in Caller, LockTask(c) PROVE QueueInv'
      BY <2>3, LockKeeps
    <2>4. ASSUME NEW c \in Caller, Decide(c) PROVE QueueInv'
      BY <2>4, DecideKeeps
    <2>5. ASSUME NEW c \in Caller, CommitRun(c) PROVE QueueInv'
      BY <2>5, CommitKeeps
    <2>6. ASSUME NEW c \in Caller, Rollback(c) PROVE QueueInv'
      BY <2>1, <2>6, CalmStep
    <2>7. ASSUME NEW r \in RunId, ClaimRun(r) PROVE QueueInv'
      BY <2>1, <2>7, CalmStep
    <2>8. ASSUME NEW r \in RunId, NEW st \in FinalStatuses, UpdateRun(r, st) PROVE QueueInv'
      BY <2>1, <2>8, CalmStep
    <2>9. ASSUME RecoverStaleRuns \/ ApplyRetention PROVE QueueInv'
      BY <2>1, <2>9, CalmStep
    <2>10. ASSUME NEW t \in Task, NEW state \in {"enabled", "disabled"}, SetTask(t, state)
           PROVE  QueueInv'
      BY <2>1, <2>10, CalmStep DEF SetTask
    <2>11. ASSUME Tick PROVE QueueInv'
      BY <2>11, TickKeeps
    <2>12. CASE UNCHANGED vars
      BY <2>1, <2>12, CalmStep DEF vars
    <2> QED
      BY <2>2, <2>3, <2>4, <2>5, <2>6, <2>7, <2>8, <2>9, <2>10, <2>11, <2>12 DEF Next
  <1> QED
    BY <1>1, InitQueueInv, TypeInvariant, PTL DEF Spec

LEMMA AtMostOne ==
  ASSUME NEW S, \A r, q \in S : r = q PROVE Cardinality(S) <= 1
  <1>1. CASE S = {}
    BY <1>1, FS_EmptySet
  <1>2. CASE S # {}
    <2>1. PICK r : r \in S
      BY <1>2
    <2>2. S = {r}
      BY <2>1
    <2>3. Cardinality(S) = 1
      BY <2>2, FS_Singleton, Zenon
    <2> QED
      BY <2>3
  <1> QED
    BY <1>1, <1>2

\* A task never has two queued or running runs, apart from those inserted by
\* requests that queue_task_run let decide on an outdated snapshot, for any
\* number of tasks, runs and concurrent requests, whatever a plain SELECT reads.
THEOREM OneActiveRun == Spec => []OneActiveUnlessBlind
  <1>1. QueueInv => OneActiveUnlessBlind
    <2> SUFFICES ASSUME QueueInv, NEW t \in Task
                 PROVE  Cardinality(ActiveRuns(runs, t) \ blind) <= 1
      BY DEF OneActiveUnlessBlind
    <2>1. \A r, q \in ActiveRuns(runs, t) \ blind : r = q
      BY DEF QueueInv, SingleActive, ActiveRuns, RowsOf, Rows
    <2> QED
      BY <2>1, AtMostOne
  <1> QED
    BY <1>1, QueueInvariant, PTL

\* The repair: when plain SELECTs read committed rows no request is overtaken,
\* no run is blind, and the promise of docs/OPERATIONS.md holds as it stands.
THEOREM ReadCommittedSuffices ==
  ASSUME SnapshotReads = FALSE PROVE Spec => []AtMostOneActive
  <1> DEFINE Blameless == overtaken = {} /\ blind = {}
  <1>1. Init => Blameless
    BY DEF Init
  <1>2. Blameless /\ [Next]_vars => Blameless'
    BY DEF Next, vars, history, requests, ReadTask, LockTask, Decide, CommitRun, Rollback, ClaimRun,
           UpdateRun, RecoverStaleRuns, ApplyRetention, SetTask, Tick, EndsWithoutRun, Overtakes
  <1>3. Blameless /\ OneActiveUnlessBlind => AtMostOneActive
    <2> SUFFICES ASSUME blind = {}, OneActiveUnlessBlind, NEW t \in Task
                 PROVE  Cardinality(ActiveRuns(runs, t)) <= 1
      BY DEF AtMostOneActive
    <2>1. ActiveRuns(runs, t) \ blind = ActiveRuns(runs, t)
      OBVIOUS
    <2> QED
      BY <2>1 DEF OneActiveUnlessBlind
  <1> HIDE DEF Blameless
  <1> QED
    BY <1>1, <1>2, <1>3, OneActiveRun, PTL DEF Spec

-----------------------------------------------------------------------------
(* The policy limits *)

\* The runs of t that a limit of window w counts.
InWindow(tbl, t, w) == {r \in RowsOf(tbl, t) : tbl[r].age <= w}

\* A step, or a reading, that adds no run of t and makes none younger.
NoneYounger(old, new, t) ==
  \A r \in RowsOf(new, t) : r \in RowsOf(old, t) /\ new[r].age >= old[r].age

RowsFinite == IsFiniteSet(Rows(runs)) /\ \A c \in Caller : IsFiniteSet(Rows(view[c]))

WindowsHeld ==
  \A t \in Task : \A lim \in RateLimits[t] :
    Cardinality(InWindow(runs, t, lim.window) \ blind) <= lim.max

Apart(tbl, t, r, q) ==
  \/ r = q
  \/ tbl[r].age >= tbl[q].age + MinGap[t]
  \/ tbl[q].age >= tbl[r].age + MinGap[t]
  \/ Horizon \in {tbl[r].age, tbl[q].age}

GapsHeld == \A t \in Task : \A r, q \in RowsOf(runs, t) \ blind : Apart(runs, t, r, q)

\* From the decision to the commit the new run would break no limit.
Admitted ==
  \A c \in Caller \ overtaken : pc[c] = "committing" => ~RateLimited(runs, req[c].task)

LimitInv == RowsFinite /\ WindowsHeld /\ GapsHeld /\ Admitted

LEMMA ShowsNoneYounger ==
  ASSUME NEW old \in [RunId -> Run], NEW new, NEW known, NEW t, Shows(old, new, known, t)
  PROVE  NoneYounger(old, new, t)
  <1> SUFFICES ASSUME NEW r \in RowsOf(new, t)
               PROVE  r \in RowsOf(old, t) /\ new[r].age >= old[r].age
    BY DEF NoneYounger
  <1>1. r \in RowsOf(old, t) /\ new[r].age = old[r].age
    BY DEF Shows
  <1>2. old[r].age \in Nat
    BY <1>1, HorizonType DEF Run, Rows, RowsOf
  <1> QED
    BY <1>1, <1>2

LEMMA FewerInWindow ==
  ASSUME NEW old \in [RunId -> Run], NEW new \in [RunId -> Run], NEW t \in Task, NEW w \in Nat,
         NoneYounger(old, new, t), IsFiniteSet(Rows(old)), NEW B, NEW B2,
         \A r \in Rows(new) : r \in B => r \in B2
  PROVE  /\ Cardinality(InWindow(old, t, w) \ B) \in Nat
         /\ Cardinality(InWindow(new, t, w) \ B2) \in Nat
         /\ Cardinality(InWindow(new, t, w) \ B2) <= Cardinality(InWindow(old, t, w) \ B)
  <1>1. InWindow(old, t, w) \ B \subseteq Rows(old)
    BY DEF InWindow, RowsOf
  <1>2. InWindow(new, t, w) \ B2 \subseteq InWindow(old, t, w) \ B
    <2> SUFFICES ASSUME NEW r \in InWindow(new, t, w), r \notin B2
                 PROVE  r \in InWindow(old, t, w) /\ r \notin B
      OBVIOUS
    <2>1. r \in RowsOf(new, t) /\ new[r].age <= w /\ r \in RunId /\ r \in Rows(new)
      BY DEF InWindow, RowsOf, Rows
    <2>2. r \in RowsOf(old, t) /\ new[r].age >= old[r].age
      BY <2>1 DEF NoneYounger
    <2>3. old[r].age \in Nat /\ new[r].age \in Nat
      BY <2>1, HorizonType DEF Run
    <2> QED
      BY <2>1, <2>2, <2>3 DEF InWindow
  <1>3. IsFiniteSet(InWindow(old, t, w) \ B)
    BY <1>1, FS_Subset
  <1> QED
    BY <1>2, <1>3, FS_Subset, FS_CardinalityType

\* What would be admitted on the older rows is admitted on the newer ones.
LEMMA NoneYoungerAdmits ==
  ASSUME NEW old \in [RunId -> Run], NEW new \in [RunId -> Run], NEW t \in Task,
         NoneYounger(old, new, t), IsFiniteSet(Rows(old)), ~RateLimited(old, t)
  PROVE  ~RateLimited(new, t)
  <1>1. ASSUME NEW r \in RowsOf(new, t) PROVE ~(new[r].age < MinGap[t])
    <2>1. r \in RunId
      BY DEF RowsOf, Rows
    <2>2. r \in RowsOf(old, t) /\ new[r].age >= old[r].age
      BY DEF NoneYounger
    <2>3. ~(old[r].age < MinGap[t])
      BY <2>2 DEF RateLimited
    <2>4. old[r].age \in Nat /\ new[r].age \in Nat /\ MinGap[t] \in Nat
      BY <2>1, HorizonType, RunTableAssumption DEF Run
    <2> QED
      BY <2>2, <2>3, <2>4
  <1>2. ASSUME NEW lim \in RateLimits[t]
        PROVE  ~(Cardinality(InWindow(new, t, lim.window)) >= lim.max)
    <2>1. lim.window \in Nat /\ lim.max \in Nat
      BY RunTableAssumption
    <2>2. ~(Cardinality(InWindow(old, t, lim.window)) >= lim.max)
      BY DEF RateLimited, InWindow
    <2> DEFINE before == InWindow(old, t, lim.window)
               after == InWindow(new, t, lim.window)
    <2>3. /\ Cardinality(before \ {}) \in Nat /\ Cardinality(after \ {}) \in Nat
          /\ Cardinality(after \ {}) <= Cardinality(before \ {})
      <3>1. \A r \in Rows(new) : r \in {} => r \in {}
        OBVIOUS
      <3> QED
        BY <2>1, <3>1, FewerInWindow
    <2>4. before \ {} = before /\ after \ {} = after
      OBVIOUS
    <2> QED
      BY <2>1, <2>2, <2>3, <2>4
  <1> QED
    BY <1>1, <1>2 DEF RateLimited, InWindow

\* So do the limits of a task whose runs only grow older.
LEMMA NoneYoungerHolds ==
  ASSUME TypeOK, TypeOK', RowsFinite, WindowsHeld, NEW t \in Task, NoneYounger(runs, runs', t),
         NEW lim \in RateLimits[t], \A r \in Rows(runs') : r \in blind => r \in blind'
  PROVE  Cardinality(InWindow(runs', t, lim.window) \ blind') <= lim.max
  <1>1. runs \in [RunId -> Run] /\ runs' \in [RunId -> Run] /\ IsFiniteSet(Rows(runs))
    BY DEF TypeOK, RowsFinite
  <1>2. lim.window \in Nat /\ lim.max \in Nat
    BY RunTableAssumption
  <1>3. Cardinality(InWindow(runs, t, lim.window) \ blind) <= lim.max
    BY DEF WindowsHeld
  <1>4. /\ Cardinality(InWindow(runs, t, lim.window) \ blind) \in Nat
        /\ Cardinality(InWindow(runs', t, lim.window) \ blind') \in Nat
        /\ Cardinality(InWindow(runs', t, lim.window) \ blind')
             <= Cardinality(InWindow(runs, t, lim.window) \ blind)
    BY <1>1, <1>2, FewerInWindow
  <1> QED
    BY <1>2, <1>3, <1>4

NoRowsLeft == \A d \in Caller : view'[d] = view[d] \/ view'[d] = NoRows

LEMMA ViewsFinite ==
  ASSUME RowsFinite, NoRowsLeft PROVE \A d \in Caller : IsFiniteSet(Rows(view'[d]))
  <1>1. Rows(NoRows) = {}
    BY DEF Rows, NoRows, NoRun
  <1> QED
    BY <1>1, FS_EmptySet DEF RowsFinite, NoRowsLeft

LEMMA CalmLimits ==
  ASSUME TypeOK, TypeOK', LimitInv, Calm, NoRowsLeft
  PROVE  LimitInv'
  <1>1. ASSUME NEW t \in Task PROVE NoneYounger(runs, runs', t)
    BY ShowsNoneYounger DEF Calm, TypeOK
  <1>2. WindowsHeld'
    BY <1>1, NoneYoungerHolds DEF LimitInv, WindowsHeld, Calm
  <1>3. GapsHeld'
    <2> SUFFICES ASSUME NEW t \in Task, NEW r \in RowsOf(runs', t) \ blind',
                        NEW q \in RowsOf(runs', t) \ blind'
                 PROVE  Apart(runs', t, r, q)
      BY DEF GapsHeld
    <2>1. r \in Rows(runs') /\ q \in Rows(runs')
      BY DEF RowsOf
    <2>2. /\ r \in RowsOf(runs, t) \ blind /\ runs'[r].age = runs[r].age
          /\ q \in RowsOf(runs, t) \ blind /\ runs'[q].age = runs[q].age
      BY <2>1 DEF Calm, Shows
    <2> QED
      BY <2>2 DEF LimitInv, GapsHeld, Apart
  <1>4. RowsFinite'
    <2>1. Rows(runs') \subseteq Rows(runs)
      <3> SUFFICES ASSUME NEW r \in Rows(runs') PROVE r \in Rows(runs)
        OBVIOUS
      <3>1. runs'[r].task \in Task
        BY DEF TypeOK, Run, Rows
      <3>2. r \in RowsOf(runs', runs'[r].task)
        BY DEF RowsOf
      <3> QED
        BY <3>1, <3>2 DEF Calm, Shows, RowsOf
    <2>2. \A d \in Caller : IsFiniteSet(Rows(view'[d]))
      BY ViewsFinite DEF LimitInv
    <2> QED
      BY <2>1, <2>2, FS_Subset DEF RowsFinite, LimitInv
  <1>5. Admitted'
    <2> SUFFICES ASSUME NEW c \in Caller, c \notin overtaken', pc'[c] = "committing"
                 PROVE  ~RateLimited(runs', req'[c].task)
      BY DEF Admitted
    <2>1. Continues(c)
      BY DEF Calm, Undisturbed, Idles
    <2>2. req'[c] = req[c] /\ req[c].task \in Task /\ ~RateLimited(runs, req[c].task)
      BY <2>1 DEF TypeOK, Request, LimitInv, Admitted, Continues
    <2> QED
      BY <1>1, <2>2, NoneYoungerAdmits DEF TypeOK, LimitInv, RowsFinite
  <1> QED
    BY <1>2, <1>3, <1>4, <1>5 DEF LimitInv

LEMMA InitLimitInv == Init => LimitInv
  <1> SUFFICES ASSUME Init PROVE LimitInv
    OBVIOUS
  <1>1. Rows(runs) = {} /\ \A c \in Caller : Rows(view[c]) = {}
    BY DEF Init, NoRows, NoRun, Rows
  <1>2. RowsFinite /\ \A t \in Task : RowsOf(runs, t) = {}
    BY <1>1, FS_EmptySet DEF RowsFinite, RowsOf
  <1>3. WindowsHeld
    <2> SUFFICES ASSUME NEW t \in Task, NEW lim \in RateLimits[t]
                 PROVE  Cardinality(InWindow(runs, t, lim.window) \ blind) <= lim.max
      BY DEF WindowsHeld
    <2>1. InWindow(runs, t, lim.window) \ blind = {}
      BY <1>2 DEF InWindow
    <2>2. lim.max \in Nat
      BY RunTableAssumption
    <2> QED
      BY <2>1, <2>2, FS_EmptySet
  <1> QED
    BY <1>2, <1>3 DEF LimitInv, GapsHeld, Admitted, Init

\* A request that is admitted, and not overtaken, is admitted by the rows.
LEMMA DecideLimits ==
  ASSUME TypeOK, TypeOK', QueueInv, LimitInv, NEW c \in Caller, Decide(c)
  PROVE  LimitInv'
  <1> DEFINE t == req[c].task
             stale == ExpiredRuns(runs, t)
  <1>1. /\ stale \in SUBSET Rows(runs) /\ t \in Task /\ pc[c] = "deciding"
        /\ \A r \in stale : r \in RunId /\ IsRunning(runs[r]) /\ IsActive(runs[r]) /\ runs[r].task = t
    BY DEF ExpiredRuns, RowsOf, Rows, IsExpired, TypeOK, Request, Decide, IsRunning, IsActive,
           ActiveStatuses
  <1>2. CASE Denied(Visible(c, stale), req[c])
    <2>1. /\ runs' = MarkStale(runs, stale) /\ recovered' = recovered \cup stale
          /\ EndRequest(c) /\ EndsWithoutRun(c)
      BY <1>2 DEF Decide
    <2>2. \A d \in Caller : expired[d] \cap stale = {}
      <3> SUFFICES ASSUME NEW d \in Caller, NEW r \in expired[d], r \in stale PROVE FALSE
        OBVIOUS
      <3>1. pc[d] = "committing" /\ req[d].task = t
        BY <1>1 DEF QueueInv, ExpiredStillRunning
      <3> QED
        BY <1>1, <3>1 DEF QueueInv, LockExclusion
    <2> HIDE DEF stale
    <2>3. NoRowsLeft
      BY <2>1, EndRequestIdles DEF NoRowsLeft
    <2> QED
      BY <1>1, <2>1, <2>2, <2>3, EndsCalm, CalmLimits
  <1>3. CASE ~Denied(Visible(c, stale), req[c])
    <2>1. /\ pc' = [pc EXCEPT ![c] = "committing"]
          /\ view' = [view EXCEPT ![c] = NoRows]
          /\ UNCHANGED <<runs, req, overtaken, blind>>
      BY <1>3 DEF Decide, history
    <2>2. ~RateLimited(Visible(c, stale), t)
      BY <1>3 DEF Denied
    <2> HIDE DEF stale, t
    <2>3. t = req[c].task
      BY DEF t
    <2>4. ASSUME c \notin overtaken PROVE ~RateLimited(runs, t)
      <3>1. Visible(c, stale) \in [RunId -> Run]
        <4>1. [q \in RunId |-> IF q \in stale THEN runs[q] ELSE view[c][q]] \in [RunId -> Run]
          BY DEF TypeOK
        <4> QED
          BY <4>1, MarkStaleType DEF Visible, TypeOK
      <3>2. NoneYounger(Visible(c, stale), runs, t)
        <4> SUFFICES ASSUME NEW r \in RowsOf(runs, t)
                     PROVE  /\ r \in RowsOf(Visible(c, stale), t)
                            /\ runs[r].age >= Visible(c, stale)[r].age
          BY DEF NoneYounger
        <4>1. r \in RowsOf(Visible(c, stale), t) /\ Visible(c, stale)[r].age = runs[r].age
          BY <1>1, <2>3, <2>4, VisibleShows
        <4>2. runs[r].age \in Nat
          BY HorizonType DEF TypeOK, Run, Rows, RowsOf
        <4> QED
          BY <4>1, <4>2
      <3>3. IsFiniteSet(Rows(Visible(c, stale)))
        <4>1. Rows(Visible(c, stale)) \subseteq Rows(runs) \cup Rows(view[c])
          BY <1>1 DEF Visible, MarkStale, Rows
        <4> QED
          BY <4>1, FS_Union, FS_Subset DEF LimitInv, RowsFinite
      <3> QED
        BY <1>1, <2>2, <3>1, <3>2, <3>3, NoneYoungerAdmits DEF TypeOK
    <2>5. Admitted'
      BY <2>1, <2>3, <2>4 DEF LimitInv, Admitted, TypeOK
    <2>6. NoRowsLeft
      BY <2>1 DEF NoRowsLeft, TypeOK
    <2>7. RowsFinite'
      BY <2>1, <2>6, ViewsFinite DEF LimitInv, RowsFinite
    <2> QED
      BY <2>1, <2>5, <2>7 DEF LimitInv, WindowsHeld, GapsHeld
  <1> QED
    BY <1>2, <1>3

\* The new row is the youngest of its task; it was admitted, or it is blind.
LEMMA CommitLimits ==
  ASSUME TypeOK, TypeOK', QueueInv, LimitInv, NEW c \in Caller, CommitRun(c)
  PROVE  LimitInv'
  <1> DEFINE t == req[c].task
  <1>1. PICK n \in RunId \ Rows(runs) :
          /\ runs'[n] = QueuedRun(t, req[c].dry)
          /\ n \notin blind /\ blind' = IF c \in overtaken THEN blind \cup {n} ELSE blind
          /\ \A r \in RunId \ {n} :
               /\ runs'[r].task = runs[r].task /\ runs'[r].age = runs[r].age
               /\ runs'[r].status # "absent" <=> runs[r].status # "absent"
    BY CommitRows
  <1>2. pc[c] = "committing" /\ EndRequest(c) /\ t \in Task
        /\ overtaken' = (overtaken \ {c}) \cup Overtakes(c)
    BY DEF CommitRun, TypeOK, Request
  <1> HIDE DEF t
  <1>3. t = req[c].task
    BY DEF t
  <1>4. runs'[n].task = t /\ runs'[n].age = 0 /\ runs'[n].status # "absent"
    BY <1>1 DEF QueuedRun
  <1>5. ASSUME NEW r \in Rows(runs'), r # n
        PROVE  /\ r \in Rows(runs) /\ runs'[r].task = runs[r].task
               /\ runs'[r].age = runs[r].age /\ runs[r].age \in Nat
    <2>1. r \in RunId
      BY DEF Rows
    <2>2. runs[r].age \in Nat
      BY <2>1, HorizonType DEF TypeOK, Run
    <2> QED
      BY <1>1, <1>5, <2>1, <2>2 DEF Rows
  <1>6. ASSUME c \notin overtaken
        PROVE  /\ \A lim \in RateLimits[t] :
                    ~(Cardinality(InWindow(runs, t, lim.window)) >= lim.max)
               /\ \A r \in RowsOf(runs, t) : ~(runs[r].age < MinGap[t])
    BY <1>2, <1>3, <1>6 DEF LimitInv, Admitted, RateLimited, InWindow
  <1>7. ASSUME NEW u \in Task, u # t PROVE NoneYounger(runs, runs', u)
    <2> SUFFICES ASSUME NEW r \in RowsOf(runs', u)
                 PROVE  r \in RowsOf(runs, u) /\ runs'[r].age >= runs[r].age
      BY DEF NoneYounger
    <2>1. r # n /\ r \in Rows(runs') /\ runs'[r].task = u
      BY <1>4, <1>7 DEF RowsOf
    <2> QED
      BY <1>5, <2>1 DEF RowsOf
  <1>8. RowsFinite'
    <2>1. Rows(runs') \subseteq Rows(runs) \cup {n}
      BY <1>5
    <2>2. NoRowsLeft
      BY <1>2, EndRequestIdles DEF NoRowsLeft
    <2> QED
      BY <2>1, <2>2, ViewsFinite, FS_AddElement, FS_Subset DEF LimitInv, RowsFinite
  <1>9. ASSUME NEW lim \in RateLimits[t]
        PROVE  Cardinality(InWindow(runs', t, lim.window) \ blind') <= lim.max
    <2> DEFINE counted == InWindow(runs, t, lim.window)
    <2>1. /\ InWindow(runs', t, lim.window) \ blind' \subseteq (counted \ blind) \cup {n}
          /\ c \in overtaken => InWindow(runs', t, lim.window) \ blind' \subseteq counted \ blind
      BY <1>1, <1>5 DEF InWindow, RowsOf
    <2>2. IsFiniteSet(counted) /\ IsFiniteSet(counted \ blind)
      BY FS_Subset DEF InWindow, RowsOf, LimitInv, RowsFinite
    <2>3. n \notin counted
      BY DEF InWindow, RowsOf
    <2>4. lim.max \in Nat /\ Cardinality(counted \ blind) <= lim.max
      BY <1>2, RunTableAssumption DEF LimitInv, WindowsHeld
    <2>5. c \notin overtaken => ~(Cardinality(counted) >= lim.max)
      BY <1>6
    <2> HIDE DEF counted
    <2>6. /\ Cardinality(counted) \in Nat /\ Cardinality(counted \ blind) \in Nat
          /\ Cardinality(counted \ blind) <= Cardinality(counted)
      BY <2>2, FS_Subset, FS_CardinalityType
    <2>7. CASE c \in overtaken
      BY <2>1, <2>2, <2>4, <2>6, <2>7, FS_Subset, FS_CardinalityType
    <2>8. CASE c \notin overtaken
      <3>1. /\ IsFiniteSet((counted \ blind) \cup {n})
            /\ Cardinality((counted \ blind) \cup {n}) = Cardinality(counted \ blind) + 1
        BY <2>2, <2>3, FS_AddElement
      <3>2. /\ Cardinality(InWindow(runs', t, lim.window) \ blind') \in Nat
            /\ Cardinality(InWindow(runs', t, lim.window) \ blind')
                 <= Cardinality((counted \ blind) \cup {n})
        BY <2>1, <3>1, FS_Subset, FS_CardinalityType
      <3> QED
        BY <2>4, <2>5, <2>6, <2>8, <3>1, <3>2
    <2> QED
      BY <2>7, <2>8
  <1>10. WindowsHeld'
    <2> SUFFICES ASSUME NEW u \in Task, NEW lim \in RateLimits[u]
                 PROVE  Cardinality(InWindow(runs', u, lim.window) \ blind') <= lim.max
      BY DEF WindowsHeld
    <2>1. CASE u = t
      BY <1>9, <2>1
    <2>2. CASE u # t
      BY <1>1, <1>7, <2>2, NoneYoungerHolds DEF LimitInv
    <2> QED
      BY <2>1, <2>2
  <1>11. GapsHeld'
    <2> SUFFICES ASSUME NEW u \in Task, NEW r \in RowsOf(runs', u) \ blind',
                        NEW q \in RowsOf(runs', u) \ blind'
                 PROVE  Apart(runs', u, r, q)
      BY DEF GapsHeld
    <2>1. \A p \in {r, q} : p # n => /\ p \in RowsOf(runs, u) \ blind
                                     /\ runs'[p].age = runs[p].age
                                     /\ runs[p].age \in Nat
      BY <1>1, <1>5 DEF RowsOf
    <2>2. \A p \in {r, q} : p = n => u = t /\ runs'[p].age = 0 /\ c \notin overtaken
      BY <1>1, <1>4 DEF RowsOf
    <2>3. MinGap[u] \in Nat
      BY RunTableAssumption
    <2>4. CASE r # n /\ q # n
      BY <2>1, <2>4 DEF LimitInv, GapsHeld, Apart
    <2>5. CASE r = n /\ q # n
      BY <1>6, <2>1, <2>2, <2>3, <2>5 DEF Apart
    <2>6. CASE r # n /\ q = n
      BY <1>6, <2>1, <2>2, <2>3, <2>6 DEF Apart
    <2>7. CASE r = n /\ q = n
      BY <2>7 DEF Apart
    <2> QED
      BY <2>4, <2>5, <2>6, <2>7
  <1>12. Admitted'
    <2> SUFFICES ASSUME NEW d \in Caller, d \notin overtaken', pc'[d] = "committing"
                 PROVE  ~RateLimited(runs', req'[d].task)
      BY DEF Admitted
    <2>1. /\ d # c /\ pc[d] = "committing" /\ req'[d] = req[d] /\ req[d].task \in Task
          /\ d \notin overtaken
      BY <1>2, EndRequestIdles DEF TypeOK, Request, Idles
    <2>2. req[d].task # t
      BY <1>2, <1>3, <2>1 DEF QueueInv, LockExclusion
    <2>3. ~RateLimited(runs, req[d].task)
      BY <2>1 DEF LimitInv, Admitted
    <2> QED
      BY <1>7, <2>1, <2>2, <2>3, NoneYoungerAdmits DEF TypeOK, LimitInv, RowsFinite
  <1> QED
    BY <1>8, <1>10, <1>11, <1>12 DEF LimitInv

LEMMA TickLimits ==
  ASSUME TypeOK, TypeOK', LimitInv, Tick
  PROVE  LimitInv'
  <1>1. /\ runs \in [RunId -> Run] /\ runs' = Aged(runs)
        /\ UNCHANGED <<pc, req, overtaken, blind>>
        /\ \A c \in Caller : view'[c] = Seen(Aged(view[c])) /\ view[c] \in [RunId -> Run]
    BY DEF TypeOK, Tick, history
  <1>2. ASSUME NEW r \in Rows(runs')
        PROVE  /\ r \in Rows(runs) /\ runs'[r].task = runs[r].task
               /\ runs'[r].age = Older(runs[r].age)
               /\ runs[r].age \in 0..Horizon /\ Horizon \in Nat
    <2>1. r \in RunId /\ runs[r].status # "absent" /\ runs[r] \in Run
      BY <1>1, AgedActivity DEF Rows
    <2> QED
      BY <1>1, <2>1, AgedRow, HorizonType DEF Rows, Run
  <1>3. ASSUME NEW t \in Task PROVE NoneYounger(runs, runs', t)
    BY <1>2 DEF NoneYounger, RowsOf, Older
  <1>4. RowsFinite'
    <2>1. Rows(runs') \subseteq Rows(runs)
      BY <1>2
    <2>2. ASSUME NEW d \in Caller PROVE IsFiniteSet(Rows(view'[d]))
      <3>1. Rows(view'[d]) = Rows(Aged(view[d]))
        BY <1>1, AgedType, SeenFacts
      <3>2. Rows(Aged(view[d])) \subseteq Rows(view[d])
        BY <1>1, AgedActivity DEF Rows
      <3> QED
        BY <3>1, <3>2, FS_Subset DEF LimitInv, RowsFinite
    <2> QED
      BY <2>1, <2>2, FS_Subset DEF LimitInv, RowsFinite
  <1>5. WindowsHeld'
    BY <1>1, <1>3, NoneYoungerHolds DEF LimitInv, WindowsHeld
  <1>6. GapsHeld'
    <2> SUFFICES ASSUME NEW t \in Task, NEW r \in RowsOf(runs', t) \ blind,
                        NEW q \in RowsOf(runs', t) \ blind
                 PROVE  Apart(runs', t, r, q)
      BY <1>1 DEF GapsHeld
    <2>1. \A p \in {r, q} : /\ p \in RowsOf(runs, t) \ blind /\ runs'[p].age = Older(runs[p].age)
                            /\ runs[p].age \in 0..Horizon /\ Horizon \in Nat
      BY <1>2 DEF RowsOf
    <2>2. Apart(runs, t, r, q) /\ MinGap[t] \in Nat
      BY <2>1, RunTableAssumption DEF LimitInv, GapsHeld
    <2> QED
      BY <2>1, <2>2 DEF Apart, Older
  <1>7. Admitted'
    <2> SUFFICES ASSUME NEW c \in Caller, c \notin overtaken, pc[c] = "committing"
                 PROVE  ~RateLimited(runs', req[c].task)
      BY <1>1 DEF Admitted
    <2>1. req[c].task \in Task /\ ~RateLimited(runs, req[c].task)
      BY DEF TypeOK, Request, LimitInv, Admitted
    <2> QED
      BY <1>3, <2>1, NoneYoungerAdmits DEF TypeOK, LimitInv, RowsFinite
  <1> QED
    BY <1>4, <1>5, <1>6, <1>7 DEF LimitInv

\* The two steps that open a request.
LEMMA OpenLimits ==
  ASSUME TypeOK, LimitInv, NEW c \in Caller,
         LockTask(c) \/ \E t \in Task, dry, force \in BOOLEAN : ReadTask(c, t, dry, force)
  PROVE  LimitInv'
  <1>1. /\ UNCHANGED <<runs, overtaken, blind>> /\ pc'[c] \in {"locking", "deciding"}
        /\ \A d \in Caller \ {c} : pc'[d] = pc[d] /\ req'[d] = req[d]
        /\ \A d \in Caller : view'[d] = view[d] \/ view'[d] = Seen(runs)
    BY DEF LockTask, ReadTask, TypeOK, history
  <1>2. RowsFinite'
    <2>1. Rows(Seen(runs)) = Rows(runs)
      BY SeenFacts DEF TypeOK
    <2> QED
      BY <1>1, <2>1 DEF LimitInv, RowsFinite
  <1>3. WindowsHeld' /\ GapsHeld' /\ Admitted'
    BY <1>1 DEF LimitInv, WindowsHeld, GapsHeld, Admitted
  <1> QED
    BY <1>2, <1>3 DEF LimitInv

LEMMA LimitStep == TypeOK /\ TypeOK' /\ QueueInv /\ LimitInv /\ [Next]_vars => LimitInv'
  <1> SUFFICES ASSUME TypeOK, TypeOK', QueueInv, LimitInv, [Next]_vars PROVE LimitInv'
    OBVIOUS
  <1>1. ASSUME Calm, NoRowsLeft PROVE LimitInv'
    BY <1>1, CalmLimits
  <1>2. UNCHANGED requests => NoRowsLeft
    BY DEF requests, NoRowsLeft
  <1>3. ASSUME NEW c \in Caller, NEW t \in Task, NEW dry \in BOOLEAN, NEW force \in BOOLEAN,
               ReadTask(c, t, dry, force)
        PROVE  LimitInv'
    BY <1>3, OpenLimits
  <1>4. ASSUME NEW c \in Caller, LockTask(c) PROVE LimitInv'
    BY <1>4, OpenLimits
  <1>5. ASSUME NEW c \in Caller, Decide(c) PROVE LimitInv'
    BY <1>5, DecideLimits
  <1>6. ASSUME NEW c \in Caller, CommitRun(c) PROVE LimitInv'
    BY <1>6, CommitLimits
  <1>7. ASSUME NEW c \in Caller, Rollback(c) PROVE LimitInv'
    <2>1. NoRowsLeft
      BY <1>7, EndRequestIdles DEF Rollback, NoRowsLeft
    <2> QED
      BY <1>1, <1>7, <2>1, CalmStep
  <1>8. ASSUME NEW r \in RunId, ClaimRun(r) PROVE LimitInv'
    BY <1>1, <1>2, <1>8, CalmStep DEF ClaimRun
  <1>9. ASSUME NEW r \in RunId, NEW st \in FinalStatuses, UpdateRun(r, st) PROVE LimitInv'
    BY <1>1, <1>2, <1>9, CalmStep DEF UpdateRun
  <1>10. ASSUME RecoverStaleRuns \/ ApplyRetention PROVE LimitInv'
    BY <1>1, <1>2, <1>10, CalmStep DEF RecoverStaleRuns, ApplyRetention
  <1>11. ASSUME NEW t \in Task, NEW state \in {"enabled", "disabled"}, SetTask(t, state)
         PROVE  LimitInv'
    BY <1>1, <1>2, <1>11, CalmStep DEF SetTask
  <1>12. ASSUME Tick PROVE LimitInv'
    BY <1>12, TickLimits
  <1>13. CASE UNCHANGED vars
    BY <1>1, <1>2, <1>13, CalmStep DEF vars
  <1> QED
    BY <1>3, <1>4, <1>5, <1>6, <1>7, <1>8, <1>9, <1>10, <1>11, <1>12, <1>13 DEF Next

\* The policy limits and gaps hold of the rows of every task that are not blind
\* however requests race (_rate_limit_denial under the task's lock), whatever a
\* plain SELECT reads: what was checked before the commit is still true at it.
THEOREM LimitsAlwaysHeld == Spec => []RunLimitsHeld
  <1>1. LimitInv => RunLimitsHeld
    <2> SUFFICES ASSUME LimitInv, NEW t \in Task
                 PROVE  /\ \A lim \in RateLimits[t] :
                             Cardinality({r \in RowsOf(runs, t) \ blind :
                                            runs[r].age <= lim.window}) <= lim.max
                        /\ \A r, q \in RowsOf(runs, t) \ blind : Apart(runs, t, r, q)
      BY DEF RunLimitsHeld, Apart
    <2>1. \A w : {r \in RowsOf(runs, t) \ blind : runs[r].age <= w} = InWindow(runs, t, w) \ blind
      BY DEF InWindow
    <2> QED
      BY <2>1 DEF LimitInv, WindowsHeld, GapsHeld
  <1>2. LimitInv /\ TypeOK /\ TypeOK' /\ QueueInv /\ [Next]_vars => LimitInv'
    BY LimitStep
  <1> QED
    BY <1>1, <1>2, InitLimitInv, TypeInvariant, QueueInvariant, PTL DEF Spec

-----------------------------------------------------------------------------
(* The dedupe window *)

\* A request that was not overtaken inserts a live run that nobody forced only
\* when no live run of its task completed inside the dedupe window
\* (_latest_recent_completed_live_run), not even after its snapshot was taken,
\* unless the lease of that run had been taken away.
THEOREM NothingIsRepeated == Spec => NoRepeatWithinWindow
  <1> DEFINE Unrepeated == \A c \in Caller \ overtaken :
               (pc[c] = "committing" /\ runs' # runs /\ pc'[c] = "idle"
                /\ ~req[c].dry /\ ~req[c].force /\ DedupeWindow > 0)
               => \A r \in RowsOf(runs, req[c].task) : IsRecent(runs[r]) => r \in recovered
  <1>1. QueueInv => Unrepeated
    BY DEF QueueInv, NothingToRepeat, Deduped, Repeats
  <1>2. QueueInv => [Unrepeated]_vars
    BY <1>1
  <1> HIDE DEF Unrepeated
  <1>3. Spec => [][Unrepeated]_vars
    BY <1>2, QueueInvariant, PTL
  <1> QED
    BY <1>3 DEF NoRepeatWithinWindow, Unrepeated

-----------------------------------------------------------------------------
(* The refinement of RunSlots *)

\* The slots of a table, apart from the runs of B.
WaitingIn(tbl, B, t) == {r \in RunId \ B : tbl[r].task = t /\ IsClaimable(tbl[r])}
ExecutingIn(tbl, B, t) == {r \in RunId \ B : tbl[r].task = t /\ IsRunning(tbl[r])}

LEMMA SlotMembers ==
  /\ Waiting = [t \in Task |-> WaitingIn(runs, blind, t)]
  /\ Executing = [t \in Task |-> ExecutingIn(runs, blind, t)]
  /\ Waiting' = [t \in Task |-> WaitingIn(runs', blind', t)]
  /\ Executing' = [t \in Task |-> ExecutingIn(runs', blind', t)]
  BY DEF Waiting, Executing, WaitingIn, ExecutingIn

\* No run starts to wait or execute, and those of S stop executing.
Leaves(S) ==
  \A r \in RunId :
    /\ r \notin blind' /\ IsClaimable(runs'[r]) <=> r \notin blind /\ IsClaimable(runs[r])
    /\ r \notin blind' /\ IsRunning(runs'[r])
         <=> r \notin blind /\ IsRunning(runs[r]) /\ r \notin S
    /\ r \notin blind' /\ (IsClaimable(runs'[r]) \/ IsRunning(runs'[r]))
         => runs'[r].task = runs[r].task

LEMMA LeavesFinish ==
  ASSUME NEW S \in SUBSET RunId, Leaves(S)
  PROVE  Slots!Next
  <1>1. ASSUME NEW t
        PROVE  /\ WaitingIn(runs', blind', t) = WaitingIn(runs, blind, t)
               /\ ExecutingIn(runs', blind', t) = ExecutingIn(runs, blind, t) \ S
    BY DEF Leaves, WaitingIn, ExecutingIn
  <1>2. Waiting' = Waiting
    BY <1>1, SlotMembers
  <1>3. Executing' = [t \in Task |-> Executing[t] \ S]
    BY <1>1, SlotMembers
  <1>4. Slots!Finish(S)
    BY <1>2, <1>3 DEF Slots!Finish
  <1> QED
    BY <1>4 DEF Slots!Next

LEMMA RowsUnchangedFinish ==
  ASSUME runs' = runs, blind' = blind PROVE Slots!Next
  <1>1. Leaves({})
    BY DEF Leaves
  <1> QED
    BY <1>1, LeavesFinish

LEMMA MarkedFinish ==
  ASSUME TypeOK, NEW S \in SUBSET RunId, \A r \in S : IsRunning(runs[r]),
         runs' = MarkStale(runs, S), blind' = blind
  PROVE  Slots!Next
  <1>1. \A r \in RunId : /\ r \in S => ~IsActive(runs'[r])
                         /\ r \notin S => runs'[r] = runs[r]
    BY MarkStaleRetires DEF TypeOK
  <1>2. Leaves(S)
    BY <1>1 DEF Leaves, IsActive, IsClaimable, IsRunning, ActiveStatuses, ClaimableStatuses,
                RunningStatuses
  <1> QED
    BY <1>2, LeavesFinish

LEMMA ActiveKinds ==
  ASSUME NEW row
  PROVE  /\ IsActive(row) <=> IsClaimable(row) \/ IsRunning(row)
         /\ ~(IsClaimable(row) /\ IsRunning(row))
  BY DEF IsActive, IsClaimable, IsRunning, ActiveStatuses, ClaimableStatuses, RunningStatuses

\* The inserted run takes the slot of its task, which nobody waits for; a
\* blind one takes none.
LEMMA CommitEnqueues ==
  ASSUME TypeOK, QueueInv, NEW c \in Caller, CommitRun(c)
  PROVE  Slots!Next
  <1> DEFINE t == req[c].task
  <1>1. PICK n \in RunId \ Rows(runs) :
          /\ runs'[n] = QueuedRun(t, req[c].dry)
          /\ n \notin blind /\ blind' = IF c \in overtaken THEN blind \cup {n} ELSE blind
          /\ expired[c] \in SUBSET Rows(runs)
          /\ \A r \in RunId \ {n} :
               /\ runs'[r].task = runs[r].task
               /\ r \in expired[c] => ~IsActive(runs'[r])
               /\ r \notin expired[c] => runs'[r] = runs[r]
    BY CommitRows
  <1>2. /\ t \in Task /\ req[c].dry \in BOOLEAN
        /\ \A r \in expired[c] : r \in RunId \ {n} /\ IsRunning(runs[r]) /\ runs[r].task = t
        /\ c \notin overtaken =>
             \A r \in RunId : IsActive(runs[r]) /\ runs[r].task = t => r \in expired[c]
    BY <1>1 DEF TypeOK, Request, CommitRun, QueueInv, ExpiredStillRunning, DecisionStands, Rows
  <1> HIDE DEF t
  <1>3. ~IsActive(runs[n])
    BY InactiveKinds DEF Rows
  <1>4. CASE c \in overtaken
    <2>1. ASSUME NEW r \in RunId, r # n
          PROVE  /\ IsClaimable(runs'[r]) <=> IsClaimable(runs[r])
                 /\ IsRunning(runs'[r]) <=> IsRunning(runs[r]) /\ r \notin expired[c]
      BY <1>1, <1>2, <2>1, ActiveKinds
    <2>2. n \in blind' /\ ~IsClaimable(runs[n]) /\ ~IsRunning(runs[n])
      BY <1>1, <1>3, <1>4, ActiveKinds
    <2>3. blind' = blind \cup {n}
      BY <1>1, <1>4
    <2>4. ASSUME NEW r \in RunId
          PROVE  /\ r \notin blind' /\ IsClaimable(runs'[r])
                      <=> r \notin blind /\ IsClaimable(runs[r])
                 /\ r \notin blind' /\ IsRunning(runs'[r])
                      <=> r \notin blind /\ IsRunning(runs[r]) /\ r \notin expired[c]
                 /\ r \notin blind' => runs'[r].task = runs[r].task
      BY <1>1, <2>1, <2>2, <2>3
    <2>5. Leaves(expired[c]) /\ expired[c] \in SUBSET RunId
      BY <1>1, <2>4 DEF Leaves, Rows
    <2> QED
      BY <2>5, LeavesFinish
  <1>5. CASE c \notin overtaken
    <2>1. runs'[n].task = t /\ IsClaimable(runs'[n]) /\ ~IsRunning(runs'[n])
      BY <1>1, <1>2 DEF QueuedRun, IsClaimable, IsRunning, ClaimableStatuses, RunningStatuses
    <2>2. WaitingIn(runs, blind, t) = {}
      BY <1>2, <1>5, ActiveKinds DEF WaitingIn
    <2>3. \A u \in Task : n \notin WaitingIn(runs, blind, u) \cup ExecutingIn(runs, blind, u)
      BY <1>3, ActiveKinds DEF WaitingIn, ExecutingIn
    <2>4. blind' = blind /\ n \notin blind
      BY <1>1, <1>5
    <2>5. WaitingIn(runs', blind', t) = {n} /\ ExecutingIn(runs', blind', t) = {}
      <3>1. ASSUME NEW r \in RunId, r # n, runs'[r].task = t PROVE ~IsActive(runs'[r])
        BY <1>1, <1>2, <1>5, <3>1
      <3> QED
        BY <2>1, <2>4, <3>1, ActiveKinds DEF WaitingIn, ExecutingIn
    <2>6. ASSUME NEW u \in Task, u # t
          PROVE  /\ WaitingIn(runs', blind', u) = WaitingIn(runs, blind, u)
                 /\ ExecutingIn(runs', blind', u) = ExecutingIn(runs, blind, u)
      <3>1. ASSUME NEW r \in RunId
            PROVE  /\ runs'[r].task = u /\ IsActive(runs'[r])
                        <=> runs[r].task = u /\ IsActive(runs[r])
                   /\ runs'[r].task = u /\ IsActive(runs'[r]) => runs'[r] = runs[r]
        BY <1>1, <1>2, <1>3, <2>1, <2>6
      <3> QED
        BY <2>4, <3>1, ActiveKinds DEF WaitingIn, ExecutingIn
    <2>7. /\ Waiting' = [Waiting EXCEPT ![t] = {n}]
          /\ Executing' = [Executing EXCEPT ![t] = {}]
      BY <2>5, <2>6, SlotMembers
    <2>8. Waiting[t] = {} /\ \A u \in Task : n \notin Waiting[u] \cup Executing[u]
      BY <1>2, <2>2, <2>3, SlotMembers
    <2>9. Slots!Enqueue(t, n)
      BY <2>7, <2>8 DEF Slots!Enqueue
    <2> QED
      BY <1>2, <2>9 DEF Slots!Next
  <1> QED
    BY <1>4, <1>5

\* A claim moves the run from waiting to executing.
LEMMA ClaimTakes ==
  ASSUME TypeOK, NEW r \in RunId, ClaimRun(r)
  PROVE  Slots!Next
  <1> DEFINE t == runs[r].task
  <1>1. IsClaimable(runs[r]) /\ ~IsRunning(runs[r]) /\ runs[r] \in Run
    BY DEF ClaimRun, TypeOK, IsClaimable, IsRunning, ClaimableStatuses, RunningStatuses
  <1>2. t \in Task
    <2>1. runs[r].task \in Task
      BY <1>1 DEF Run
    <2> QED
      BY <2>1
  <1>3. /\ runs'[r] = ClaimedRun(runs[r]) /\ blind' = blind
        /\ \A q \in RunId : q # r => runs'[q] = runs[q]
    BY DEF ClaimRun, TypeOK
  <1>4. runs'[r].task = t /\ IsRunning(runs'[r]) /\ ~IsClaimable(runs'[r])
    BY <1>1, <1>3 DEF ClaimedRun, Run, IsClaimable, IsRunning, ClaimableStatuses, RunningStatuses
  <1>5. CASE r \in blind
    <2>1. Leaves({})
      BY <1>3, <1>5 DEF Leaves
    <2> QED
      BY <2>1, LeavesFinish
  <1>6. CASE r \notin blind
    <2>1. r \in WaitingIn(runs, blind, t)
      BY <1>1, <1>6 DEF WaitingIn
    <2> HIDE DEF t
    <2>2. /\ WaitingIn(runs', blind', t) = WaitingIn(runs, blind, t) \ {r}
          /\ ExecutingIn(runs', blind', t) = ExecutingIn(runs, blind, t) \cup {r}
      BY <1>3, <1>4, <1>6 DEF WaitingIn, ExecutingIn
    <2>3. ASSUME NEW u \in Task, u # t
          PROVE  /\ WaitingIn(runs', blind', u) = WaitingIn(runs, blind, u)
                 /\ ExecutingIn(runs', blind', u) = ExecutingIn(runs, blind, u)
      <3>1. runs[r].task # u /\ runs'[r].task # u
        BY <1>4, <2>3 DEF t
      <3> QED
        BY <1>3, <3>1 DEF WaitingIn, ExecutingIn
    <2>4. /\ Waiting' = [Waiting EXCEPT ![t] = Waiting[t] \ {r}]
          /\ Executing' = [Executing EXCEPT ![t] = Executing[t] \cup {r}]
      BY <1>2, <2>2, <2>3, SlotMembers
    <2>5. r \in Waiting[t]
      BY <1>2, <2>1, SlotMembers
    <2>6. Slots!Claim(t, r)
      BY <2>4, <2>5 DEF Slots!Claim
    <2> QED
      BY <1>2, <2>6 DEF Slots!Next
  <1> QED
    BY <1>5, <1>6

\* A report ends the run it is about, also one that had been recovered.
LEMMA UpdateFinishes ==
  ASSUME TypeOK, NEW r \in RunId, NEW st \in FinalStatuses, UpdateRun(r, st)
  PROVE  Slots!Next
  <1>1. /\ runs'[r] = FinishedRun(runs[r], st) /\ runs[r] \in Run /\ blind' = blind
        /\ \A q \in RunId : q # r => runs'[q] = runs[q]
    BY DEF UpdateRun, TypeOK
  <1>2. ~IsClaimable(runs[r])
    BY DEF UpdateRun, IsClaimable, ClaimableStatuses, RunningStatuses, StaleStatuses
  <1>3. ~IsClaimable(runs'[r]) /\ ~IsRunning(runs'[r])
    BY <1>1 DEF FinishedRun, Run, IsClaimable, IsRunning
  <1>4. Leaves({r})
    BY <1>1, <1>2, <1>3 DEF Leaves
  <1> QED
    BY <1>4, LeavesFinish

LEMMA DecideFinishes ==
  ASSUME TypeOK, NEW c \in Caller, Decide(c)
  PROVE  Slots!Next
  <1> DEFINE stale == ExpiredRuns(runs, req[c].task)
  <1>1. CASE Denied(Visible(c, stale), req[c])
    <2>1. runs' = MarkStale(runs, stale) /\ blind' = blind
      BY <1>1 DEF Decide, EndsWithoutRun
    <2>2. stale \in SUBSET RunId /\ \A r \in stale : IsRunning(runs[r])
      BY DEF ExpiredRuns, RowsOf, Rows, IsExpired
    <2> HIDE DEF stale
    <2> QED
      BY <2>1, <2>2, MarkedFinish
  <1>2. CASE ~Denied(Visible(c, stale), req[c])
    BY <1>2, RowsUnchangedFinish DEF Decide, history
  <1> QED
    BY <1>1, <1>2

LEMMA RecoverFinishes ==
  ASSUME TypeOK, RecoverStaleRuns
  PROVE  Slots!Next
  <1>1. PICK S \in SUBSET {r \in RunId : IsRunning(runs[r])} :
          runs' = MarkStale(runs, S) /\ blind' = blind
    BY DEF RecoverStaleRuns
  <1>2. S \in SUBSET RunId /\ \A r \in S : IsRunning(runs[r])
    OBVIOUS
  <1> QED
    BY <1>1, <1>2, MarkedFinish

\* Retention deletes only runs that had left their slot.
LEMMA RetentionLeaves ==
  ASSUME ApplyRetention
  PROVE  Slots!Next
  <1>1. /\ \A r \in RunId : r \notin OldCompleted(runs) => runs'[r] = runs[r]
        /\ blind' = blind \ OldCompleted(runs)
    BY DEF ApplyRetention, Deleted
  <1>2. ASSUME NEW r \in OldCompleted(runs)
        PROVE  /\ ~IsClaimable(runs[r]) /\ ~IsRunning(runs[r])
               /\ ~IsClaimable(runs'[r]) /\ ~IsRunning(runs'[r])
    <2>1. runs'[r] = NoRun /\ runs[r].done # NotCompleted
      BY DEF ApplyRetention, Deleted, OldCompleted, Rows
    <2> QED
      BY <2>1 DEF NoRun, IsClaimable, IsRunning, ClaimableStatuses, RunningStatuses
  <1>3. Leaves({})
    BY <1>1, <1>2 DEF Leaves
  <1> QED
    BY <1>3, LeavesFinish

LEMMA TickLeaves ==
  ASSUME TypeOK, Tick
  PROVE  Slots!Next
  <1>1. \A r \in RunId : /\ runs'[r].status = runs[r].status
                         /\ runs'[r].task = runs[r].task
                         /\ runs'[r].done = -1 <=> runs[r].done = -1
    BY TickRows
  <1>2. blind' = blind
    BY DEF Tick, history
  <1>3. Leaves({})
    BY <1>1, <1>2 DEF Leaves, IsClaimable, IsRunning
  <1> QED
    BY <1>3, LeavesFinish

LEMMA SlotStep == TypeOK /\ QueueInv /\ [Next]_vars => Slots!Next
  <1> SUFFICES ASSUME TypeOK, QueueInv, [Next]_vars PROVE Slots!Next
    OBVIOUS
  <1>1. ASSUME NEW c \in Caller, NEW t \in Task, NEW dry \in BOOLEAN, NEW force \in BOOLEAN,
               ReadTask(c, t, dry, force)
        PROVE  Slots!Next
    BY <1>1, RowsUnchangedFinish DEF ReadTask, history
  <1>2. ASSUME NEW c \in Caller, LockTask(c) \/ Rollback(c) PROVE Slots!Next
    BY <1>2, RowsUnchangedFinish DEF LockTask, Rollback, EndsWithoutRun, history
  <1>3. ASSUME NEW c \in Caller, Decide(c) PROVE Slots!Next
    BY <1>3, DecideFinishes
  <1>4. ASSUME NEW c \in Caller, CommitRun(c) PROVE Slots!Next
    BY <1>4, CommitEnqueues
  <1>5. ASSUME NEW r \in RunId, ClaimRun(r) PROVE Slots!Next
    BY <1>5, ClaimTakes
  <1>6. ASSUME NEW r \in RunId, NEW st \in FinalStatuses, UpdateRun(r, st) PROVE Slots!Next
    BY <1>6, UpdateFinishes
  <1>7. ASSUME RecoverStaleRuns PROVE Slots!Next
    BY <1>7, RecoverFinishes
  <1>8. ASSUME ApplyRetention PROVE Slots!Next
    BY <1>8, RetentionLeaves
  <1>9. ASSUME NEW t \in Task, NEW state \in {"enabled", "disabled"}, SetTask(t, state)
        PROVE  Slots!Next
    BY <1>9, RowsUnchangedFinish DEF SetTask
  <1>10. ASSUME Tick PROVE Slots!Next
    BY <1>10, TickLeaves
  <1>11. CASE UNCHANGED vars
    BY <1>11, RowsUnchangedFinish DEF vars
  <1> QED
    BY <1>1, <1>2, <1>3, <1>4, <1>5, <1>6, <1>7, <1>8, <1>9, <1>10, <1>11 DEF Next

LEMMA InitSlots == Init => Slots!Init
  <1> SUFFICES ASSUME Init PROVE Slots!Init
    OBVIOUS
  <1>1. \A r \in RunId : ~IsClaimable(runs[r]) /\ ~IsRunning(runs[r])
    BY DEF Init, NoRows, NoRun, IsClaimable, IsRunning, ClaimableStatuses, RunningStatuses
  <1>2. \A t : WaitingIn(runs, blind, t) = {} /\ ExecutingIn(runs, blind, t) = {}
    BY <1>1 DEF WaitingIn, ExecutingIn
  <1> QED
    BY <1>2, SlotMembers DEF Slots!Init

\* Without its blind runs the queue is one slot per task: queue_task_run adds a
\* run only where no run waits, a claim takes it once, and no report, recovery,
\* retention or passing of time puts a run back, whatever a plain SELECT reads.
THEOREM QueueImplementsSlots == Spec => ImplementsRunSlots
  <1>1. Init => Slots!Init
    BY InitSlots
  <1>2. TypeOK /\ QueueInv /\ [Next]_vars => [Slots!Next]_(Slots!slots)
    BY SlotStep
  <1> QED
    BY <1>1, <1>2, TypeInvariant, QueueInvariant, PTL DEF Spec, ImplementsRunSlots, Slots!Spec
=============================================================================
