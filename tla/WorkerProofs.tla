---------------------------- MODULE WorkerProofs ----------------------------
(***************************************************************************)
(* Proofs about Worker for any tasks, runs, limits, leases, list lengths   *)
(* and faults, and any number of workers that poll the same run table.     *)
(*                                                                         *)
(* The invariant says who may touch which run: a run that a worker executes*)
(* is claimed, is its own and is of the task it says, and a run that may   *)
(* still be claimed has never been started.                                *)
(***************************************************************************)
EXTENDS Worker, RunTableProofs

-----------------------------------------------------------------------------
(* Type invariant *)

States == {"enabled", "disabled", "deleted"}

LEMMA NoJobType == NoJob \in Job
  BY WorkerAssumption, RunTableAssumption DEF NoJob, Job

\* A worker that goes to sleep forgets its poll.
LEMMA SleepType ==
  ASSUME TypeOK, NEW w \in Proc, Sleep(w)
  PROVE  /\ wpc' \in [Proc -> Steps]
         /\ known' \in [Proc -> [Task -> States]]
         /\ todo' \in [Proc -> Seq(RunId)]
         /\ due' \in [Proc -> SUBSET Task]
         /\ done' \in [Proc -> SUBSET Task]
         /\ job' \in [Proc -> Job]
  <1>1. NoTasks \in [Task -> States]
    BY DEF NoTasks, States
  <1>2. <<>> \in Seq(RunId)
    OBVIOUS
  <1> QED
    BY <1>1, <1>2, NoJobType DEF TypeOK, Sleep, Steps, States

LEMMA InitType == Init => TypeOK
  <1> SUFFICES ASSUME Init PROVE TypeOK
    OBVIOUS
  <1>1. runs \in [RunId -> Run]
    BY NoRunType DEF Init
  <1>2. known \in [Proc -> [Task -> States]]
    BY DEF Init, NoTasks, States
  <1>3. todo \in [Proc -> Seq(RunId)]
    <2>1. <<>> \in Seq(RunId)
      OBVIOUS
    <2> QED
      BY <2>1 DEF Init
  <1>4. job \in [Proc -> Job]
    BY NoJobType DEF Init
  <1> QED
    BY <1>1, <1>2, <1>3, <1>4, WorkerAssumption DEF Init, TypeOK, Steps, States

\* A transaction that queues a run leaves a table of rows.
LEMMA RecoveredType ==
  ASSUME TypeOK, NEW t \in Task PROVE Recovered(t) \in [RunId -> Run]
  BY MarkStaleType DEF TypeOK, Recovered

LEMMA InsertedType ==
  ASSUME TypeOK, NEW r \in RunId, NEW t \in Task, NEW dry \in BOOLEAN, Inserted(r, t, dry)
  PROVE  runs' \in [RunId -> Run] /\ started' \subseteq RunId
  BY RecoveredType, QueuedRunType DEF TypeOK, Inserted

LEMMA ReportedType ==
  ASSUME TypeOK, NEW w \in Proc, NEW st \in FinalStatuses, Reported(w, st)
  PROVE  runs' \in [RunId -> Run]
  <1>1. job[w].run \in RunId
    BY DEF TypeOK, Job
  <1> QED
    BY <1>1, FinishedRunType DEF TypeOK, Reported

LEMMA JobDoneType ==
  ASSUME TypeOK, NEW w \in Proc, JobDone(w)
  PROVE  /\ wpc' \in [Proc -> Steps]
         /\ known' = known /\ todo' = todo /\ due' = due
         /\ done' \in [Proc -> SUBSET Task]
         /\ job' \in [Proc -> Job]
  <1>1. job[w].task \in Task
    BY DEF TypeOK, Job
  <1>2. done' \in [Proc -> SUBSET Task]
    <2>1. done' = done \/ done' = [done EXCEPT ![w] = @ \cup {job[w].task}]
      BY DEF JobDone
    <2>2. done[w] \cup {job[w].task} \in SUBSET Task
      BY <1>1 DEF TypeOK
    <2>3. done \in [Proc -> SUBSET Task]
      BY DEF TypeOK
    <2> QED
      BY <2>1, <2>2, <2>3
  <1>3. wpc' \in [Proc -> Steps]
    BY DEF TypeOK, JobDone, Goto, Steps
  <1> QED
    BY <1>2, <1>3, NoJobType DEF TypeOK, JobDone

\* One step of a poll.
LEMMA WorkType ==
  ASSUME TypeOK, NEW w \in Proc, Work(w)
  PROVE  TypeOK'
  <1>1. CASE StartPoll(w)
    BY <1>1 DEF TypeOK, StartPoll, Goto, Steps, store, poll
  <1>2. CASE RecoverStale(w)
    BY <1>2, MarkStaleType DEF TypeOK, RecoverStale, Goto, Steps, poll
  <1>3. CASE SkipRecovery(w)
    BY <1>3 DEF TypeOK, SkipRecovery, Goto, Steps, store, poll
  <1>4. CASE ApplyRetention(w)
    <2>1. runs' \in [RunId -> Run]
      BY <1>4, DeletedType DEF TypeOK, ApplyRetention
    <2>2. task' \in [Task -> States]
      BY <1>4 DEF TypeOK, ApplyRetention, States
    <2> QED
      BY <1>4, <2>1, <2>2 DEF TypeOK, ApplyRetention, Goto, Steps, poll, States
  <1>5. CASE SkipRetention(w)
    BY <1>5 DEF TypeOK, SkipRetention, Goto, Steps, store, poll
  <1>6. CASE ListTasks(w)
    BY <1>6 DEF TypeOK, ListTasks, Goto, Steps, store
  <1>7. CASE ListRuns(w)
    <2>1. PICK listed \in SUBSET Rows(runs) :
            \E s \in SeqOf(listed, ListLimit) : todo' = [todo EXCEPT ![w] = s]
      BY <1>7 DEF ListRuns
    <2> PICK s \in SeqOf(listed, ListLimit) : todo' = [todo EXCEPT ![w] = s]
      BY <2>1
    <2>2. s \in Seq(RunId)
      BY DEF SeqOf, Rows
    <2> QED
      BY <1>7, <2>2 DEF TypeOK, ListRuns, Goto, Steps, store
  <1>8. CASE ClaimListed(w)
    <2> DEFINE r == Head(todo[w])
    <2>1. r \in RunId /\ Tail(todo[w]) \in Seq(RunId)
      BY <1>8 DEF TypeOK, ClaimListed
    <2>2. runs[r] \in Run /\ runs[r].task \in Task
      BY <2>1 DEF TypeOK, Run
    <2>3. runs' \in [RunId -> Run]
      BY <1>8, <2>1, <2>2, ClaimedRunType DEF TypeOK, ClaimListed
    <2>4. job' \in [Proc -> Job]
      BY <1>8, <2>1, <2>2 DEF TypeOK, ClaimListed, Job
    <2> QED
      BY <1>8, <2>1, <2>3, <2>4 DEF TypeOK, ClaimListed, Goto, Steps
  <1>9. CASE SkipClaimed(w)
    BY <1>9 DEF TypeOK, SkipClaimed, store
  <1>10. CASE AbortOnMissingTask(w)
    BY <1>10, SleepType DEF TypeOK, AbortOnMissingTask, store, States
  <1>11. CASE FindDue(w)
    BY <1>11 DEF TypeOK, FindDue, Goto, Steps, store
  <1>12. CASE QueueDue(w)
    <2>1. PICK t \in due[w] :
            /\ due' = [due EXCEPT ![w] = @ \ {t}]
            /\ \/ Declined(t) /\ UNCHANGED <<wpc, job>>
               \/ \E r \in FreshRuns :
                    /\ Inserted(r, t, DryRun[t])
                    /\ job' = [job EXCEPT ![w] = [run |-> r, task |-> t, scheduled |-> TRUE,
                                                 enabled |-> known[w][t] = "enabled"]]
                    /\ Goto(w, "claiming own")
      BY <1>12 DEF QueueDue
    <2>2. t \in Task /\ DryRun[t] \in BOOLEAN
      BY RunTableAssumption DEF TypeOK
    <2>3. CASE Declined(t) /\ UNCHANGED <<wpc, job>>
      BY <1>12, <2>1, <2>2, <2>3, RecoveredType DEF TypeOK, QueueDue, Declined
    <2>4. ASSUME NEW r \in FreshRuns,
                 Inserted(r, t, DryRun[t]),
                 job' = [job EXCEPT ![w] = [run |-> r, task |-> t, scheduled |-> TRUE,
                                            enabled |-> known[w][t] = "enabled"]],
                 Goto(w, "claiming own")
          PROVE  TypeOK'
      <3>1. r \in RunId
        BY DEF FreshRuns
      <3>2. runs' \in [RunId -> Run] /\ started' \subseteq RunId
        BY <2>2, <2>4, <3>1, InsertedType
      <3>3. job' \in [Proc -> Job]
        BY <2>2, <2>4, <3>1 DEF TypeOK, Job
      <3> QED
        BY <1>12, <2>1, <2>4, <3>2, <3>3 DEF TypeOK, QueueDue, Goto, Steps
    <2> QED
      BY <2>1, <2>3, <2>4
  <1>13. CASE AbortOnRefusedTask(w)
    BY <1>13, SleepType DEF TypeOK, AbortOnRefusedTask, store, States
  <1>14. CASE ClaimOwn(w)
    <2>1. job[w].run \in RunId
      BY DEF TypeOK, Job
    <2> QED
      BY <1>14, <2>1, ClaimedRunType DEF TypeOK, ClaimOwn, Goto, Steps, poll
  <1>15. CASE LoseClaim(w)
    BY <1>15, NoJobType DEF TypeOK, LoseClaim, Goto, Steps, store, poll
  <1>16. CASE EndPoll(w)
    BY <1>16, SleepType DEF TypeOK, EndPoll, store, States
  <1>17. CASE SkipDisabled(w)
    <2>1. "skipped_disabled" \in FinalStatuses
      BY DEF FinalStatuses
    <2> QED
      BY <1>17, <2>1, ReportedType, JobDoneType DEF TypeOK, SkipDisabled, States
  <1>18. CASE StartHandler(w)
    BY <1>18 DEF TypeOK, StartHandler, Goto, Steps, store, poll, Job
  <1>19. CASE Report(w)
    <2>1. PICK st \in FinalStatuses : Reported(w, st)
      BY <1>19 DEF Report, FinalStatuses
    <2> QED
      BY <1>19, <2>1, ReportedType, JobDoneType DEF TypeOK, Report, States
  <1>20. CASE ReportFailure(w)
    <2>1. "failed" \in FinalStatuses
      BY DEF FinalStatuses
    <2> QED
      BY <1>20, <2>1, ReportedType, SleepType DEF TypeOK, ReportFailure, States
  <1>21. CASE AbortOnMissingRun(w)
    BY <1>21, SleepType DEF TypeOK, AbortOnMissingRun, store, States
  <1> QED
    BY <1>1, <1>2, <1>3, <1>4, <1>5, <1>6, <1>7, <1>8, <1>9, <1>10, <1>11, <1>12, <1>13, <1>14,
       <1>15, <1>16, <1>17, <1>18, <1>19, <1>20, <1>21 DEF Work

\* A step that goes wrong.
LEMMA FaultType ==
  ASSUME TypeOK, NEW w \in Proc, HandlerRaises(w) \/ LoseReport(w) \/ Crash(w)
  PROVE  TypeOK'
  <1>1. ASSUME Fault PROVE faults' \in 0..MaxFaults
    BY <1>1, WorkerAssumption DEF TypeOK, Fault
  <1>2. CASE HandlerRaises(w)
    BY <1>1, <1>2 DEF TypeOK, HandlerRaises, Goto, Steps, store, poll
  <1>3. CASE LoseReport(w)
    <2>1. PICK st \in FinalStatuses : Reported(w, st)
      BY <1>3 DEF LoseReport, FinalStatuses
    <2> QED
      BY <1>1, <1>3, <2>1, ReportedType DEF TypeOK, LoseReport, Goto, Steps, poll
  <1>4. CASE Crash(w)
    BY <1>1, <1>4, SleepType DEF TypeOK, Crash, store, States
  <1> QED
    BY <1>2, <1>3, <1>4

LEMMA RequestType ==
  ASSUME TypeOK, NEW t \in Task, NEW dry \in BOOLEAN, NEW force \in BOOLEAN,
         RequestRun(t, dry, force)
  PROVE  TypeOK'
  <1>1. runs' \in [RunId -> Run] /\ started' \subseteq RunId
    <2>1. CASE Declined(t)
      BY <2>1, RecoveredType DEF TypeOK, Declined
    <2>2. CASE \E r \in FreshRuns : Inserted(r, t, dry)
      BY <2>2, InsertedType DEF FreshRuns
    <2> QED
      BY <2>1, <2>2 DEF RequestRun
  <1> QED
    BY <1>1 DEF TypeOK, RequestRun, poll

\* Through claims, reports, crashes and deletions the rows stay rows of the
\* table, and every worker keeps a job, a list and a step of the code.
THEOREM WorkerTypes == Spec => []TypeOK
  <1>1. TypeOK /\ [Next]_vars => TypeOK'
    <2> SUFFICES ASSUME TypeOK, [Next]_vars PROVE TypeOK'
      OBVIOUS
    <2>1. ASSUME NEW w \in Proc, Work(w) PROVE TypeOK'
      BY <2>1, WorkType
    <2>2. ASSUME NEW w \in Proc, HandlerRaises(w) \/ LoseReport(w) \/ Crash(w) PROVE TypeOK'
      BY <2>2, FaultType
    <2>3. ASSUME NEW t \in Task, NEW dry \in BOOLEAN, NEW force \in BOOLEAN,
                 RequestRun(t, dry, force)
          PROVE  TypeOK'
      BY <2>3, RequestType
    <2>4. ASSUME NEW t \in Task, NEW state \in {"enabled", "disabled"}, SetTask(t, state)
          PROVE  TypeOK'
      BY <2>4 DEF TypeOK, SetTask, poll
    <2>5. CASE Tick
      BY <2>5, AgedType DEF TypeOK, Tick, poll
    <2>6. CASE UNCHANGED vars
      BY <2>6 DEF TypeOK, vars, store, poll
    <2> QED
      BY <2>1, <2>2, <2>3, <2>4, <2>5, <2>6 DEF Next
  <1> QED
    BY <1>1, InitType, PTL DEF Spec

-----------------------------------------------------------------------------
(* Who may touch which run *)

USE DEF NotCompleted

\* A task has at most one run that is queued or running.
SingleActive ==
  \A r, q \in RunId :
    IsActive(runs[r]) /\ IsActive(runs[q]) /\ runs[r].task = runs[q].task => r = q

\* A run that is being executed cannot be claimed again, nor is it shared.
ExecutedTaken == \A w \in Proc : Working(w) => ~IsClaimable(runs[job[w].run])
ExecutedOnce ==
  \A v, w \in Proc : v # w /\ Working(v) /\ Working(w) => job[v].run # job[w].run

\* The row of a worker's run is of the task the worker thinks it is of.
JobMatches ==
  \A w \in Proc :
    HasJob(w) /\ runs[job[w].run].status # "absent" => runs[job[w].run].task = job[w].task

\* What was started is neither claimable nor about to be started.
StartedTaken == \A r \in started : ~IsClaimable(runs[r])
DecidingUnstarted == \A w \in Proc : wpc[w] = "deciding" => job[w].run \notin started

WorkerInv ==
  /\ SingleActive /\ ExecutedTaken /\ ExecutedOnce /\ JobMatches
  /\ StartedTaken /\ DecidingUnstarted

\* A table in which no row has become active or claimable, or of another task.
Kept(old, new) ==
  \A r \in RunId :
    /\ IsActive(new[r]) => IsActive(old[r])
    /\ IsClaimable(new[r]) => IsClaimable(old[r])
    /\ new[r].status # "absent" => old[r].status # "absent" /\ new[r].task = old[r].task

LEMMA ActivePresent ==
  ASSUME NEW row PROVE /\ IsActive(row) => row.status # "absent"
                       /\ IsClaimable(row) => IsActive(row)
  BY DEF IsActive, IsClaimable, ActiveStatuses, ClaimableStatuses, RunningStatuses

LEMMA FinishedKept ==
  ASSUME NEW row \in Run, NEW st \in FinalStatuses
  PROVE  /\ ~IsActive(FinishedRun(row, st)) /\ ~IsClaimable(FinishedRun(row, st))
         /\ FinishedRun(row, st).task = row.task
  BY DEF FinishedRun, Run, IsActive, IsClaimable

LEMMA MarkStaleKept ==
  ASSUME NEW tbl \in [RunId -> Run], NEW S, S \subseteq Rows(tbl)
  PROVE  Kept(tbl, MarkStale(tbl, S))
  <1> SUFFICES ASSUME NEW r \in RunId
               PROVE  /\ IsActive(MarkStale(tbl, S)[r]) => IsActive(tbl[r])
                      /\ IsClaimable(MarkStale(tbl, S)[r]) => IsClaimable(tbl[r])
                      /\ MarkStale(tbl, S)[r].status # "absent"
                           => tbl[r].status # "absent" /\ MarkStale(tbl, S)[r].task = tbl[r].task
    BY DEF Kept
  <1>1. CASE r \in S
    <2>1. PICK st \in FinalStatuses : MarkStale(tbl, S)[r] = FinishedRun(tbl[r], st)
      BY <1>1 DEF MarkStale, FinalStatuses, StaleStatuses
    <2> QED
      BY <1>1, <2>1, FinishedKept DEF Rows
  <1>2. CASE r \notin S
    BY <1>2 DEF MarkStale
  <1> QED
    BY <1>1, <1>2

LEMMA ExpiredAreRows ==
  ASSUME NEW tbl, NEW t PROVE ExpiredRuns(tbl, t) \subseteq Rows(tbl)
  BY DEF ExpiredRuns, RowsOf

LEMMA DeletedKept ==
  ASSUME NEW tbl \in [RunId -> Run], NEW S PROVE Kept(tbl, Deleted(tbl, S))
  BY ActivePresent DEF Kept, Deleted, NoRun

LEMMA AgedKept ==
  ASSUME NEW tbl \in [RunId -> Run] PROVE Kept(tbl, Aged(tbl))
  BY AgedActivity DEF Kept, IsActive, IsClaimable

LEMMA ReportedKept ==
  ASSUME TypeOK, NEW w \in Proc, NEW st \in FinalStatuses, RowExists(w), Reported(w, st)
  PROVE  Kept(runs, runs')
  <1> DEFINE r == job[w].run
  <1>1. r \in RunId /\ runs[r].status # "absent"
    BY DEF RowExists, Rows
  <1>2. runs' = [runs EXCEPT ![r] = FinishedRun(runs[r], st)]
    BY DEF Reported
  <1>3. /\ ~IsActive(runs'[r]) /\ ~IsClaimable(runs'[r]) /\ runs'[r].task = runs[r].task
    BY <1>1, <1>2, FinishedKept DEF TypeOK
  <1>4. \A q \in RunId : q # r => runs'[q] = runs[q]
    BY <1>1, <1>2 DEF TypeOK
  <1> QED
    BY <1>1, <1>3, <1>4 DEF Kept

-----------------------------------------------------------------------------
(* The shapes of a step *)

\* Nobody gets a run: jobs are kept or dropped, rows are kept or retired.
LEMMA QuietStep ==
  ASSUME TypeOK, WorkerInv, Kept(runs, runs'), started' = started,
         \A w \in Proc : \/ wpc'[w] = wpc[w] /\ job'[w] = job[w]
                         \/ Working(w) /\ wpc'[w] = "failing" /\ job'[w] = job[w]
                         \/ ~HasJob(w)'
  PROVE  WorkerInv'
  <1>1. \A w \in Proc : /\ HasJob(w)' => HasJob(w) /\ job'[w] = job[w]
                        /\ Working(w)' => Working(w) /\ job'[w] = job[w]
                        /\ wpc'[w] = "deciding" => wpc[w] = "deciding" /\ job'[w] = job[w]
    BY DEF HasJob, Working
  <1>2. \A w \in Proc : job[w].run \in RunId
    BY DEF TypeOK, Job
  <1>3. SingleActive'
    BY ActivePresent DEF WorkerInv, SingleActive, Kept
  <1>4. ExecutedTaken'
    BY <1>1, <1>2 DEF WorkerInv, ExecutedTaken, Kept, Working, HasJob
  <1>5. ExecutedOnce'
    BY <1>1 DEF WorkerInv, ExecutedOnce, Working, HasJob
  <1>6. JobMatches'
    <2> SUFFICES ASSUME NEW w \in Proc, HasJob(w)', runs'[job'[w].run].status # "absent"
                 PROVE  runs'[job'[w].run].task = job'[w].task
      BY DEF JobMatches
    <2>1. HasJob(w) /\ job'[w] = job[w]
      BY <1>1
    <2> QED
      BY <1>2, <2>1 DEF WorkerInv, JobMatches, Kept
  <1>7. StartedTaken'
    BY DEF WorkerInv, StartedTaken, Kept, TypeOK
  <1>8. DecidingUnstarted'
    BY <1>1 DEF WorkerInv, DecidingUnstarted, HasJob, Working
  <1> QED
    BY <1>3, <1>4, <1>5, <1>6, <1>7, <1>8 DEF WorkerInv

LEMMA ClaimStep ==
  ASSUME TypeOK, WorkerInv, NEW w \in Proc, NEW r \in RunId, IsClaimable(runs[r]),
         runs' = [runs EXCEPT ![r] = ClaimedRun(runs[r])],
         wpc' = [wpc EXCEPT ![w] = "deciding"],
         job'[w].run = r, job'[w].task = runs[r].task,
         \A v \in Proc : v # w => job'[v] = job[v],
         started' = started
  PROVE  WorkerInv'
  <1>1. /\ ~IsClaimable(runs'[r]) /\ IsActive(runs[r]) /\ runs[r].status # "absent"
        /\ runs'[r].task = runs[r].task
    BY ActivePresent DEF TypeOK, Run, ClaimedRun, IsClaimable, ClaimableStatuses
  <1>2. \A q \in RunId : q # r => runs'[q] = runs[q]
    BY DEF TypeOK
  <1>3. wpc'[w] = "deciding" /\ \A v \in Proc : v # w => wpc'[v] = wpc[v]
    BY DEF TypeOK
  <1>4. \A v \in Proc : Working(v) => job[v].run # r
    BY DEF WorkerInv, ExecutedTaken
  <1>5. \A v \in Proc : job[v].run \in RunId
    BY DEF TypeOK, Job
  <1>6. SingleActive'
    BY <1>1, <1>2 DEF WorkerInv, SingleActive
  <1>7. ExecutedTaken'
    BY <1>1, <1>2, <1>3, <1>5 DEF WorkerInv, ExecutedTaken, Working
  <1>8. ExecutedOnce'
    BY <1>3, <1>4 DEF WorkerInv, ExecutedOnce, Working
  <1>9. JobMatches'
    <2> SUFFICES ASSUME NEW v \in Proc, HasJob(v)', runs'[job'[v].run].status # "absent"
                 PROVE  runs'[job'[v].run].task = job'[v].task
      BY DEF JobMatches
    <2>1. CASE v = w
      BY <1>1, <2>1
    <2>2. CASE v # w
      <3>1. HasJob(v) /\ job'[v] = job[v] /\ job[v].run \in RunId
        BY <1>3, <1>5, <2>2 DEF HasJob
      <3> QED
        BY <1>1, <1>2, <3>1 DEF WorkerInv, JobMatches
    <2> QED
      BY <2>1, <2>2
  <1>10. StartedTaken'
    BY <1>1, <1>2 DEF WorkerInv, StartedTaken, TypeOK
  <1>11. DecidingUnstarted'
    BY <1>3 DEF WorkerInv, DecidingUnstarted, StartedTaken
  <1> QED
    BY <1>6, <1>7, <1>8, <1>9, <1>10, <1>11 DEF WorkerInv

\* A run is queued, for nobody or for the worker that will claim it.
LEMMA InsertStep ==
  ASSUME TypeOK, WorkerInv, NEW t \in Task, NEW dry \in BOOLEAN, NEW force \in BOOLEAN,
         ~Denied(t, dry, force), NEW r \in FreshRuns, Inserted(r, t, dry),
         \A w \in Proc : \/ wpc'[w] = wpc[w] /\ job'[w] = job[w]
                         \/ wpc'[w] = "claiming own" /\ job'[w].run = r /\ job'[w].task = t
  PROVE  WorkerInv'
  <1> DEFINE tbl == Recovered(t)
  <1>1. /\ r \in RunId /\ runs[r].status = "absent"
        /\ \A w \in Proc : HasJob(w) => job[w].run # r
    BY DEF FreshRuns, Rows
  <1>2. tbl \in [RunId -> Run] /\ Kept(runs, tbl)
    BY RecoveredType, MarkStaleKept, ExpiredAreRows DEF TypeOK, Recovered
  <1>3. \A q \in RunId : IsActive(tbl[q]) => tbl[q].task # t
    <2> SUFFICES ASSUME NEW q \in RunId, IsActive(tbl[q]), tbl[q].task = t PROVE FALSE
      OBVIOUS
    <2>1. q \in ActiveRuns(tbl, t)
      BY ActiveIsRow DEF ActiveRuns
    <2> QED
      BY <2>1 DEF Denied
  <1>4. runs' = [tbl EXCEPT ![r] = QueuedRun(t, dry)] /\ started' = started \ {r}
    BY DEF Inserted
  <1> HIDE DEF tbl
  <1>5. runs'[r].task = t /\ \A q \in RunId : q # r => runs'[q] = tbl[q]
    BY <1>1, <1>2, <1>4 DEF QueuedRun
  <1>6. \A q \in RunId : q # r => /\ IsActive(runs'[q]) => IsActive(runs[q])
                                  /\ IsClaimable(runs'[q]) => IsClaimable(runs[q])
                                  /\ runs'[q].status # "absent" =>
                                       runs[q].status # "absent" /\ runs'[q].task = runs[q].task
    BY <1>2, <1>5 DEF Kept
  <1>7. \A w \in Proc : Working(w)' => /\ Working(w) /\ wpc'[w] = wpc[w]
                                       /\ job'[w] = job[w] /\ job[w].run # r
    BY <1>1 DEF Working, HasJob
  <1>8. \A w \in Proc : job[w].run \in RunId
    BY DEF TypeOK, Job
  <1>9. SingleActive'
    <2>1. \A q \in RunId : q # r /\ IsActive(runs'[q]) =>
            IsActive(runs[q]) /\ runs'[q].task = runs[q].task /\ runs'[q].task # t
      <3> SUFFICES ASSUME NEW q \in RunId, q # r, IsActive(runs'[q])
                   PROVE  /\ IsActive(runs[q])
                          /\ runs'[q].task = runs[q].task
                          /\ runs'[q].task # t
        OBVIOUS
      <3>1. runs'[q] = tbl[q]
        BY <1>5
      <3>2. runs'[q].status # "absent"
        BY ActivePresent
      <3>3. runs'[q].task # t
        BY <1>3, <3>1
      <3> QED
        BY <1>6, <3>2, <3>3
    <2> QED
      BY <1>5, <2>1 DEF WorkerInv, SingleActive
  <1>10. ExecutedTaken'
    BY <1>6, <1>7, <1>8 DEF WorkerInv, ExecutedTaken
  <1>11. ExecutedOnce'
    BY <1>7 DEF WorkerInv, ExecutedOnce
  <1>12. JobMatches'
    <2> SUFFICES ASSUME NEW w \in Proc, HasJob(w)', runs'[job'[w].run].status # "absent"
                 PROVE  runs'[job'[w].run].task = job'[w].task
      BY DEF JobMatches
    <2>1. CASE wpc'[w] = wpc[w] /\ job'[w] = job[w]
      BY <1>1, <1>6, <1>8, <2>1 DEF WorkerInv, JobMatches, HasJob
    <2>2. CASE job'[w].run = r /\ job'[w].task = t
      BY <1>5, <2>2
    <2> QED
      BY <2>1, <2>2
  <1>13. StartedTaken'
    <2>1. \A q \in started' : q \in started /\ q \in RunId /\ q # r
      BY <1>4 DEF TypeOK
    <2> QED
      BY <1>6, <2>1 DEF WorkerInv, StartedTaken, IsClaimable
  <1>14. DecidingUnstarted'
    BY <1>4, <1>7 DEF WorkerInv, DecidingUnstarted, Working
  <1> QED
    BY <1>9, <1>10, <1>11, <1>12, <1>13, <1>14 DEF WorkerInv

LEMMA StartStep ==
  ASSUME TypeOK, WorkerInv, NEW w \in Proc, StartHandler(w)
  PROVE  WorkerInv'
  <1>1. /\ UNCHANGED <<runs, job>> /\ wpc[w] = "deciding" /\ wpc'[w] = "executing"
        /\ \A v \in Proc : v # w => wpc'[v] = wpc[v]
        /\ started' = started \cup {job[w].run}
    BY DEF StartHandler, Goto, TypeOK, store
  <1>2. SingleActive'
    BY <1>1 DEF WorkerInv, SingleActive
  <1>3. ExecutedTaken'
    BY <1>1 DEF WorkerInv, ExecutedTaken, Working
  <1>4. ExecutedOnce'
    BY <1>1 DEF WorkerInv, ExecutedOnce, Working
  <1>5. JobMatches'
    BY <1>1 DEF WorkerInv, JobMatches, HasJob
  <1>6. StartedTaken'
    BY <1>1 DEF WorkerInv, StartedTaken, ExecutedTaken, Working
  <1>7. DecidingUnstarted'
    BY <1>1 DEF WorkerInv, DecidingUnstarted, ExecutedOnce, Working
  <1> QED
    BY <1>2, <1>3, <1>4, <1>5, <1>6, <1>7 DEF WorkerInv

-----------------------------------------------------------------------------
(* The invariant, and what follows *)

\* A worker that goes to sleep or back to its loop has no run.
LEMMA SleepQuiet ==
  ASSUME TypeOK, NEW w \in Proc, Sleep(w)
  PROVE  \A v \in Proc : (wpc'[v] = wpc[v] /\ job'[v] = job[v]) \/ ~HasJob(v)'
  BY DEF TypeOK, Sleep, HasJob

LEMMA JobDoneQuiet ==
  ASSUME TypeOK, NEW w \in Proc, JobDone(w)
  PROVE  \A v \in Proc : (wpc'[v] = wpc[v] /\ job'[v] = job[v]) \/ ~HasJob(v)'
  <1>1. wpc' = [wpc EXCEPT ![w] = "scheduling"] \/ wpc' = [wpc EXCEPT ![w] = "claiming"]
    BY DEF JobDone, Goto
  <1> QED
    BY <1>1 DEF TypeOK, JobDone, HasJob

\* A step of the loop outside of execute_task: the worker has no run before
\* it and none after it.
LEMMA LoopQuiet ==
  ASSUME TypeOK, NEW w \in Proc, UNCHANGED job, ~HasJob(w),
         NEW step \in Steps \ {"claiming own", "deciding", "executing", "failing"}, Goto(w, step)
  PROVE  \A v \in Proc : (wpc'[v] = wpc[v] /\ job'[v] = job[v]) \/ ~HasJob(v)'
  BY DEF TypeOK, Goto, HasJob

LEMMA SameTable == Kept(runs, runs)
  BY DEF Kept

LEMMA WorkKeeps ==
  ASSUME TypeOK, WorkerInv, NEW w \in Proc, Work(w)
  PROVE  WorkerInv'
  <1> DEFINE Quiet == \A v \in Proc : (wpc'[v] = wpc[v] /\ job'[v] = job[v]) \/ ~HasJob(v)'
  <1>1. ASSUME Kept(runs, runs'), started' = started, Quiet PROVE WorkerInv'
    BY <1>1, QuietStep
  <1>2. CASE StartPoll(w) \/ SkipRecovery(w) \/ SkipRetention(w) \/ ListTasks(w) \/ ListRuns(w)
             \/ FindDue(w)
    <2>1. PICK step \in Steps \ {"claiming own", "deciding", "executing", "failing"} : Goto(w, step)
      BY <1>2 DEF StartPoll, SkipRecovery, SkipRetention, ListTasks, ListRuns, FindDue, Steps
    <2>2. UNCHANGED <<runs, job, started>> /\ ~HasJob(w)
      BY <1>2 DEF StartPoll, SkipRecovery, SkipRetention, ListTasks, ListRuns, FindDue, store, HasJob
    <2>3. Quiet
      BY <2>1, <2>2, LoopQuiet
    <2> QED
      BY <1>1, <2>2, <2>3, SameTable
  <1>3. CASE RecoverStale(w)
    <2>1. Kept(runs, runs')
      BY <1>3, MarkStaleKept, ExpiredAreRows DEF RecoverStale, TypeOK
    <2>2. Goto(w, "cleaning") /\ UNCHANGED <<job, started>> /\ ~HasJob(w)
      BY <1>3 DEF RecoverStale, HasJob
    <2>3. Quiet
      BY <2>2, LoopQuiet DEF Steps
    <2> QED
      BY <1>1, <2>1, <2>2, <2>3
  <1>4. CASE ApplyRetention(w)
    <2>1. Kept(runs, runs')
      BY <1>4, DeletedKept DEF ApplyRetention, TypeOK
    <2>2. Goto(w, "listing") /\ UNCHANGED <<job, started>> /\ ~HasJob(w)
      BY <1>4 DEF ApplyRetention, HasJob
    <2>3. Quiet
      BY <2>2, LoopQuiet DEF Steps
    <2> QED
      BY <1>1, <2>1, <2>2, <2>3
  <1>5. CASE SkipClaimed(w)
    BY <1>1, <1>5, SameTable DEF SkipClaimed, store
  <1>6. CASE AbortOnMissingTask(w) \/ AbortOnRefusedTask(w) \/ EndPoll(w) \/ AbortOnMissingRun(w)
    <2>1. Sleep(w) /\ UNCHANGED <<runs, started>>
      BY <1>6 DEF AbortOnMissingTask, AbortOnRefusedTask, EndPoll, AbortOnMissingRun, store
    <2> QED
      BY <1>1, <2>1, SleepQuiet, SameTable
  <1>7. CASE ClaimListed(w)
    <2> DEFINE r == Head(todo[w])
    <2>1. r \in RunId
      BY <1>7 DEF TypeOK, ClaimListed
    <2>2. /\ IsClaimable(runs[r])
          /\ runs' = [runs EXCEPT ![r] = ClaimedRun(runs[r])]
          /\ wpc' = [wpc EXCEPT ![w] = "deciding"]
          /\ started' = started
      BY <1>7 DEF ClaimListed, Goto
    <2>3. /\ job'[w].run = r /\ job'[w].task = runs[r].task
          /\ \A v \in Proc : v # w => job'[v] = job[v]
      BY <1>7 DEF ClaimListed, TypeOK
    <2> HIDE DEF r
    <2> QED
      BY <2>1, <2>2, <2>3, ClaimStep
  <1>8. CASE ClaimOwn(w)
    <2> DEFINE r == job[w].run
    <2>1. r \in RunId
      BY DEF TypeOK, Job
    <2>2. /\ IsClaimable(runs[r])
          /\ runs' = [runs EXCEPT ![r] = ClaimedRun(runs[r])]
          /\ wpc' = [wpc EXCEPT ![w] = "deciding"]
          /\ UNCHANGED <<job, started>>
          /\ HasJob(w)
      BY <1>8 DEF ClaimOwn, Goto, HasJob
    <2>3. job'[w].run = r /\ job'[w].task = runs[r].task
      BY <2>2, ActivePresent DEF WorkerInv, JobMatches
    <2> HIDE DEF r
    <2> QED
      BY <2>1, <2>2, <2>3, ClaimStep
  <1>9. CASE QueueDue(w)
    <2>1. PICK t \in due[w] :
            \/ Declined(t) /\ UNCHANGED <<wpc, job>>
            \/ /\ ~Denied(t, DryRun[t], FALSE)
               /\ \E r \in FreshRuns :
                    /\ Inserted(r, t, DryRun[t])
                    /\ job' = [job EXCEPT ![w] = [run |-> r, task |-> t, scheduled |-> TRUE,
                                                 enabled |-> known[w][t] = "enabled"]]
                    /\ Goto(w, "claiming own")
      BY <1>9 DEF QueueDue
    <2>2. t \in Task /\ DryRun[t] \in BOOLEAN
      BY RunTableAssumption DEF TypeOK
    <2>3. CASE Declined(t) /\ UNCHANGED <<wpc, job>>
      <3>1. Kept(runs, runs') /\ started' = started
        BY <2>3, MarkStaleKept, ExpiredAreRows DEF Declined, Recovered, TypeOK
      <3> QED
        BY <1>1, <2>3, <3>1
    <2>4. ASSUME ~Denied(t, DryRun[t], FALSE), NEW r \in FreshRuns,
                 Inserted(r, t, DryRun[t]),
                 job' = [job EXCEPT ![w] = [run |-> r, task |-> t, scheduled |-> TRUE,
                                            enabled |-> known[w][t] = "enabled"]],
                 Goto(w, "claiming own")
          PROVE  WorkerInv'
      <3>1. \A v \in Proc :
              \/ wpc'[v] = wpc[v] /\ job'[v] = job[v]
              \/ wpc'[v] = "claiming own" /\ job'[v].run = r /\ job'[v].task = t
        BY <2>4 DEF TypeOK, Goto
      <3> QED
        <4>1. FALSE \in BOOLEAN /\ ~Denied(t, DryRun[t], FALSE) /\ Inserted(r, t, DryRun[t])
          BY <2>4
        <4> QED
          BY <2>2, <3>1, <4>1, InsertStep
    <2> QED
      BY <2>1, <2>3, <2>4
  <1>10. CASE LoseClaim(w)
    <2>1. UNCHANGED <<runs, started>> /\ Quiet
      BY <1>10 DEF LoseClaim, Goto, TypeOK, store, HasJob
    <2> QED
      BY <1>1, <2>1, SameTable
  <1>11. CASE SkipDisabled(w) \/ Report(w)
    <2>1. PICK st \in FinalStatuses : Reported(w, st)
      BY <1>11 DEF SkipDisabled, Report, FinalStatuses
    <2>2. RowExists(w) /\ JobDone(w) /\ started' = started
      BY <1>11 DEF SkipDisabled, Report
    <2> QED
      BY <1>1, <2>1, <2>2, ReportedKept, JobDoneQuiet
  <1>12. CASE StartHandler(w)
    BY <1>12, StartStep
  <1>13. CASE ReportFailure(w)
    <2>1. RowExists(w) /\ Reported(w, "failed") /\ Sleep(w) /\ started' = started
      BY <1>13 DEF ReportFailure
    <2>2. "failed" \in FinalStatuses
      BY DEF FinalStatuses
    <2> QED
      BY <1>1, <2>1, <2>2, ReportedKept, SleepQuiet
  <1> HIDE DEF Quiet
  <1> QED
    BY <1>2, <1>3, <1>4, <1>5, <1>6, <1>7, <1>8, <1>9, <1>10, <1>11, <1>12, <1>13 DEF Work

LEMMA FaultKeeps ==
  ASSUME TypeOK, WorkerInv, NEW w \in Proc, HandlerRaises(w) \/ LoseReport(w) \/ Crash(w)
  PROVE  WorkerInv'
  <1>1. CASE HandlerRaises(w)
    <2>1. UNCHANGED <<runs, started, job>>
      BY <1>1 DEF HandlerRaises, store
    <2>2. \A v \in Proc : wpc'[v] = wpc[v] \/ (Working(v) /\ wpc'[v] = "failing")
      BY <1>1 DEF HandlerRaises, Goto, Working, TypeOK
    <2> QED
      BY <2>1, <2>2, SameTable, QuietStep
  <1>2. CASE LoseReport(w)
    <2>1. PICK st \in FinalStatuses : Reported(w, st)
      BY <1>2 DEF LoseReport, FinalStatuses
    <2>2. RowExists(w) /\ UNCHANGED <<started, job>>
      BY <1>2 DEF LoseReport
    <2>3. \A v \in Proc : wpc'[v] = wpc[v] \/ (Working(v) /\ wpc'[v] = "failing")
      BY <1>2 DEF LoseReport, Goto, Working, TypeOK
    <2> QED
      BY <2>1, <2>2, <2>3, ReportedKept, QuietStep
  <1>3. CASE Crash(w)
    <2>1. Sleep(w) /\ UNCHANGED <<runs, started>>
      BY <1>3 DEF Crash, store
    <2> QED
      BY <2>1, SleepQuiet, SameTable, QuietStep
  <1> QED
    BY <1>1, <1>2, <1>3

LEMMA RequestKeeps ==
  ASSUME TypeOK, WorkerInv, NEW t \in Task, NEW dry \in BOOLEAN, NEW force \in BOOLEAN,
         RequestRun(t, dry, force)
  PROVE  WorkerInv'
  <1>1. UNCHANGED <<wpc, job>>
    BY DEF RequestRun
  <1>2. CASE Denied(t, dry, force)
    <2>1. Kept(runs, runs') /\ started' = started
      BY <1>2, MarkStaleKept, ExpiredAreRows DEF RequestRun, Declined, Recovered, TypeOK
    <2> QED
      BY <1>1, <2>1, QuietStep
  <1>3. CASE ~Denied(t, dry, force)
    <2>1. PICK r \in FreshRuns : Inserted(r, t, dry)
      BY <1>3 DEF RequestRun
    <2> QED
      BY <1>1, <1>3, <2>1, InsertStep
  <1> QED
    BY <1>2, <1>3

LEMMA InitWorkerInv == Init => WorkerInv
  <1> SUFFICES ASSUME Init PROVE WorkerInv
    OBVIOUS
  <1>1. \A r \in RunId : ~IsActive(runs[r])
    BY ActivePresent DEF Init, NoRun
  <1>2. started = {} /\ \A w \in Proc : ~HasJob(w) /\ ~Working(w) /\ wpc[w] # "deciding"
    BY DEF Init, HasJob, Working
  <1> QED
    BY <1>1, <1>2 DEF WorkerInv, SingleActive, ExecutedTaken, ExecutedOnce, JobMatches,
                      StartedTaken, DecidingUnstarted

\* Whatever the workers, requests, crashes and clocks do, the run table and
\* the workers' jobs agree on who executes what.
THEOREM WorkerInvariant == Spec => [](TypeOK /\ WorkerInv)
  <1>1. TypeOK /\ WorkerInv /\ [Next]_vars => WorkerInv'
    <2> SUFFICES ASSUME TypeOK, WorkerInv, [Next]_vars PROVE WorkerInv'
      OBVIOUS
    <2>1. ASSUME NEW w \in Proc, Work(w) PROVE WorkerInv'
      BY <2>1, WorkKeeps
    <2>2. ASSUME NEW w \in Proc, HandlerRaises(w) \/ LoseReport(w) \/ Crash(w) PROVE WorkerInv'
      BY <2>2, FaultKeeps
    <2>3. ASSUME NEW t \in Task, NEW dry \in BOOLEAN, NEW force \in BOOLEAN,
                 RequestRun(t, dry, force)
          PROVE  WorkerInv'
      BY <2>3, RequestKeeps
    <2>4. ASSUME NEW t \in Task, NEW state \in {"enabled", "disabled"}, SetTask(t, state)
          PROVE  WorkerInv'
      BY <2>4, SameTable, QuietStep DEF SetTask
    <2>5. CASE Tick
      <3>1. Kept(runs, runs') /\ UNCHANGED <<wpc, job, started>>
        BY <2>5, AgedKept DEF Tick, TypeOK
      <3> QED
        BY <3>1, QuietStep
    <2>6. CASE UNCHANGED vars
      <3>1. UNCHANGED <<runs, wpc, job, started>>
        BY <2>6 DEF vars, store
      <3> QED
        BY <3>1, SameTable, QuietStep
    <2> QED
      BY <2>1, <2>2, <2>3, <2>4, <2>5, <2>6 DEF Next
  <1> QED
    BY <1>1, InitWorkerInv, WorkerTypes, PTL DEF Spec

\* Two workers execute runs of one task at once only when one of the runs has
\* been taken from its worker: any number of workers, restarts included.
THEOREM OverlapNeedsRelease == Spec => []OverlapOnlyAfterRelease
  <1>1. TypeOK /\ WorkerInv => OverlapOnlyAfterRelease
    <2> SUFFICES ASSUME TypeOK, WorkerInv, NEW v \in Proc, NEW w \in Proc, v # w,
                        Working(v), Working(w), job[v].task = job[w].task,
                        IsRunning(runs[job[v].run]), IsRunning(runs[job[w].run])
                 PROVE  FALSE
      BY DEF OverlapOnlyAfterRelease
    <2>1. job[v].run \in RunId /\ job[w].run \in RunId
      BY DEF TypeOK, Job
    <2>2. /\ IsActive(runs[job[v].run]) /\ IsActive(runs[job[w].run])
      BY DEF IsRunning, IsActive, ActiveStatuses
    <2>3. HasJob(v) /\ HasJob(w)
      BY DEF Working, HasJob
    <2>4. runs[job[v].run].task = runs[job[w].run].task
      BY <2>2, <2>3, ActivePresent DEF WorkerInv, JobMatches
    <2> QED
      BY <2>1, <2>2, <2>4 DEF WorkerInv, SingleActive, ExecutedOnce
  <1> QED
    BY <1>1, WorkerInvariant, PTL

\* No handler is started twice for one run, through any claim race, crash,
\* lost answer, recovery or reuse of a deleted run's key.
THEOREM HandlersStartOnce == Spec => StartedOnce
  <1>1. TypeOK /\ WorkerInv =>
          \A w \in Proc : wpc[w] = "deciding" /\ wpc'[w] = "executing" => job[w].run \notin started
    BY DEF WorkerInv, DecidingUnstarted
  <1> QED
    BY <1>1, WorkerInvariant, PTL DEF StartedOnce
=============================================================================
