------------------------------- MODULE Worker -------------------------------
(***************************************************************************)
(* The automation worker (automation-worker/worker/main.py) against the    *)
(* run table.  A worker polls: it asks the API to recover stale runs and   *)
(* apply retention, lists the tasks, claims and executes the queued runs   *)
(* among the newest ListLimit runs, then queues, claims and executes the   *)
(* tasks whose schedule is due.  Each HTTP call is one step, because each  *)
(* is one transaction of the API (RunQueue shows that queueing a run is    *)
(* one unit even though it is several statements).                         *)
(*                                                                         *)
(* An exception ends the poll where it is: a handler that raises, a task   *)
(* that is gone, an answer that is lost after the server has committed.    *)
(* A crash does the same and the container restarts.  Faults counts what   *)
(* the environment may do wrong, up to MaxFaults.                          *)
(***************************************************************************)
EXTENDS RunTable, SequencesExt

CONSTANTS
  Proc,        \* worker processes
  TempTask,    \* tasks whose id starts with temporary_ or test_
  ListLimit,   \* runs GET /runs returns, newest first
  MaxFaults    \* bound on faults

ASSUME WorkerAssumption ==
  /\ RunId # {}
  /\ TempTask \subseteq Task
  /\ ListLimit \in Nat \ {0}
  /\ MaxFaults \in Nat

VARIABLES
  task,       \* task[t]: "enabled", "disabled" or "deleted"
  runs,       \* rows of table runs
  wpc,        \* wpc[w]: where worker w is in its poll
  known,      \* known[w]: the answer of list_tasks in this poll
  todo,       \* todo[w]: queued runs of list_runs not yet looked at, newest first
  due,        \* due[w]: due tasks not yet queued
  done,       \* done[w]: tasks executed from the queue in this poll
  job,        \* job[w]: the run being claimed or executed
  started,    \* history: runs whose handler has been started
  faults

store == <<task, runs>>
poll == <<known, todo, due, done>>
vars == <<store, wpc, poll, job, started, faults>>

Steps == {"sleeping", "recovering", "cleaning", "listing", "fetching", "claiming",
          "scheduling", "claiming own", "deciding", "executing", "failing"}

NoTasks == [t \in Task |-> "deleted"]
Job == [run : RunId, task : Task, enabled : BOOLEAN, scheduled : BOOLEAN]
NoJob == [run |-> CHOOSE r \in RunId : TRUE, task |-> CHOOSE t \in Task : TRUE,
          enabled |-> FALSE, scheduled |-> FALSE]

TypeOK ==
  /\ task \in [Task -> {"enabled", "disabled", "deleted"}]
  /\ runs \in [RunId -> Run]
  /\ wpc \in [Proc -> Steps]
  /\ known \in [Proc -> [Task -> {"enabled", "disabled", "deleted"}]]
  /\ todo \in [Proc -> Seq(RunId)]
  /\ due \in [Proc -> SUBSET Task]
  /\ done \in [Proc -> SUBSET Task]
  /\ job \in [Proc -> Job]
  /\ started \subseteq RunId
  /\ faults \in 0..MaxFaults

Init ==
  /\ task \in [Task -> {"enabled", "disabled"}]
  /\ runs = [r \in RunId |-> NoRun]
  /\ wpc = [w \in Proc |-> "sleeping"]
  /\ known = [w \in Proc |-> NoTasks]
  /\ todo = [w \in Proc |-> <<>>]
  /\ due = [w \in Proc |-> {}]
  /\ done = [w \in Proc |-> {}]
  /\ job = [w \in Proc |-> NoJob]
  /\ started = {}
  /\ faults = 0

HasJob(w) == wpc[w] \in {"claiming own", "deciding", "executing", "failing"}

-----------------------------------------------------------------------------
(* API transactions *)

\* queue_task_run: recover the task's stale runs, then deny or insert run r.
Recovered(t) == MarkStale(runs, ExpiredRuns(runs, t))

\* Mutant of Denied: the check for an active run is dropped.
DeniedByLimits(t, dry, force) ==
  \/ RateLimited(Recovered(t), t)
  \/ ~dry /\ ~force /\ RecentlyCompleted(Recovered(t), t) # {}

Denied(t, dry, force) ==
  \/ ActiveRuns(Recovered(t), t) # {}
  \/ RateLimited(Recovered(t), t)
  \/ ~dry /\ ~force /\ RecentlyCompleted(Recovered(t), t) # {}

\* Keys no row and no worker uses: a new run has a new uuid.
FreshRuns == {r \in RunId \ Rows(runs) :
                \A w \in Proc : (HasJob(w) => job[w].run # r) /\ ~Contains(todo[w], r)}

Inserted(r, t, dry) ==
  /\ runs' = [Recovered(t) EXCEPT ![r] = QueuedRun(t, dry)]
  /\ started' = started \ {r}

Declined(t) ==
  /\ runs' = Recovered(t)
  /\ UNCHANGED started

\* PATCH /runs/{id} with completed: blind, but the row must still exist.
Reported(w, status) == runs' = [runs EXCEPT ![job[w].run] = FinishedRun(@, status)]

\* The worker's row is still there to be reported.
RowExists(w) == job[w].run \in Rows(runs)

-----------------------------------------------------------------------------
(* run_once *)

\* The poll is over, normally or by an exception or a crash.
Sleep(w) ==
  /\ wpc' = [wpc EXCEPT ![w] = "sleeping"]
  /\ known' = [known EXCEPT ![w] = NoTasks]
  /\ todo' = [todo EXCEPT ![w] = <<>>]
  /\ due' = [due EXCEPT ![w] = {}]
  /\ done' = [done EXCEPT ![w] = {}]
  /\ job' = [job EXCEPT ![w] = NoJob]

Fault == /\ faults < MaxFaults
         /\ faults' = faults + 1

Goto(w, step) == wpc' = [wpc EXCEPT ![w] = step]

StartPoll(w) ==
  /\ wpc[w] = "sleeping"
  /\ Goto(w, "recovering")
  /\ UNCHANGED <<store, poll, job, started, faults>>

\* maybe_recover_stale_runs: every expired run, when the interval has passed.
RecoverStale(w) ==
  /\ wpc[w] = "recovering"
  /\ runs' = MarkStale(runs, UNION {ExpiredRuns(runs, t) : t \in Task})
  /\ Goto(w, "cleaning")
  /\ UNCHANGED <<task, poll, job, started, faults>>

\* The interval has not passed, or the call failed and was swallowed.
SkipRecovery(w) ==
  /\ wpc[w] = "recovering"
  /\ Goto(w, "cleaning")
  /\ UNCHANGED <<store, poll, job, started, faults>>

\* maybe_run_retention: old completed runs and disabled temporary tasks go.
ApplyRetention(w) ==
  /\ wpc[w] = "cleaning"
  /\ runs' = Deleted(runs, OldCompleted(runs))
  /\ \E T \in SUBSET {t \in TempTask : task[t] = "disabled"} :
       task' = [t \in Task |-> IF t \in T THEN "deleted" ELSE task[t]]
  /\ Goto(w, "listing")
  /\ UNCHANGED <<poll, job, started, faults>>

SkipRetention(w) ==
  /\ wpc[w] = "cleaning"
  /\ Goto(w, "listing")
  /\ UNCHANGED <<store, poll, job, started, faults>>

ListTasks(w) ==
  /\ wpc[w] = "listing"
  /\ known' = [known EXCEPT ![w] = task]
  /\ Goto(w, "fetching")
  /\ UNCHANGED <<store, todo, due, done, job, started, faults>>

\* A possible answer of GET /runs?limit=ListLimit, as a set: the newest rows.
NewestRows(listed) ==
  LET left == Rows(runs) \ listed
  IN  /\ Cardinality(listed) <= ListLimit
      /\ left # {} => Cardinality(listed) = ListLimit
      /\ \A r \in listed, q \in left : runs[r].age <= runs[q].age

\* The same, and the order of the rows in it.
NewestFirst(s) ==
  /\ IsInjective(s)
  /\ \A i, j \in DOMAIN s : i < j => runs[s[i]].age <= runs[s[j]].age

\* Mutant of ListRuns: dry runs are not recognised as queued.
ListLiveRuns(w) ==
  /\ wpc[w] = "fetching"
  /\ \E listed \in SUBSET Rows(runs) :
       /\ NewestRows(listed)
       /\ \E s \in SeqOf(listed, ListLimit) :
            /\ ToSet(s) = {r \in listed : IsClaimable(runs[r]) /\ ~runs[r].dry}
            /\ NewestFirst(s)
            /\ todo' = [todo EXCEPT ![w] = s]
  /\ Goto(w, "claiming")
  /\ UNCHANGED <<store, known, due, done, job, started, faults>>

ListRuns(w) ==
  /\ wpc[w] = "fetching"
  /\ \E listed \in SUBSET Rows(runs) :
       /\ NewestRows(listed)
       /\ \E s \in SeqOf(listed, ListLimit) :
            /\ ToSet(s) = {r \in listed : IsClaimable(runs[r])}
            /\ NewestFirst(s)
            /\ todo' = [todo EXCEPT ![w] = s]
  /\ Goto(w, "claiming")
  /\ UNCHANGED <<store, known, due, done, job, started, faults>>

\* The task of run r: as listed, or fetched now if the list did not have it.
TaskState(w, r) ==
  LET t == runs[r].task IN IF known[w][t] # "deleted" THEN known[w][t] ELSE task[t]

\* process_queued_runs: get_task and POST /runs/{id}/claim for the next run.
ClaimListed(w) ==
  /\ wpc[w] = "claiming"
  /\ todo[w] # <<>>
  /\ LET r == Head(todo[w])
     IN  /\ IsClaimable(runs[r])
         /\ TaskState(w, r) # "deleted"
         /\ runs' = [runs EXCEPT ![r] = ClaimedRun(@)]
         /\ job' = [job EXCEPT ![w] = [run |-> r, task |-> runs[r].task, scheduled |-> FALSE,
                                       enabled |-> TaskState(w, r) = "enabled"]]
  /\ todo' = [todo EXCEPT ![w] = Tail(@)]
  /\ Goto(w, "deciding")
  /\ UNCHANGED <<task, known, due, done, started, faults>>

\* 409: another worker has claimed it since it was listed.
SkipClaimed(w) ==
  /\ wpc[w] = "claiming"
  /\ todo[w] # <<>>
  /\ LET r == Head(todo[w])
     IN  r \in Rows(runs) /\ ~IsClaimable(runs[r]) /\ TaskState(w, r) # "deleted"
  /\ todo' = [todo EXCEPT ![w] = Tail(@)]
  /\ UNCHANGED <<store, wpc, known, due, done, job, started, faults>>

\* 404: the run's task is gone, or the run itself.  The exception ends the poll.
AbortOnMissingTask(w) ==
  /\ wpc[w] = "claiming"
  /\ todo[w] # <<>>
  /\ LET r == Head(todo[w]) IN r \in Rows(runs) => TaskState(w, r) = "deleted"
  /\ Sleep(w)
  /\ UNCHANGED <<store, started, faults>>

\* due_tasks: some of the listed enabled tasks, except those just executed.
FindDue(w) ==
  /\ wpc[w] = "claiming"
  /\ todo[w] = <<>>
  /\ \E T \in SUBSET {t \in Task : known[w][t] = "enabled"} :
       due' = [due EXCEPT ![w] = T \ done[w]]
  /\ Goto(w, "scheduling")
  /\ UNCHANGED <<store, known, todo, done, job, started, faults>>

\* POST /tasks/{id}/run for the next due task.
QueueDue(w) ==
  /\ wpc[w] = "scheduling"
  /\ \E t \in due[w] :
       /\ DryRun[t] \/ task[t] = "enabled"
       /\ task[t] # "deleted"
       /\ due' = [due EXCEPT ![w] = @ \ {t}]
       /\ \/ /\ Denied(t, DryRun[t], FALSE)
             /\ Declined(t)
             /\ UNCHANGED <<wpc, job>>
          \/ /\ ~Denied(t, DryRun[t], FALSE)
             /\ \E r \in FreshRuns :
                  /\ Inserted(r, t, DryRun[t])
                  /\ job' = [job EXCEPT ![w] =
                               [run |-> r, task |-> t, scheduled |-> TRUE,
                                enabled |-> known[w][t] = "enabled"]]
             /\ Goto(w, "claiming own")
  /\ UNCHANGED <<task, known, todo, done, faults>>

\* 403 or 404: the task was paused or deleted since it was listed.  The bound
\* on run keys shows up here too: without a free key the request fails.
AbortOnRefusedTask(w) ==
  /\ wpc[w] = "scheduling"
  /\ \/ \E t \in due[w] : (~DryRun[t] /\ task[t] # "enabled") \/ task[t] = "deleted"
     \/ due[w] # {} /\ FreshRuns = {}
  /\ Sleep(w)
  /\ UNCHANGED <<store, started, faults>>

\* POST /runs/{id}/claim for the run just queued.
ClaimOwn(w) ==
  /\ wpc[w] = "claiming own"
  /\ IsClaimable(runs[job[w].run])
  /\ runs' = [runs EXCEPT ![job[w].run] = ClaimedRun(@)]
  /\ Goto(w, "deciding")
  /\ UNCHANGED <<task, poll, job, started, faults>>

\* claim_conflict: another worker was faster.
LoseClaim(w) ==
  /\ wpc[w] = "claiming own"
  /\ ~IsClaimable(runs[job[w].run])
  /\ Goto(w, "scheduling")
  /\ job' = [job EXCEPT ![w] = NoJob]
  /\ UNCHANGED <<store, poll, started, faults>>

EndPoll(w) ==
  /\ wpc[w] = "scheduling"
  /\ due[w] = {}
  /\ Sleep(w)
  /\ UNCHANGED <<store, started, faults>>

-----------------------------------------------------------------------------
(* execute_task *)

\* Back to the loop that asked for the run.
JobDone(w) ==
  /\ job' = [job EXCEPT ![w] = NoJob]
  /\ IF job[w].scheduled
     THEN /\ Goto(w, "scheduling")
          /\ UNCHANGED done
     ELSE /\ Goto(w, "claiming")
          /\ done' = [done EXCEPT ![w] = @ \cup {job[w].task}]
  /\ UNCHANGED <<known, todo, due>>

LiveJob(w) == ~runs[job[w].run].dry

\* The task as listed was disabled: the live run is reported as skipped.
SkipDisabled(w) ==
  /\ wpc[w] = "deciding"
  /\ RowExists(w)
  /\ ~job[w].enabled /\ LiveJob(w)
  /\ Reported(w, "skipped_disabled")
  /\ JobDone(w)
  /\ UNCHANGED <<task, started, faults>>

StartHandler(w) ==
  /\ wpc[w] = "deciding"
  /\ RowExists(w)
  /\ job[w].enabled \/ ~LiveJob(w)
  /\ started' = started \cup {job[w].run}
  /\ Goto(w, "executing")
  /\ UNCHANGED <<store, poll, job, faults>>

\* The handler ends; the run is reported completed, or failed when the
\* notification could not be sent or the result's quality failed.
Report(w) ==
  /\ wpc[w] = "executing"
  /\ RowExists(w)
  /\ \E status \in IF LiveJob(w) THEN {"completed", "failed"} ELSE {"completed_dry_run"} :
       Reported(w, status)
  /\ JobDone(w)
  /\ UNCHANGED <<task, started, faults>>

\* The handler raises, or the answer to the report is lost after the commit.
HandlerRaises(w) ==
  /\ wpc[w] = "executing"
  /\ Fault
  /\ Goto(w, "failing")
  /\ UNCHANGED <<store, poll, job, started>>

LoseReport(w) ==
  /\ wpc[w] = "executing"
  /\ RowExists(w)
  /\ Fault
  /\ Reported(w, IF LiveJob(w) THEN "completed" ELSE "completed_dry_run")
  /\ Goto(w, "failing")
  /\ UNCHANGED <<task, poll, job, started>>

\* except Exception: report the run failed and raise, which ends the poll.
ReportFailure(w) ==
  /\ wpc[w] = "failing"
  /\ RowExists(w)
  /\ Reported(w, "failed")
  /\ Sleep(w)
  /\ UNCHANGED <<task, started, faults>>

\* The row was deleted while the run was executing: 404 ends the poll.
AbortOnMissingRun(w) ==
  /\ wpc[w] \in {"deciding", "executing", "failing"}
  /\ ~RowExists(w)
  /\ Sleep(w)
  /\ UNCHANGED <<store, started, faults>>

\* The process dies, or a call times out: what the server committed stays.
Crash(w) ==
  /\ wpc[w] # "sleeping"
  /\ Fault
  /\ Sleep(w)
  /\ UNCHANGED <<store, started>>

-----------------------------------------------------------------------------
(* The environment *)

\* A person or a tool asks for a run: the API key's role decides (admin, or
\* the dashboard, which may choose a dry run), then the queue does.
MayRequest(t, dry, force) ==
  \/ dry = DryRun[t]
  \/ ~force /\ Level[t] # 4 /\ (dry \/ (task[t] = "enabled" /\ Level[t] < 2))

RequestRun(t, dry, force) ==
  /\ task[t] # "deleted"
  /\ MayRequest(t, dry, force)
  /\ IF Denied(t, dry, force) THEN Declined(t) ELSE \E r \in FreshRuns : Inserted(r, t, dry)
  /\ UNCHANGED <<task, wpc, poll, job, faults>>

SetTask(t, state) ==
  /\ task[t] \notin {state, "deleted"}
  /\ task' = [task EXCEPT ![t] = state]
  /\ UNCHANGED <<runs, wpc, poll, job, started, faults>>

Tick ==
  /\ runs' = Aged(runs)
  /\ UNCHANGED <<task, wpc, poll, job, started, faults>>

Work(w) ==
  \/ StartPoll(w) \/ RecoverStale(w) \/ SkipRecovery(w) \/ ApplyRetention(w) \/ SkipRetention(w)
  \/ ListTasks(w) \/ ListRuns(w) \/ ClaimListed(w) \/ SkipClaimed(w) \/ AbortOnMissingTask(w)
  \/ FindDue(w) \/ QueueDue(w) \/ AbortOnRefusedTask(w) \/ ClaimOwn(w) \/ LoseClaim(w) \/ EndPoll(w)
  \/ SkipDisabled(w) \/ StartHandler(w) \/ Report(w) \/ ReportFailure(w) \/ AbortOnMissingRun(w)

Next ==
  \/ \E w \in Proc : Work(w) \/ HandlerRaises(w) \/ LoseReport(w) \/ Crash(w)
  \/ \E t \in Task, dry, force \in BOOLEAN : RequestRun(t, dry, force)
  \/ \E t \in Task, state \in {"enabled", "disabled"} : SetTask(t, state)
  \/ Tick

Spec == Init /\ [][Next]_vars

\* The worker loop is never blocked for good (each call has a timeout and the
\* container restarts), recovery is due again and again, and time passes.
FairSpec ==
  /\ Spec
  /\ \A w \in Proc : WF_vars(Work(w)) /\ SF_vars(RecoverStale(w))
  /\ WF_vars(Tick)

-----------------------------------------------------------------------------
(* Properties *)

\* The handler of a run is started at most once, through claim races, lost
\* answers, crashes and restarts: a side effect is never repeated for a run.
StartedOnce ==
  [][\A w \in Proc : wpc[w] = "deciding" /\ wpc'[w] = "executing" => job[w].run \notin started]_vars

Working(w) == wpc[w] \in {"deciding", "executing", "failing"}

\* Two workers execute runs of one task at once only when one of them has
\* lost its run: its lease ran out and was taken, or it was reported already.
OverlapOnlyAfterRelease ==
  \A v, w \in Proc :
    v # w /\ Working(v) /\ Working(w) /\ job[v].task = job[w].task
      => \E r \in {job[v].run, job[w].run} : ~IsRunning(runs[r])

\* A claimed run is released: reported by its worker, or recovered once its
\* lease runs out when the worker is gone.
RunningReleased == \A r \in RunId : IsRunning(runs[r]) ~> ~IsRunning(runs[r])

\* A queued run is eventually taken.
QueuedRunsServed == \A r \in RunId : IsClaimable(runs[r]) ~> ~IsClaimable(runs[r])

\* The worker starts the handler of a live run only while its task is enabled.
LiveRunsOnlyWhenEnabled ==
  [][\A w \in Proc : wpc[w] = "deciding" /\ wpc'[w] = "executing" /\ LiveJob(w)
                     => task[job[w].task] = "enabled"]_vars
=============================================================================
