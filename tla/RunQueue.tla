------------------------------ MODULE RunQueue ------------------------------
(***************************************************************************)
(* Queueing, claiming, finishing, recovering and deleting runs through the *)
(* automation API.                                                         *)
(*                                                                         *)
(* FastAPI runs the handlers in a thread pool, one database session each,  *)
(* so requests interleave.  A request to run a task is a transaction of    *)
(* four steps: it loads the task row, locks it FOR UPDATE, recovers stale  *)
(* runs and decides, and commits.  The decision is taken on what the       *)
(* transaction can see: under SnapshotReads (InnoDB's default REPEATABLE   *)
(* READ) every plain SELECT is served from the snapshot taken when the     *)
(* task row was loaded, while FOR UPDATE reads are always current; without *)
(* it every statement reads the latest committed rows.  The other handlers *)
(* touch a row under its own lock and are one step each.                   *)
(*                                                                         *)
(* Two history variables, which no action reads but to keep them, say what *)
(* the snapshot costs: a request is overtaken when a run of its task is    *)
(* committed between its snapshot and its lock, and the run it inserts all *)
(* the same is blind.                                                      *)
(***************************************************************************)
EXTENDS RunTable

CONSTANTS
  Caller,           \* request threads of the API
  SnapshotReads,    \* plain SELECTs read the transaction's snapshot
  TempTask,         \* tasks whose id starts with temporary_ or test_
  RecoverLimit      \* rows one maintenance call examines

ASSUME RunQueueAssumption ==
  /\ SnapshotReads \in BOOLEAN
  /\ TempTask \subseteq Task
  /\ RecoverLimit \in Nat \ {0}

VARIABLES
  task,       \* task[t]: "enabled", "disabled" or "deleted"
  runs,       \* the committed rows of table runs
  recovered,  \* runs with an audit event run.stale_recovered
  pc,         \* pc[c]: where the request of thread c is
  req,        \* req[c]: its parameters
  view,       \* view[c]: the rows of its snapshot
  expired,    \* expired[c]: runs it has marked stale and not yet committed
  overtaken,  \* history: requests whose snapshot misses a newer run of their task
  blind       \* history: runs inserted by overtaken requests

history == <<overtaken, blind>>
requests == <<pc, req, view, expired, overtaken>>
vars == <<task, runs, recovered, requests, blind>>

Request == [task : Task, dry : BOOLEAN, force : BOOLEAN]
NoRequest == [task |-> CHOOSE t \in Task : TRUE, dry |-> FALSE, force |-> FALSE]
NoRows == [r \in RunId |-> NoRun]

TypeOK ==
  /\ task \in [Task -> {"enabled", "disabled", "deleted"}]
  /\ runs \in [RunId -> Run]
  /\ recovered \subseteq RunId
  /\ pc \in [Caller -> {"idle", "locking", "deciding", "committing"}]
  /\ req \in [Caller -> Request]
  /\ view \in [Caller -> [RunId -> Run]]
  /\ expired \in [Caller -> SUBSET RunId]
  /\ overtaken \subseteq Caller
  /\ blind \subseteq Rows(runs)

Init ==
  /\ task \in [Task -> {"enabled", "disabled"}]
  /\ runs = NoRows
  /\ recovered = {}
  /\ pc = [c \in Caller |-> "idle"]
  /\ req = [c \in Caller |-> NoRequest]
  /\ view = [c \in Caller |-> NoRows]
  /\ expired = [c \in Caller |-> {}]
  /\ overtaken = {}
  /\ blind = {}

-----------------------------------------------------------------------------
(* POST /tasks/{id}/run and POST /ops/tasks/{id}/run *)

L2 == 2
L4 == 4

\* The role checks, made on the task row as first loaded.
Authorised(role, t, dry, force) ==
  /\ force => role = "admin"
  /\ role # "ops" => dry = DryRun[t]
  /\ CASE role = "admin"  -> TRUE
       [] role = "tool"   -> dry \/ (task[t] = "enabled" /\ Level[t] < L2)
       [] role = "worker" -> dry \/ task[t] = "enabled"
       [] role = "ops"    -> Level[t] # L4 /\ (dry \/ (task[t] = "enabled" /\ Level[t] < L2))

\* A live run that completed inside the dedupe window.
IsRecent(row) == row.status = "completed" /\ row.done \in 0..DedupeWindow

\* What the SELECTs of queue_task_run can tell of a row: its task and age, if it
\* is active, and when it completed if that is recent.
AsRead(row) ==
  [row EXCEPT !.dry = FALSE, !.lease = 0,
              !.status = IF @ = "absent" THEN @
                         ELSE IF IsActive(row) THEN "queued"
                         ELSE IF IsRecent(row) THEN @ ELSE "failed",
              !.done = IF IsRecent(row) THEN @ ELSE NotCompleted]

Seen(tbl) == [r \in RunId |-> AsRead(tbl[r])]

\* session.get(TaskModel, task_id): the first read opens the snapshot.
ReadTask(c, t, dry, force) ==
  /\ pc[c] = "idle"
  /\ task[t] # "deleted"
  /\ \E role \in {"admin", "tool", "worker", "ops"} : Authorised(role, t, dry, force)
  /\ pc' = [pc EXCEPT ![c] = "locking"]
  /\ req' = [req EXCEPT ![c] = [task |-> t, dry |-> dry, force |-> force]]
  /\ view' = IF SnapshotReads THEN [view EXCEPT ![c] = Seen(runs)] ELSE view
  /\ UNCHANGED <<task, runs, recovered, expired, history>>

HoldsLock(c, t) == pc[c] \in {"deciding", "committing"} /\ req[c].task = t
TaskLocked(t) == \E c \in Caller : HoldsLock(c, t)

\* Mutant of LockTask: the task row is read again without FOR UPDATE.
LockTaskWithoutForUpdate(c) ==
  /\ pc[c] = "locking"
  /\ task[req[c].task] # "deleted"
  /\ pc' = [pc EXCEPT ![c] = "deciding"]
  /\ UNCHANGED <<task, runs, recovered, req, view, expired, history>>

\* SELECT ... FOR UPDATE on the task row.
LockTask(c) ==
  /\ pc[c] = "locking"
  /\ task[req[c].task] # "deleted"
  /\ ~TaskLocked(req[c].task)
  /\ pc' = [pc EXCEPT ![c] = "deciding"]
  /\ UNCHANGED <<task, runs, recovered, req, view, expired, history>>

\* Rows the transaction of c reads, after it has marked S stale.
Visible(c, S) ==
  LET seen == IF SnapshotReads
              THEN [r \in RunId |-> IF r \in S THEN runs[r] ELSE view[c][r]]
              ELSE runs
  IN  MarkStale(seen, S)

\* Why queue_task_run declines to insert a run.
Denied(tbl, q) ==
  \/ ActiveRuns(tbl, q.task) # {}
  \/ RateLimited(tbl, q.task)
  \/ ~q.dry /\ ~q.force /\ RecentlyCompleted(tbl, q.task) # {}

EndRequest(c) ==
  /\ pc' = [pc EXCEPT ![c] = "idle"]
  /\ req' = [req EXCEPT ![c] = NoRequest]
  /\ view' = [view EXCEPT ![c] = NoRows]
  /\ expired' = [expired EXCEPT ![c] = {}]

\* History: request c ends without a run.
EndsWithoutRun(c) == overtaken' = overtaken \ {c} /\ UNCHANGED blind

\* History: the requests that c overtakes by committing a run.
Overtakes(c) == {d \in Caller : SnapshotReads /\ pc[d] = "locking" /\ req[d].task = req[c].task}

\* Recover the task's stale runs, then decide.  A denial commits at once,
\* together with the recoveries.  Nothing reads the snapshot afterwards.
Decide(c) ==
  LET stale == ExpiredRuns(runs, req[c].task)
  IN  /\ pc[c] = "deciding"
      /\ IF Denied(Visible(c, stale), req[c])
         THEN /\ runs' = MarkStale(runs, stale)
              /\ recovered' = recovered \cup stale
              /\ EndRequest(c)
              /\ EndsWithoutRun(c)
         ELSE /\ pc' = [pc EXCEPT ![c] = "committing"]
              /\ expired' = [expired EXCEPT ![c] = stale]
              /\ view' = [view EXCEPT ![c] = NoRows]
              /\ UNCHANGED <<runs, recovered, req, history>>
      /\ UNCHANGED task

\* INSERT INTO runs and COMMIT: the recoveries become visible with the row.
CommitRun(c) ==
  /\ pc[c] = "committing"
  /\ \E r \in RunId \ Rows(runs) :
       /\ runs' = [MarkStale(runs, expired[c]) EXCEPT
                     ![r] = QueuedRun(req[c].task, req[c].dry)]
       /\ recovered' = recovered \cup expired[c]
       /\ blind' = IF c \in overtaken THEN blind \cup {r} ELSE blind
  /\ overtaken' = (overtaken \ {c}) \cup Overtakes(c)
  /\ EndRequest(c)
  /\ UNCHANGED task

\* The request dies (process stopped, database error, task row gone): rollback.
Rollback(c) ==
  /\ pc[c] # "idle"
  /\ EndRequest(c)
  /\ EndsWithoutRun(c)
  /\ UNCHANGED <<task, runs, recovered>>

-----------------------------------------------------------------------------
(* The worker's calls *)

\* Rows locked by the uncommitted recovery of a request.
RowLocked(r) == \E c \in Caller : r \in expired[c]

\* POST /runs/{id}/claim
ClaimRun(r) ==
  /\ IsClaimable(runs[r])
  /\ ~RowLocked(r)
  /\ runs' = [runs EXCEPT ![r] = ClaimedRun(@)]
  /\ UNCHANGED <<task, recovered, requests, blind>>

\* PATCH /runs/{id}.  The handler checks nothing.  A worker reports a run it
\* claimed, also after the lease was taken from it; when the answer to a
\* successful report is lost it reports once more, now as failed.
UpdateRun(r, status) ==
  /\ runs[r].status \in RunningStatuses \cup StaleStatuses
                        \cup {"completed", "completed_dry_run"}
  /\ status \in ReportedStatuses(runs[r])
  /\ runs[r].status \in {"completed", "completed_dry_run"} => status = "failed"
  /\ ~RowLocked(r)
  /\ runs' = [runs EXCEPT ![r] = FinishedRun(@, status)]
  /\ UNCHANGED <<task, recovered, requests, blind>>

\* POST /maintenance/stale-runs: the oldest running rows, up to the limit.
RecoverStaleRuns ==
  LET running == {r \in RunId : IsRunning(runs[r])}
  IN  \E examined \in SUBSET running :
        LET stale == {r \in examined : IsExpired(runs[r])}
        IN  /\ Cardinality(examined) <= RecoverLimit
            /\ \A r \in examined, q \in running \ examined :
                 /\ Cardinality(examined) = RecoverLimit
                 /\ runs[r].age >= runs[q].age
            /\ stale # {}
            /\ \A r \in examined : ~RowLocked(r)
            /\ runs' = MarkStale(runs, stale)
            /\ recovered' = recovered \cup stale
            /\ UNCHANGED <<task, requests, blind>>

\* POST /maintenance/retention: completed rows past their retention and
\* disabled temporary tasks go; a run outlives the task it belongs to.
ApplyRetention ==
  /\ \E T \in SUBSET {t \in TempTask : task[t] = "disabled" /\ ~TaskLocked(t)} :
       task' = [t \in Task |-> IF t \in T THEN "deleted" ELSE task[t]]
  /\ runs' = Deleted(runs, OldCompleted(runs))
  /\ recovered' = recovered \ OldCompleted(runs)
  /\ blind' = blind \ OldCompleted(runs)
  /\ UNCHANGED requests

-----------------------------------------------------------------------------
(* The environment *)

\* Governance enables, pauses or drafts a task; it writes the task row.
SetTask(t, state) ==
  /\ task[t] # state
  /\ ~TaskLocked(t)
  /\ task[t] = "deleted" => state = "disabled"
  /\ task' = [task EXCEPT ![t] = state]
  /\ UNCHANGED <<runs, recovered, requests, blind>>

Tick ==
  /\ runs' = Aged(runs)
  /\ view' = [c \in Caller |-> Seen(Aged(view[c]))]
  /\ UNCHANGED <<task, recovered, pc, req, expired, history>>

Next ==
  \/ \E c \in Caller, t \in Task, dry, force \in BOOLEAN : ReadTask(c, t, dry, force)
  \/ \E c \in Caller : LockTask(c) \/ Decide(c) \/ CommitRun(c) \/ Rollback(c)
  \/ \E r \in RunId : ClaimRun(r)
  \/ \E r \in RunId, status \in FinalStatuses : UpdateRun(r, status)
  \/ RecoverStaleRuns
  \/ ApplyRetention
  \/ \E t \in Task, state \in {"enabled", "disabled"} : SetTask(t, state)
  \/ Tick

Spec == Init /\ [][Next]_vars

-----------------------------------------------------------------------------
(* Properties *)

\* A task never has two runs that are queued or running.
AtMostOneActive == \A t \in Task : Cardinality(ActiveRuns(runs, t)) <= 1

\* A task has two runs that are queued or running only through a blind one.
\* Nothing else breaks the promise: the row lock makes the check for an active
\* run and the insert of queue_task_run one unit, whatever else the snapshot
\* misses only makes a request decline, and no claim, late report, recovery or
\* retention brings a finished run back.
OneActiveUnlessBlind == \A t \in Task : Cardinality(ActiveRuns(runs, t) \ blind) <= 1

\* The policy limits hold of the rows themselves, whatever requests raced:
\* any window of a limit holds at most max runs of the task, and two runs of
\* a task are created at least MinGap apart, even though a run is dated when
\* it is inserted and was admitted earlier.  Blind runs come on top.
RunLimitsHeld ==
  \A t \in Task :
    LET sighted == RowsOf(runs, t) \ blind
    IN  /\ \A lim \in RateLimits[t] :
             Cardinality({r \in sighted : runs[r].age <= lim.window}) <= lim.max
        /\ \A r, q \in sighted :
             \/ r = q
             \/ runs[r].age >= runs[q].age + MinGap[t]
             \/ runs[q].age >= runs[r].age + MinGap[t]
             \/ Horizon \in {runs[r].age, runs[q].age}

\* When a live run is inserted that nobody forced, by a request that was not
\* overtaken, no live run of its task completed inside the dedupe window, even
\* after the snapshot was taken, except one whose lease had been taken away:
\* such a run may be reported completed after the decision was made.
NoRepeatWithinWindow ==
  [][\A c \in Caller \ overtaken :
       (pc[c] = "committing" /\ runs' # runs /\ pc'[c] = "idle"
        /\ ~req[c].dry /\ ~req[c].force /\ DedupeWindow > 0)
       => \A r \in RowsOf(runs, req[c].task) : IsRecent(runs[r]) => r \in recovered]_vars

\* Without the blind runs the queue implements one slot per task (RunSlots):
\* runs enter a slot only when it has no queued run, are taken by one claim,
\* and leave it for good.
Waiting == [t \in Task |-> {r \in RunId \ blind : runs[r].task = t /\ IsClaimable(runs[r])}]
Executing == [t \in Task |-> {r \in RunId \ blind : runs[r].task = t /\ IsRunning(runs[r])}]
Slots == INSTANCE RunSlots WITH waiting <- Waiting, executing <- Executing
ImplementsRunSlots == Slots!Spec
=============================================================================
