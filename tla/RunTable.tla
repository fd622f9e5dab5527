------------------------------ MODULE RunTable ------------------------------
(***************************************************************************)
(* The rows of table "runs" (automation-api/app/models.py, RunModel) and   *)
(* what the handlers compute from them: which rows are active, stale or    *)
(* recent, which limits a new run would break, and the row each handler    *)
(* leaves behind.  No variables: RunQueue and Worker apply these operators *)
(* to the committed table or to a transaction's view of it.                *)
(*                                                                         *)
(* Timestamps are kept as ages.  Every test the code makes on a timestamp  *)
(* compares now - timestamp (or expires_at - now) with a configured span,  *)
(* so a row stores how long ago it was created and completed, in ticks,    *)
(* capped at Horizon, which exceeds every span, and how much of its lease  *)
(* is left.  Time can then advance without a bound.                        *)
(***************************************************************************)
EXTENDS Integers, FiniteSets

CONSTANTS
  Task,             \* task ids
  RunId,            \* primary keys of runs; a deleted row's key may be reused
  Level,            \* Level[t]: approval level of t, 0..4 (L0 .. L4)
  DryRun,           \* DryRun[t]: runtime.dry_run of t's config
  MinGap,           \* MinGap[t]: policy.min_seconds_between_runs
  RateLimits,       \* RateLimits[t]: the set of [window, max] of its policy
  DedupeWindow,     \* settings.run_dedupe_seconds
  ConfiguredLease,  \* settings.run_lease_seconds
  Timeout,          \* Timeout[t]: runtime.timeout_seconds
  LeaseMargin,      \* the 60 seconds a lease outlives the timeout by
  RunRetention,     \* settings.run_retention_days
  Horizon           \* ages are capped here

ASSUME RunTableAssumption ==
  /\ Task # {}
  /\ Level \in [Task -> 0..4]
  /\ DryRun \in [Task -> BOOLEAN]
  /\ MinGap \in [Task -> Nat]
  /\ \A t \in Task : RateLimits[t] \in SUBSET [window : Nat, max : Nat \ {0}]
  /\ DedupeWindow \in Nat
  /\ ConfiguredLease \in Nat \ {0}
  /\ Timeout \in [Task -> Nat]
  /\ LeaseMargin \in Nat
  /\ RunRetention \in Nat
  /\ Horizon \in Nat
  /\ Horizon > DedupeWindow
  /\ Horizon > RunRetention
  /\ \A t \in Task : /\ Horizon >= MinGap[t]
                     /\ \A lim \in RateLimits[t] : Horizon > lim.window

-----------------------------------------------------------------------------
(* Rows *)

ClaimableStatuses == {"queued", "queued_dry_run"}
RunningStatuses == {"running", "running_dry_run"}
ActiveStatuses == ClaimableStatuses \cup RunningStatuses
StaleStatuses == {"failed_stale", "failed_stale_dry_run"}
FinalStatuses == {"completed", "completed_dry_run", "failed", "skipped_disabled"}
                 \cup StaleStatuses

NotCompleted == -1                     \* completed_at IS NULL

LeaseSeconds(t) ==
  IF ConfiguredLease >= Timeout[t] + LeaseMargin
  THEN ConfiguredLease ELSE Timeout[t] + LeaseMargin

Run == [task   : Task,
        dry    : BOOLEAN,              \* which of the paired statuses it uses
        status : ActiveStatuses \cup FinalStatuses \cup {"absent"},
        age    : 0..Horizon,           \* now - created_at
        done   : -1..Horizon,          \* now - completed_at, or NotCompleted
        lease  : Nat]                  \* lease.expires_at - now

Rows(tbl) == {r \in RunId : tbl[r].status # "absent"}
RowsOf(tbl, t) == {r \in Rows(tbl) : tbl[r].task = t}

-----------------------------------------------------------------------------
(* What the handlers read *)

IsActive(row) == row.status \in ActiveStatuses /\ row.done = NotCompleted
IsClaimable(row) == row.status \in ClaimableStatuses /\ row.done = NotCompleted
IsRunning(row) == row.status \in RunningStatuses /\ row.done = NotCompleted

\* Mutant of IsExpired: recovery no longer asks for a running status.
HasNoLease(row) == IsActive(row) /\ ~(row.lease > 0)

\* Mutant of IsExpired: dry runs are never stale.
IsExpiredLive(row) == row.status = "running" /\ row.done = NotCompleted /\ ~(row.lease > 0)

\* The lease has run out: recovery skips a row while expires_at > now.
IsExpired(row) == IsRunning(row) /\ ~(row.lease > 0)

ActiveRuns(tbl, t) == {r \in RowsOf(tbl, t) : IsActive(tbl[r])}
ExpiredRuns(tbl, t) == {r \in RowsOf(tbl, t) : IsExpired(tbl[r])}

\* Mutant of RateLimited: one run too many passes each limit.
RateExceeded(tbl, t) ==
  \/ \E r \in RowsOf(tbl, t) : tbl[r].age < MinGap[t]
  \/ \E lim \in RateLimits[t] :
       Cardinality({r \in RowsOf(tbl, t) : tbl[r].age <= lim.window}) > lim.max

\* policy limits on how often t may be queued, over rows of every status
RateLimited(tbl, t) ==
  \/ \E r \in RowsOf(tbl, t) : tbl[r].age < MinGap[t]
  \/ \E lim \in RateLimits[t] :
       Cardinality({r \in RowsOf(tbl, t) : tbl[r].age <= lim.window}) >= lim.max

\* Mutant of RecentlyCompleted: the run that completed exactly at the cutoff
\* is left out.
CompletedAfterCutoff(tbl, t) ==
  {r \in RowsOf(tbl, t) : /\ DedupeWindow > 0
                          /\ tbl[r].status = "completed"
                          /\ tbl[r].done # NotCompleted
                          /\ tbl[r].done < DedupeWindow}

\* live runs of t that completed inside the dedupe window
RecentlyCompleted(tbl, t) ==
  {r \in RowsOf(tbl, t) : /\ DedupeWindow > 0
                          /\ tbl[r].status = "completed"
                          /\ tbl[r].done # NotCompleted
                          /\ tbl[r].done <= DedupeWindow}

-----------------------------------------------------------------------------
(* What the handlers write *)

QueuedRun(t, dry) ==
  [task |-> t, dry |-> dry, status |-> IF dry THEN "queued_dry_run" ELSE "queued",
   age |-> 0, done |-> NotCompleted, lease |-> 0]

\* Mutant of ClaimedRun: a status outside the sets the service compares with.
MarkedClaimed(row) == [row EXCEPT !.status = "claimed", !.lease = LeaseSeconds(row.task)]

ClaimedRun(row) ==
  [row EXCEPT !.status = IF row.dry THEN "running_dry_run" ELSE "running",
              !.lease = LeaseSeconds(row.task)]

\* PATCH /runs/{id}: status and completed_at are overwritten, whatever they were.
FinishedRun(row, status) == [row EXCEPT !.status = status, !.done = 0, !.lease = 0]

MarkStale(tbl, S) ==
  [r \in RunId |->
     IF r \in S
     THEN FinishedRun(tbl[r], IF tbl[r].status = "running_dry_run"
                              THEN "failed_stale_dry_run" ELSE "failed_stale")
     ELSE tbl[r]]

\* What a worker reports for a run it has claimed.
ReportedStatuses(row) ==
  IF row.dry THEN {"completed_dry_run", "failed"}
             ELSE {"completed", "failed", "skipped_disabled"}

OldCompleted(tbl) == {r \in Rows(tbl) : tbl[r].done # NotCompleted /\ tbl[r].done > RunRetention}

\* Free keys hold a fixed row, so that equal tables are equal values.
NoRun == [task |-> CHOOSE t \in Task : TRUE, dry |-> FALSE, status |-> "absent",
          age |-> 0, done |-> NotCompleted, lease |-> 0]

Deleted(tbl, S) == [r \in RunId |-> IF r \in S THEN NoRun ELSE tbl[r]]

Older(age) == IF age = NotCompleted \/ age = Horizon THEN age ELSE age + 1

Remaining(lease) == IF lease > 0 THEN lease - 1 ELSE 0

\* One tick passes.
Aged(tbl) ==
  [r \in RunId |->
     IF tbl[r].status = "absent" THEN tbl[r]
     ELSE [tbl[r] EXCEPT !.age = Older(@), !.done = Older(@),
                         !.lease = Remaining(@)]]
=============================================================================
