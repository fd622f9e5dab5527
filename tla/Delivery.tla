------------------------------ MODULE Delivery ------------------------------
(***************************************************************************)
(* How the runs of one task end and who hears of it: execute_task of       *)
(* automation-worker/worker/main.py from the handler's result to the       *)
(* report, the notification decision and the collapsing of repeated        *)
(* failures, which reads the run table back, against the Discord service   *)
(* of the API.  Each HTTP call is one step.                                *)
(*                                                                         *)
(* The worker executes one run at a time; a crash leaves its run running   *)
(* until it is recovered as stale, which may also happen to a handler that *)
(* outlives its lease.  Time passes between runs and inside handlers only: *)
(* the calls after a handler take seconds, the collapse window hours.      *)
(***************************************************************************)
EXTENDS Handlers

CONSTANTS
  Tasks,           \* task configurations: type, output, notification preferences
  Brief,           \* the digest part of a topic_digest task
  RegistryFiles, Webs, HookAnswers,  \* what a digest and a webhook may find
  Checks, HealthAnswers, Printers, PrinterAnswers,
  BackupRules, BackupSets,
  Window,          \* failure_collapse_window_minutes, in ticks
  RecentLimit,     \* runs has_recent_failure looks at (10 in the code)
  MaxRuns,         \* bound on runs
  MaxDeliveryFaults

ASSUME DeliveryAssumption ==
  /\ Window \in Nat /\ RecentLimit \in Nat \ {0} /\ MaxRuns \in Nat /\ MaxDeliveryFaults \in Nat

\* What a digest reads: sequences of sources, rows and entries, and an answer
\* for every address that is fetched.
ASSUME DigestInputAssumption ==
  /\ Brief.sources \in Seq(Range(Brief.sources)) /\ Brief.maxItems \in Nat /\ Brief.minSources \in Nat
  /\ \A files \in RegistryFiles :
       /\ files.own \in Seq(Range(files.own)) /\ files.table \in Seq(Range(files.table))
       /\ \A row \in Range(files.own) : row.max \in Nat
       /\ \A row \in Range(RegistryRows(files)), web \in Webs : Fetched(row) => row.target \in DOMAIN web
  /\ \A web \in Webs : \A target \in DOMAIN web : web[target].entries \in Seq(Range(web[target].entries))

VARIABLES
  config,   \* the task's configuration
  rows,     \* its runs, in the order of their creation
  step,     \* where the worker is in execute_task
  ending,   \* what it knows of the run it executes, the last row
  found,    \* what the handler found, until the next step
  breaks    \* faults so far

deliveryVars == <<config, rows, step, ending, found, breaks>>

TaskTypes == {"topic_digest", "server_health", "printer_supply_status", "backup_verification",
              "n8n_webhook", "other"}
Oldest == 2 * Window + 1

\* alerted, tried, disturbed are history: a failure message was delivered, a
\* delivery was attempted, something broke while the run was executed.
Row == [live : BOOLEAN, status : {"running", "finished", "stale"}, failed : BOOLEAN,
        age : 0..Oldest, alerted : BOOLEAN, tried : BOOLEAN, disturbed : BOOLEAN]
NewRow(live) == [live |-> live, status |-> "running", failed |-> FALSE, age |-> 0,
                 alerted |-> FALSE, tried |-> FALSE, disturbed |-> FALSE]

DeliverySteps == {"idle", "executing", "deciding", "sending", "deciding alert", "sending alert",
          "reporting", "deciding failure", "sending failure", "reporting failure"}

\* refused: the primary message was to be sent and the call failed.
NoEnding == [result |-> Unsupported, refused |-> FALSE]
NoOutcome == [digested |-> FALSE]

DeliveryTypeOK ==
  /\ config \in Tasks
  /\ rows \in Seq(Row)
  /\ step \in DeliverySteps
  /\ ending \in [result : Result, refused : BOOLEAN]
  /\ breaks \in 0..MaxDeliveryFaults

DeliveryInit ==
  /\ config \in Tasks
  /\ rows = <<>>
  /\ step = "idle"
  /\ ending = NoEnding
  /\ found = NoOutcome
  /\ breaks = 0

-----------------------------------------------------------------------------
(* Results *)

DigestOutcomes(live) ==
  UNION {LET registry == SourceRegistry(RegistryRows(files))
             digest   == RunTopicDigest(Brief, registry, web)
         IN  {[found |-> [digested |-> TRUE, registry |-> registry, digest |-> digest],
               result |-> TopicDigestResult(Brief, digest, live, answer)] : answer \in HookAnswers}
         : files \in RegistryFiles, web \in Webs}

PlainOutcomes(results) == {[found |-> NoOutcome, result |-> r] : r \in results}

\* What execute_task may get for a task of a type.
Outcomes(live) ==
  CASE config.type = "topic_digest" -> DigestOutcomes(live)
    [] config.type = "server_health" ->
         PlainOutcomes({RunServerHealth(Checks, a, config.anomalyOnly) : a \in HealthAnswers})
    [] config.type = "printer_supply_status" ->
         PlainOutcomes({RunPrinterSupplyStatus(Printers, a, config.anomalyOnly) : a \in PrinterAnswers})
    [] config.type = "backup_verification" ->
         PlainOutcomes({RunBackupVerification(b, s) : b \in BackupRules, s \in BackupSets})
    [] config.type = "n8n_webhook" ->
         PlainOutcomes({RunN8nWebhook(Brief.hook, live, a) : a \in HookAnswers})
    [] OTHER -> PlainOutcomes({Unsupported})

-----------------------------------------------------------------------------
(* The notification decision *)

Current == Len(rows)
IsLive == rows[Current].live

\* Mutant of HasRecentFailure: the window is not looked at.
HasAnyFailure ==
  \E n \in DOMAIN rows : n > Len(rows) - RecentLimit /\ n # Current /\ rows[n].failed

\* has_recent_failure over GET /runs?limit=RecentLimit, which lists the
\* current run too: a failure recorded within the window.
HasRecentFailure ==
  \E n \in DOMAIN rows : /\ n > Len(rows) - RecentLimit
                         /\ n # Current
                         /\ rows[n].status # "running"
                         /\ rows[n].age <= Window
                         /\ rows[n].failed

\* Preferences that need no look at other runs; quiet tells whether the quiet
\* hours are on now.
Wanted(result, class, quiet) ==
  /\ result.notify \/ class = "failure"
  /\ CASE class = "failure" -> config.onFailure
       [] class = "empty"   -> config.onEmpty /\ ~quiet
       [] class = "success" -> config.onSuccess /\ ~quiet

\* notification_decision; when list_runs fails nothing is collapsed.
Decisions(result, class, listed) ==
  {/\ Wanted(result, class, quiet)
   /\ ~(class = "failure" /\ config.collapse /\ listed /\ HasRecentFailure)
   : quiet \in IF config.quiet THEN BOOLEAN ELSE {FALSE}}

-----------------------------------------------------------------------------
(* Steps *)

Break == /\ breaks < MaxDeliveryFaults
         /\ breaks' = breaks + 1

Disturb(row) == [row EXCEPT !.disturbed = TRUE]

MoveTo(next) == /\ step' = next
                /\ found' = NoOutcome

\* A run is queued and claimed, when no run of the task is active.
BeginRun ==
  /\ step = "idle"
  /\ Len(rows) < MaxRuns
  /\ \A n \in DOMAIN rows : rows[n].status # "running"
  /\ \E live \in BOOLEAN : rows' = Append(rows, NewRow(live))
  /\ MoveTo("executing")
  /\ ending' = NoEnding
  /\ UNCHANGED <<config, breaks>>

\* Where execute_task goes when the primary message is settled.
AfterPrimary(result) ==
  IF config.type = "topic_digest" /\ result.alert THEN "deciding alert" ELSE "reporting"

\* The handler ends.
RunHandler ==
  /\ step = "executing"
  /\ \E outcome \in Outcomes(IsLive) :
       /\ ending' = [NoEnding EXCEPT !.result = outcome.result]
       /\ found' = outcome.found
       /\ step' = CASE outcome.result.status = "raised" -> "deciding failure"
                    [] outcome.result.status # "raised" /\ config.discord
                         /\ outcome.result.status # "skipped" -> "deciding"
                    [] OTHER -> AfterPrimary(outcome.result)
  /\ UNCHANGED <<config, rows, breaks>>

\* A decision with the run table read, or not: that failure is swallowed.
Look(class, listed) ==
  \/ /\ listed
     /\ UNCHANGED <<rows, breaks>>
  \/ /\ ~listed
     /\ class = "failure" /\ config.collapse
     /\ Break
     /\ rows' = [rows EXCEPT ![Current] = Disturb(@)]

DecidePrimary ==
  /\ step = "deciding"
  /\ \E listed \in BOOLEAN :
       /\ Look(ClassifyResult(ending.result), listed)
       /\ \E send \in Decisions(ending.result, ClassifyResult(ending.result), listed) :
            MoveTo(IF send THEN "sending" ELSE AfterPrimary(ending.result))
  /\ UNCHANGED <<config, ending>>

\* POST /notifications/discord/send.  The message is posted in chunks, through
\* a webhook or the bot; it counts as delivered when every chunk was, and as
\* refused when there is no transport or one fails, whatever was posted before.
\* The worker names the mode itself, so a dry run posts nothing and a live run
\* posts also where the API is set to dry runs.
Sendings == IF IsLive THEN {"delivered", "refused"} ELSE {"previewed", "refused"}

Attempted(how, isAlert) ==
  rows' = [rows EXCEPT ![Current].tried = @ \/ IsLive,
                       ![Current].alerted = @ \/ (how = "delivered" /\ isAlert)]

\* apply_digest_delivery_quality after an attempt.
WithDelivery(result, how) ==
  IF config.type = "topic_digest" /\ IsLive /\ config.alertOnDelivery /\ how # "delivered"
  THEN [result EXCEPT !.quality = "failed", !.alert = TRUE]
  ELSE result

SendPrimary ==
  /\ step = "sending"
  /\ \E how \in Sendings :
       /\ Attempted(how, Fails(ending.result))
       /\ LET result == WithDelivery(ending.result, how)
          IN  /\ ending' = [result |-> result, refused |-> how = "refused"]
              /\ MoveTo(AfterPrimary(result))
  /\ UNCHANGED <<config, breaks>>

\* maybe_send_digest_quality_alert: a decision of its own, to its own target.
DecideAlert ==
  /\ step = "deciding alert"
  /\ \E listed \in BOOLEAN :
       /\ Look("failure", listed)
       /\ \E send \in Decisions(ending.result, "failure", listed) :
            MoveTo(IF send THEN "sending alert" ELSE "reporting")
  /\ UNCHANGED <<config, ending>>

SendAlert ==
  /\ step = "sending alert"
  /\ \E how \in Sendings : Attempted(how, TRUE)
  /\ MoveTo("reporting")
  /\ UNCHANGED <<config, ending, breaks>>

\* A row reported finished; failed is what previous_run_failed will say of it.
Finished(row, failed) == [row EXCEPT !.status = "finished", !.failed = failed, !.age = 0]

\* Mutant of FinalFailed: only the final status counts.
FailedByStatus(result, refused) == IsLive /\ (refused \/ result.quality = "failed")

FinalFailed(result, refused) == (IsLive /\ (refused \/ result.quality = "failed")) \/ Fails(result)

ReportRun ==
  /\ step = "reporting"
  /\ rows' = [rows EXCEPT ![Current] = Finished(@, FinalFailed(ending.result, ending.refused))]
  /\ MoveTo("idle")
  /\ ending' = NoEnding
  /\ UNCHANGED <<config, breaks>>

\* complete_run fails, before or after the API committed: the except branch.
LoseRunReport ==
  /\ step = "reporting"
  /\ Break
  /\ \E row \in {rows[Current], Finished(rows[Current], FinalFailed(ending.result, ending.refused))} :
       rows' = [rows EXCEPT ![Current] = Disturb(row)]
  /\ MoveTo("deciding failure")
  /\ ending' = [ending EXCEPT !.result = Raised]
  /\ UNCHANGED config

DecideFailure ==
  /\ step = "deciding failure"
  /\ \E listed \in BOOLEAN :
       /\ config.discord \/ listed
       /\ Look("failure", listed)
       /\ \E send \in Decisions(Raised, "failure", listed) :
            MoveTo(IF config.discord /\ send THEN "sending failure" ELSE "reporting failure")
  /\ UNCHANGED <<config, ending>>

SendFailure ==
  /\ step = "sending failure"
  /\ \E how \in Sendings : Attempted(how, TRUE)
  /\ MoveTo("reporting failure")
  /\ UNCHANGED <<config, ending, breaks>>

ReportRunFailure ==
  /\ step = "reporting failure"
  /\ rows' = [rows EXCEPT ![Current] = Finished(@, TRUE)]
  /\ MoveTo("idle")
  /\ ending' = NoEnding
  /\ UNCHANGED <<config, breaks>>

\* The process dies, or the last report fails too: the run stays as it is.
CrashRun ==
  /\ step # "idle"
  /\ Break
  /\ rows' = [rows EXCEPT ![Current] = Disturb(@)]
  /\ MoveTo("idle")
  /\ ending' = NoEnding
  /\ UNCHANGED config

\* recover_stale_runs: failed_stale is not a status has_recent_failure counts.
RecoverRun ==
  /\ step \in {"idle", "executing"}
  /\ rows # <<>>
  /\ rows[Current].status = "running"
  /\ rows' = [rows EXCEPT ![Current] = [Disturb(@) EXCEPT !.status = "stale", !.age = 0]]
  /\ UNCHANGED <<config, step, ending, found, breaks>>

TimePasses ==
  /\ step \in {"idle", "executing"}
  /\ rows' = [n \in DOMAIN rows |->
                IF rows[n].status = "running" THEN rows[n]
                ELSE [rows[n] EXCEPT !.age = LowerOf(@ + 1, Oldest)]]
  /\ UNCHANGED <<config, step, ending, found, breaks>>

DeliveryNext ==
  \/ BeginRun \/ RunHandler
  \/ DecidePrimary \/ SendPrimary \/ DecideAlert \/ SendAlert \/ ReportRun \/ LoseRunReport
  \/ DecideFailure \/ SendFailure \/ ReportRunFailure
  \/ CrashRun \/ RecoverRun \/ TimePasses

DeliverySpec == DeliveryInit /\ [][DeliveryNext]_deliveryVars

-----------------------------------------------------------------------------
(* Properties *)

\* With collapsing on, a failure message of a run that nothing disturbed is
\* not followed within the window by one of another such run, unless so many
\* runs lie between them that the first is not looked at any more: every way
\* to announce a failure also leaves a record the next decision recognises.
AlertsCollapsed ==
  \A m, n \in DOMAIN rows :
    /\ m < n /\ n - m < RecentLimit
    /\ config.collapse
    /\ \A k \in {m, n} : rows[k].alerted /\ rows[k].status = "finished" /\ ~rows[k].disturbed
    => rows[m].age > rows[n].age + Window \/ rows[m].age = Oldest

\* A failed live run of which nobody was told is explained: the task does not
\* want such messages, or a failure was on record within the window.
SilentOnlyAfterFailure ==
  \A n \in DOMAIN rows :
    rows[n].live /\ rows[n].status = "finished" /\ rows[n].failed /\ ~rows[n].tried
      => \/ ~config.onFailure
         \/ ~config.discord
         \/ /\ config.collapse
            /\ \E m \in 1..n - 1 : rows[m].failed /\ rows[m].age <= rows[n].age + Window

\* What a brief says of itself: it holds approved items only, each once, shows
\* none in two sections, and complains of its sources with a cause.
DigestSound ==
  found.digested =>
    /\ OnlyApprovedItems(Brief, found.registry, found.digest)
    /\ SectionsDisjoint(found.digest)
    /\ SourceAlarmHasCause(Brief, found.digest)
=============================================================================
