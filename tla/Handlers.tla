------------------------------ MODULE Handlers ------------------------------
(***************************************************************************)
(* The other handlers of the worker (worker/handlers/) as functions of     *)
(* what they find, and what every handler's result means to the loop that  *)
(* called it.  A result keeps the fields that classify_result, the         *)
(* notification decision and the final status look at:                     *)
(*   status    the result's status, "raised" for an exception              *)
(*   failed    failed_count > 0                                            *)
(*   items     "none" (no such field), "empty" or "some"                   *)
(*   errors    errors is not empty                                         *)
(*   notify    FALSE when the handler asks for silence                     *)
(*   quality   "none", "ok", "degraded" or "failed"                        *)
(*   alert     quality.alert_needed                                        *)
(***************************************************************************)
EXTENDS Digest

PlainResult(status, failed, notify) ==
  [status |-> status, failed |-> failed, items |-> "none", errors |-> FALSE,
   notify |-> notify, quality |-> "none", alert |-> FALSE]

Raised == PlainResult("raised", TRUE, TRUE)
Unsupported == PlainResult("skipped", FALSE, TRUE)

Result ==
  [status : {"ok", "degraded", "ready", "dry_run", "skipped", "raised"}, failed : BOOLEAN,
   items : {"none", "empty", "some"}, errors : BOOLEAN, notify : BOOLEAN,
   quality : {"none", "ok", "degraded", "failed"}, alert : BOOLEAN]

\* Mutant of CheckedResult: anomalies get a status classify_result does not know.
AnomalousResult(anomalies, anomalyOnly) ==
  PlainResult(IF anomalies = {} THEN "ok" ELSE "anomalous", FALSE, anomalies # {} \/ ~anomalyOnly)

\* A handler that checks things: it is silent about good news when the output
\* is for anomalies only.
CheckedResult(anomalies, anomalyOnly) ==
  PlainResult(IF anomalies = {} THEN "ok" ELSE "degraded", anomalies # {},
              anomalies # {} \/ ~anomalyOnly)

-----------------------------------------------------------------------------
(* server_health *)

\* check_http.  answer is [arrived, status, body]; body is "good", "bad" or
\* "unreadable" (not JSON, or not of the expected shape).  An unreadable body
\* raises after ok was set from the status, and ok stays as it was.
CheckOk(check, answer) ==
  /\ answer.arrived
  /\ IF check.expected # 0 THEN answer.status = check.expected
     ELSE 200 <= answer.status /\ answer.status < 400
  /\ check.type \in {"worker_heartbeat", "ollama_tags", "service_metrics"}
       => answer.body \in {"good", "unreadable"}

RunServerHealth(checks, answers, anomalyOnly) ==
  CheckedResult({c \in checks : ~CheckOk(c, answers[c.name])}, anomalyOnly)

-----------------------------------------------------------------------------
(* printer_supply_status *)

Unknown == -1

RoundedTenths(n) ==
  LET whole == n \div 10
  IN  IF n % 10 = 5 THEN whole + (whole % 2) ELSE (n + 5) \div 10

\* coerce_percent of a level given in tenths: a fraction below one is taken
\* for a share and multiplied by 100; halves round to even.
CoercePercent(tenths) ==
  LET n == IF 0 < tenths /\ tenths < 10 THEN tenths * 100 ELSE tenths
  IN  IF n < 0 \/ n > 1000 THEN Unknown ELSE RoundedTenths(n)

\* check_printer_supply over the set of levels that the printer reports.
PrinterOk(printer, answer) ==
  LET percents == {CoercePercent(level) : level \in answer.levels}
  IN  /\ answer.arrived
      /\ answer.status = printer.expected
      /\ answer.levels # {}
      /\ \A p \in percents : p # Unknown /\ p > printer.threshold

RunPrinterSupplyStatus(printers, answers, anomalyOnly) ==
  CheckedResult({p \in printers : ~PrinterOk(p, answers[p.name])}, anomalyOnly)

-----------------------------------------------------------------------------
(* backup_verification *)

\* _list_backup_dirs: the newest directory is looked at, also when its backup
\* is still being written and has no manifest yet.
LatestBackup(backups) == CHOOSE b \in backups : \A c \in backups : b.age <= c.age

\* _load_manifest, _backup_age_hours, _restore_dry_run_checks and _secret_scan.
\* manifest is "missing", "flagged" (it admits to secrets) or "clean"; dump is
\* "missing", "unreadable", "small", "headless" or "good".
BackupAnomalies(backup, b) ==
  {check \in {"manifest", "backup_age", "required_files", "mysql_dump", "git_commit", "secret_scan"} :
     CASE check = "manifest"       -> b.manifest # "clean"
       [] check = "backup_age"     -> b.age > backup.maxAge
       [] check = "required_files" -> ~b.complete
       [] check = "mysql_dump"     -> b.dump # "good"
       [] check = "git_commit"     -> b.manifest = "missing" \/ ~b.commit
       [] check = "secret_scan"    -> backup.scan /\ b.secrets}

\* _result: the good news of a backup are never told.
BackupResult(anomalies) == CheckedResult(anomalies, TRUE)

RunBackupVerification(backup, backups) ==
  BackupResult(CASE ~backup.inside                -> {"backup_root"}
                 [] backup.inside /\ backups = {} -> {"backup_inventory"}
                 [] OTHER -> BackupAnomalies(backup, LatestBackup(backups)))

-----------------------------------------------------------------------------
(* n8n_webhook, by itself and after a digest *)

\* Whether run_n8n_webhook raises; a dry run calls nobody.
WebhookRaises(hook, live, answer) ==
  \/ ~hook.named
  \/ live /\ (~hook.secret \/ ~answer.arrived \/ answer.status \notin 200..299)

RunN8nWebhook(hook, live, answer) ==
  IF WebhookRaises(hook, live, answer) THEN Raised
  ELSE PlainResult(IF live THEN "ready" ELSE "dry_run", FALSE, FALSE)

\* run_topic_digest and maybe_run_topic_digest_n8n as execute_task sees them.
TopicDigestResult(brief, digest, live, hookAnswer) ==
  IF digest.raised \/ (brief.hook.used /\ WebhookRaises(brief.hook, live, hookAnswer))
  THEN Raised
  ELSE [status  |-> IF live THEN "ready" ELSE "dry_run",
        failed  |-> FALSE,
        items   |-> IF digest.items = <<>> THEN "empty" ELSE "some",
        errors  |-> digest.errors,
        notify  |-> TRUE,
        quality |-> IF digest.degraded THEN "degraded" ELSE "ok",
        alert   |-> digest.degraded]

-----------------------------------------------------------------------------
\* The conditions of classify_result for a failure.
Fails(result) ==
  \/ result.quality \in {"degraded", "failed"}
  \/ result.status = "degraded"
  \/ result.failed
  \/ result.errors /\ result.items # "some"

ClassifyResult(result) ==
  IF Fails(result) THEN "failure" ELSE IF result.items = "empty" THEN "empty" ELSE "success"
=============================================================================
