--------------------------- MODULE DeliveryProofs ---------------------------
(***************************************************************************)
(* Proofs about Delivery for any tasks, sources, answers, windows, numbers *)
(* of runs and faults.                                                     *)
(*                                                                         *)
(* Every handler's result is Proper.  From there two invariants follow the *)
(* executed run through the calls after its handler: while its failure is  *)
(* not announced there is a reason on record (SilenceInv), and while it is *)
(* announced no recent failure is on record and it will be reported as one *)
(* (AlertInv).                                                             *)
(*                                                                         *)
(* A digest is made in loops.  A loop is a function of the number of turns *)
(* taken; that it exists (LoopEnds) and that it keeps what each turn keeps *)
(* (LoopKeeps) both follow from a least counterexample.  What               *)
(* collect_items keeps is Collected: approved items, no story twice, and a *)
(* status of every source so far unless the brief is full.                 *)
(***************************************************************************)
EXTENDS Delivery, FiniteSetTheorems, SequenceTheorems, TLAPS

-----------------------------------------------------------------------------
(* Results *)

\* What a handler may return: a result whose alarm is a failure, and which is
\* not a failure when it says that nothing was done.
Proper(result) ==
  /\ result \in Result
  /\ result.alert => Fails(result)
  /\ result.status = "skipped" => ~Fails(result)

LEMMA PlainIsProper ==
  ASSUME NEW status \in {"ok", "degraded", "ready", "dry_run", "raised"},
         NEW failed \in BOOLEAN, NEW notify \in BOOLEAN
  PROVE  Proper(PlainResult(status, failed, notify))
  BY DEF PlainResult, Proper, Result

LEMMA CheckedIsProper ==
  ASSUME NEW anomalies, NEW anomalyOnly PROVE Proper(CheckedResult(anomalies, anomalyOnly))
  <1>1. CASE anomalies = {}
    <2>1. CheckedResult(anomalies, anomalyOnly) = PlainResult("ok", FALSE, ~anomalyOnly)
      BY <1>1 DEF CheckedResult, PlainResult
    <2> QED
      BY <2>1, PlainIsProper
  <1>2. CASE anomalies # {}
    <2>1. CheckedResult(anomalies, anomalyOnly) = PlainResult("degraded", TRUE, TRUE)
      BY <1>2 DEF CheckedResult, PlainResult
    <2> QED
      BY <2>1, PlainIsProper
  <1> QED
    BY <1>1, <1>2

LEMMA RaisedIsProper == Proper(Raised) /\ Proper(Unsupported) /\ Fails(Raised)
  <1>1. Fails(Raised)
    BY DEF Fails, Raised, PlainResult
  <1>2. ~Fails(Unsupported)
    BY DEF Fails, Unsupported, PlainResult
  <1>3. Raised \in Result /\ Unsupported \in Result /\ Raised.status # "skipped"
        /\ ~Unsupported.alert
    BY DEF Raised, Unsupported, PlainResult, Result
  <1> QED
    BY <1>1, <1>2, <1>3 DEF Proper

LEMMA WebhookIsProper ==
  ASSUME NEW hook, NEW live, NEW answer PROVE Proper(RunN8nWebhook(hook, live, answer))
  <1>1. CASE WebhookRaises(hook, live, answer)
    BY <1>1, RaisedIsProper DEF RunN8nWebhook
  <1>2. CASE ~WebhookRaises(hook, live, answer)
    <2>1. PICK status \in {"ready", "dry_run"} :
            RunN8nWebhook(hook, live, answer) = PlainResult(status, FALSE, FALSE)
      BY <1>2 DEF RunN8nWebhook
    <2> QED
      BY <2>1, PlainIsProper
  <1> QED
    BY <1>1, <1>2

LEMMA DigestIsProper ==
  ASSUME NEW brief, NEW registry, NEW web, NEW live, NEW answer
  PROVE  Proper(TopicDigestResult(brief, RunTopicDigest(brief, registry, web), live, answer))
  <1> DEFINE digest == RunTopicDigest(brief, registry, web)
             result == TopicDigestResult(brief, digest, live, answer)
  <1>1. digest.errors \in BOOLEAN /\ digest.degraded \in BOOLEAN
    BY DEF RunTopicDigest
  <1>2. CASE digest.raised \/ (brief.hook.used /\ WebhookRaises(brief.hook, live, answer))
    <2>1. result = Raised
      BY <1>2 DEF TopicDigestResult
    <2> QED
      BY <2>1, RaisedIsProper
  <1>3. CASE ~(digest.raised \/ (brief.hook.used /\ WebhookRaises(brief.hook, live, answer)))
    <2>1. result = [status  |-> IF live THEN "ready" ELSE "dry_run",
                    failed  |-> FALSE,
                    items   |-> IF digest.items = <<>> THEN "empty" ELSE "some",
                    errors  |-> digest.errors,
                    notify  |-> TRUE,
                    quality |-> IF digest.degraded THEN "degraded" ELSE "ok",
                    alert   |-> digest.degraded]
      BY <1>3 DEF TopicDigestResult
    <2>2. result \in Result
      <3> HIDE DEF digest, result
      <3> QED
        BY <1>1, <2>1 DEF Result
    <2>3. result.alert => Fails(result)
      <3> HIDE DEF digest, result
      <3> QED
        BY <2>1 DEF Fails
    <2>4. result.status # "skipped"
      <3> HIDE DEF digest, result
      <3> QED
        BY <2>1
    <2> QED
      BY <2>2, <2>3, <2>4 DEF Proper
  <1> QED
    BY <1>2, <1>3

LEMMA OutcomesAreProper ==
  ASSUME NEW live, NEW outcome \in Outcomes(live) PROVE Proper(outcome.result)
  <1>1. CASE config.type = "topic_digest"
    <2>1. outcome \in DigestOutcomes(live)
      BY <1>1 DEF Outcomes
    <2>2. PICK files \in RegistryFiles, web \in Webs, answer \in HookAnswers :
            LET registry == SourceRegistry(RegistryRows(files))
            IN  outcome.result =
                  TopicDigestResult(Brief, RunTopicDigest(Brief, registry, web), live, answer)
      BY <2>1 DEF DigestOutcomes
    <2> QED
      BY <2>2, DigestIsProper
  <1>2. CASE config.type = "server_health"
    <2>1. PICK answer \in HealthAnswers :
            outcome.result = RunServerHealth(Checks, answer, config.anomalyOnly)
      BY <1>2 DEF Outcomes, PlainOutcomes
    <2>2. PICK anomalies, anomalyOnly : outcome.result = CheckedResult(anomalies, anomalyOnly)
      BY <2>1 DEF RunServerHealth
    <2> QED
      BY <2>2, CheckedIsProper
  <1>3. CASE config.type = "printer_supply_status"
    <2>1. PICK answer \in PrinterAnswers :
            outcome.result = RunPrinterSupplyStatus(Printers, answer, config.anomalyOnly)
      BY <1>3 DEF Outcomes, PlainOutcomes
    <2>2. PICK anomalies, anomalyOnly : outcome.result = CheckedResult(anomalies, anomalyOnly)
      BY <2>1 DEF RunPrinterSupplyStatus
    <2> QED
      BY <2>2, CheckedIsProper
  <1>4. CASE config.type = "backup_verification"
    <2>1. PICK backup \in BackupRules, backups \in BackupSets :
            outcome.result = RunBackupVerification(backup, backups)
      BY <1>4 DEF Outcomes, PlainOutcomes
    <2>2. PICK anomalies : outcome.result = CheckedResult(anomalies, TRUE)
      BY <2>1 DEF RunBackupVerification, BackupResult
    <2> QED
      BY <2>2, CheckedIsProper
  <1>5. CASE config.type = "n8n_webhook"
    BY <1>5, WebhookIsProper DEF Outcomes, PlainOutcomes
  <1>6. CASE config.type \notin {"topic_digest", "server_health", "printer_supply_status",
                                 "backup_verification", "n8n_webhook"}
    BY <1>6, RaisedIsProper DEF Outcomes, PlainOutcomes
  <1> QED
    BY <1>1, <1>2, <1>3, <1>4, <1>5, <1>6


-----------------------------------------------------------------------------
(* The inductive invariants *)

\* A run is being executed whenever the worker is not idle.
HasRun == step # "idle" => rows # <<>>

Known == \/ ~config.onFailure
         \/ ~config.discord
         \/ /\ config.collapse
            /\ \E m \in 1..Current - 1 : rows[m].failed /\ rows[m].age <= Window

\* What makes the silence of the executed run explained when it is reported.
SilenceKnown ==
  /\ step = "deciding" => ~ending.refused
  /\ step \in {"deciding alert", "sending alert", "reporting"} =>
       /\ ending.refused /\ IsLive => rows[Current].tried
       /\ IsLive /\ ~rows[Current].tried /\ Fails(ending.result) => Known
  /\ step = "reporting failure" => (IsLive /\ ~rows[Current].tried => Known)

\* A failure message was delivered and nothing broke.
Announced(row) == row.alerted /\ row.status = "finished" /\ ~row.disturbed

AnnouncedFailed == \A n \in DOMAIN rows : Announced(rows[n]) => rows[n].failed

\* What makes a failure message of the executed run the only one of late, and
\* its report a failure.
Justified(row, where, result, recent) ==
  /\ where # "idle" /\ row.status = "finished" => row.disturbed
  /\ where \in {"executing", "deciding", "sending"} => ~row.alerted
  /\ where \in {"deciding", "sending"} /\ result.alert => Fails(result)
  /\ where \in {"deciding alert", "sending alert"} => Fails(result)
  /\ where = "reporting" /\ row.alerted => Fails(result)
  /\ /\ config.collapse /\ where # "idle" /\ ~row.disturbed
     /\ \/ row.alerted
        \/ where \in {"sending alert", "sending failure"}
        \/ where = "sending" /\ Fails(result)
     => ~recent

AlertJustified == Justified(rows[Current], step, ending.result, HasRecentFailure)

SilenceInv == SilentOnlyAfterFailure /\ SilenceKnown
AlertInv == AlertsCollapsed /\ AnnouncedFailed /\ AlertJustified

-----------------------------------------------------------------------------
(* Types *)

\* A step that touches the executed run only.
LEMMA CurrentChanges ==
  ASSUME rows \in Seq(Row), rows # <<>>, NEW row \in Row,
         rows' = [rows EXCEPT ![Current] = row]
  PROVE  /\ rows' \in Seq(Row) /\ rows' # <<>>
         /\ Len(rows) \in Nat \ {0} /\ Len(rows') = Len(rows)
         /\ DOMAIN rows = 1..Len(rows) /\ DOMAIN rows' = 1..Len(rows)
         /\ rows[Current] \in Row /\ rows'[Len(rows)] = row
         /\ \A n \in 1..Len(rows) : n # Len(rows) => rows'[n] = rows[n]
  <1>1. Len(rows) \in Nat \ {0} /\ Len(rows) \in 1..Len(rows) /\ DOMAIN rows = 1..Len(rows)
    BY EmptySeq, LenProperties
  <1>2. rows' \in Seq(Row) /\ Len(rows') = Len(rows)
    BY <1>1, ExceptSeq DEF Current
  <1>3. rows' # <<>> /\ DOMAIN rows' = 1..Len(rows)
    BY <1>1, <1>2, LenProperties, EmptySeq
  <1>4. rows[Current] \in Row
    BY <1>1, ElementOfSeq DEF Current
  <1> QED
    BY <1>1, <1>2, <1>3, <1>4 DEF Current

LEMMA RowKinds ==
  ASSUME NEW row \in Row, NEW failed \in BOOLEAN, NEW alerted \in BOOLEAN, NEW tried \in BOOLEAN
  PROVE  /\ Disturb(row) \in Row
         /\ Finished(row, failed) \in Row
         /\ [row EXCEPT !.tried = tried, !.alerted = alerted] \in Row
         /\ [Disturb(row) EXCEPT !.status = "stale", !.age = 0] \in Row
  <1>1. 0 \in 0..Oldest
    BY DeliveryAssumption DEF Oldest
  <1> QED
    BY <1>1 DEF Row, Disturb, Finished

\* A delivery leaves the executed run as it is, but for tried and alerted.
LEMMA AttemptedRow ==
  ASSUME rows \in Seq(Row), rows # <<>>, NEW how \in Sendings, NEW isAlert \in BOOLEAN,
         Attempted(how, isAlert)
  PROVE  \E row \in Row :
           /\ rows' = [rows EXCEPT ![Current] = row]
           /\ row = [rows[Current] EXCEPT
                       !.tried = rows[Current].tried \/ IsLive,
                       !.alerted = rows[Current].alerted \/ (how = "delivered" /\ isAlert)]
  <1> DEFINE run == rows[Current]
             tried == run.tried \/ IsLive
             alerted == run.alerted \/ (how = "delivered" /\ isAlert)
             row == [run EXCEPT !.tried = tried, !.alerted = alerted]
  <1>1. run \in Row
    BY EmptySeq, LenProperties, ElementOfSeq DEF Current
  <1>2. tried \in BOOLEAN /\ alerted \in BOOLEAN
    BY <1>1 DEF Row, IsLive
  <1>3. row \in Row
    BY <1>1, <1>2, RowKinds
  <1>4. rows' = [rows EXCEPT ![Current] = row]
    BY DEF Attempted
  <1>5. row = [rows[Current] EXCEPT
                  !.tried = rows[Current].tried \/ IsLive,
                  !.alerted = rows[Current].alerted \/ (how = "delivered" /\ isAlert)]
    OBVIOUS
  <1> HIDE DEF row
  <1> QED
    BY <1>3, <1>4, <1>5

LEMMA BreakTyped ==
  ASSUME breaks \in 0..MaxDeliveryFaults, Break PROVE breaks' \in 0..MaxDeliveryFaults
  BY DeliveryAssumption DEF Break

LEMMA LookedRow ==
  ASSUME DeliveryTypeOK, rows # <<>>, NEW class, NEW listed \in BOOLEAN, Look(class, listed)
  PROVE  /\ \E row \in Row :
              /\ rows' = [rows EXCEPT ![Current] = row]
              /\ row = IF listed THEN rows[Current] ELSE Disturb(rows[Current])
         /\ breaks' \in 0..MaxDeliveryFaults
  <1>1. rows \in Seq(Row) /\ rows[Current] \in Row /\ breaks \in 0..MaxDeliveryFaults
    BY EmptySeq, LenProperties, ElementOfSeq DEF DeliveryTypeOK, Current
  <1>2. CASE listed
    <2>1. rows' = rows /\ breaks' = breaks
      BY <1>2 DEF Look
    <2>2. rows \in [1..Len(rows) -> Row]
      BY <1>1, LenProperties
    <2>3. rows = [rows EXCEPT ![Current] = rows[Current]]
      BY <2>2
    <2> QED
      BY <1>1, <1>2, <2>1, <2>3
  <1>3. CASE ~listed
    BY <1>1, <1>3, RowKinds, BreakTyped DEF Look
  <1> QED
    BY <1>2, <1>3

LEMMA AfterPrimaryStep ==
  ASSUME NEW result PROVE AfterPrimary(result) \in {"deciding alert", "reporting"}
  BY DEF AfterPrimary

LEMMA NoEndingTyped == NoEnding \in [result : Result, refused : BOOLEAN]
  BY RaisedIsProper DEF NoEnding, Proper

LEMMA WithDeliveryTyped ==
  ASSUME NEW result \in Result, NEW how
  PROVE  /\ WithDelivery(result, how) \in Result
         /\ Fails(result) => Fails(WithDelivery(result, how))
         /\ WithDelivery(result, how).alert =>
              Fails(WithDelivery(result, how)) \/ result.alert
  <1>1. CASE WithDelivery(result, how) = result
    BY <1>1
  <1>2. CASE WithDelivery(result, how) = [result EXCEPT !.quality = "failed", !.alert = TRUE]
    BY <1>2 DEF Result, Fails
  <1> QED
    BY <1>1, <1>2 DEF WithDelivery

-----------------------------------------------------------------------------
(* Theorem: the types *)

LEMMA AgedRows ==
  ASSUME rows \in Seq(Row), TimePasses
  PROVE  /\ rows' \in Seq(Row) /\ Len(rows') = Len(rows)
         /\ DOMAIN rows = 1..Len(rows) /\ DOMAIN rows' = 1..Len(rows)
         /\ \A n \in 1..Len(rows) :
              /\ rows[n] \in Row
              /\ rows'[n] = IF rows[n].status = "running" THEN rows[n]
                            ELSE [rows[n] EXCEPT !.age = LowerOf(rows[n].age + 1, Oldest)]
  <1> DEFINE Aged(row) == IF row.status = "running" THEN row
                          ELSE [row EXCEPT !.age = LowerOf(row.age + 1, Oldest)]
  <1>1. Len(rows) \in Nat /\ DOMAIN rows = 1..Len(rows) /\ \A n \in 1..Len(rows) : rows[n] \in Row
    BY LenProperties, ElementOfSeq
  <1>2. ASSUME NEW row \in Row PROVE Aged(row) \in Row
    <2>1. Oldest \in Nat
      BY DeliveryAssumption DEF Oldest
    <2>2. row.age \in 0..Oldest
      BY DEF Row
    <2>3. LowerOf(row.age + 1, Oldest) \in 0..Oldest
      BY <2>1, <2>2 DEF LowerOf
    <2> QED
      BY <2>3 DEF Row
  <1>3. rows' = [n \in 1..Len(rows) |-> Aged(rows[n])]
    BY <1>1 DEF TimePasses
  <1> HIDE DEF Aged
  <1>4. \A n \in 1..Len(rows) : Aged(rows[n]) \in Row
    BY <1>1, <1>2
  <1>5. rows' \in Seq(Row) /\ Len(rows') = Len(rows)
    BY <1>1, <1>3, <1>4, IsASeq
  <1> USE DEF Aged
  <1> QED
    BY <1>1, <1>3, <1>5

LEMMA RunBegins ==
  ASSUME rows \in Seq(Row), BeginRun
  PROVE  \E live \in BOOLEAN :
           /\ rows' \in Seq(Row) /\ rows' # <<>>
           /\ Len(rows) \in Nat /\ Len(rows') = Len(rows) + 1
           /\ DOMAIN rows = 1..Len(rows) /\ DOMAIN rows' = 1..Len(rows) + 1
           /\ rows'[Len(rows) + 1] = NewRow(live)
           /\ \A n \in 1..Len(rows) : rows'[n] = rows[n]
  <1>1. PICK live \in BOOLEAN : rows' = Append(rows, NewRow(live))
    BY DEF BeginRun
  <1>2. 0 \in 0..Oldest
    BY DeliveryAssumption DEF Oldest
  <1>3. NewRow(live) \in Row
    BY <1>2 DEF NewRow, Row
  <1>4. /\ rows' \in Seq(Row) /\ Len(rows') = Len(rows) + 1
        /\ rows'[Len(rows) + 1] = NewRow(live)
        /\ \A n \in 1..Len(rows) : rows'[n] = rows[n]
    BY <1>1, <1>3, AppendProperties
  <1>5. Len(rows) \in Nat /\ DOMAIN rows = 1..Len(rows) /\ DOMAIN rows' = 1..Len(rows')
    BY <1>4, LenProperties
  <1>6. rows' # <<>>
    BY <1>4, <1>5, EmptySeq
  <1> QED
    BY <1>4, <1>5, <1>6

LEMMA DeliveryTypesInit == DeliveryInit => DeliveryTypeOK /\ HasRun
  BY DeliveryAssumption, NoEndingTyped, EmptySeq
  DEF DeliveryInit, DeliveryTypeOK, HasRun, DeliverySteps

\* The steps that touch the executed run only: what they make of it, and that
\* they leave the configuration alone.
LEMMA CallStep ==
  ASSUME DeliveryTypeOK, HasRun,
         \/ RunHandler \/ DecidePrimary \/ SendPrimary \/ DecideAlert \/ SendAlert
         \/ ReportRun \/ LoseRunReport \/ DecideFailure \/ SendFailure \/ ReportRunFailure
         \/ CrashRun \/ RecoverRun
  PROVE  /\ rows # <<>> /\ config' = config
         /\ \E row \in Row : rows' = [rows EXCEPT ![Current] = row]
         /\ ending' \in [result : Result, refused : BOOLEAN]
         /\ step' \in DeliverySteps /\ breaks' \in 0..MaxDeliveryFaults
  <1> DEFINE Ending == [result : Result, refused : BOOLEAN]
  <1>1. rows # <<>>
    BY DEF HasRun, RunHandler, DecidePrimary, SendPrimary, DecideAlert, SendAlert, ReportRun,
           LoseRunReport, DecideFailure, SendFailure, ReportRunFailure, CrashRun, RecoverRun
  <1>2. /\ rows \in Seq(Row) /\ rows[Current] \in Row
        /\ ending \in Ending /\ breaks \in 0..MaxDeliveryFaults /\ step \in DeliverySteps
    BY <1>1, EmptySeq, LenProperties, ElementOfSeq DEF DeliveryTypeOK, Current
  <1>3. rows = [rows EXCEPT ![Current] = rows[Current]]
    BY <1>2, LenProperties
  <1>4. IsLive \in BOOLEAN
    BY <1>2 DEF IsLive, Row
  <1>5. CASE RunHandler
    <2>1. PICK outcome \in Outcomes(IsLive) :
            /\ ending' = [NoEnding EXCEPT !.result = outcome.result]
            /\ step' = CASE outcome.result.status = "raised" -> "deciding failure"
                         [] outcome.result.status # "raised" /\ config.discord
                              /\ outcome.result.status # "skipped" -> "deciding"
                         [] OTHER -> AfterPrimary(outcome.result)
      BY <1>5 DEF RunHandler
    <2>2. ending' \in Ending
      BY <2>1, OutcomesAreProper, NoEndingTyped DEF Proper
    <2>3. step' \in DeliverySteps
      BY <2>1, AfterPrimaryStep DEF DeliverySteps
    <2> QED
      BY <1>1, <1>2, <1>3, <1>5, <2>2, <2>3 DEF RunHandler
  <1>6. CASE DecidePrimary
    <2>1. step' \in DeliverySteps
      BY <1>6, AfterPrimaryStep DEF DecidePrimary, MoveTo, DeliverySteps
    <2> QED
      BY <1>1, <1>2, <1>6, <2>1, LookedRow DEF DecidePrimary
  <1>7. CASE SendPrimary
    <2>1. PICK how \in Sendings :
            /\ Attempted(how, Fails(ending.result))
            /\ ending' = [result |-> WithDelivery(ending.result, how), refused |-> how = "refused"]
            /\ step' = AfterPrimary(WithDelivery(ending.result, how))
      BY <1>7 DEF SendPrimary, MoveTo
    <2>2. Fails(ending.result) \in BOOLEAN
      BY <1>2 DEF Fails, Result
    <2>3. ending' \in Ending
      BY <1>2, <2>1, WithDeliveryTyped
    <2>4. step' \in DeliverySteps
      BY <2>1, AfterPrimaryStep DEF DeliverySteps
    <2>5. \E row \in Row : rows' = [rows EXCEPT ![Current] = row]
      BY <1>1, <1>2, <2>1, <2>2, AttemptedRow
    <2> QED
      BY <1>1, <1>2, <1>7, <2>3, <2>4, <2>5 DEF SendPrimary
  <1>8. CASE DecideAlert
    BY <1>1, <1>2, <1>8, LookedRow DEF DecideAlert, MoveTo, DeliverySteps
  <1>9. CASE SendAlert \/ SendFailure
    <2>1. PICK how \in Sendings : Attempted(how, TRUE)
      BY <1>9 DEF SendAlert, SendFailure
    <2>2. \E row \in Row : rows' = [rows EXCEPT ![Current] = row]
      BY <1>1, <1>2, <2>1, AttemptedRow
    <2> QED
      BY <1>1, <1>2, <1>9, <2>2 DEF SendAlert, SendFailure, MoveTo, DeliverySteps
  <1>10. CASE ReportRun
    <2>1. FinalFailed(ending.result, ending.refused) \in BOOLEAN
      BY <1>2, <1>4 DEF FinalFailed, Fails, Result
    <2>2. rows' = [rows EXCEPT
                     ![Current] = Finished(rows[Current], FinalFailed(ending.result, ending.refused))]
      BY <1>10 DEF ReportRun
    <2>3. Finished(rows[Current], FinalFailed(ending.result, ending.refused)) \in Row
      BY <1>2, <2>1, RowKinds
    <2> QED
      BY <1>1, <1>2, <1>10, <2>2, <2>3, NoEndingTyped DEF ReportRun, MoveTo, DeliverySteps
  <1>11. CASE LoseRunReport
    <2>1. FinalFailed(ending.result, ending.refused) \in BOOLEAN
      BY <1>2, <1>4 DEF FinalFailed, Fails, Result
    <2>2. PICK row \in {rows[Current],
                        Finished(rows[Current], FinalFailed(ending.result, ending.refused))} :
            rows' = [rows EXCEPT ![Current] = Disturb(row)]
      BY <1>11 DEF LoseRunReport
    <2>3. Disturb(row) \in Row
      BY <1>2, <2>1, <2>2, RowKinds
    <2>4. ending' \in Ending
      BY <1>2, <1>11, RaisedIsProper DEF LoseRunReport, Proper
    <2> QED
      BY <1>1, <1>2, <1>11, <2>2, <2>3, <2>4, BreakTyped
      DEF LoseRunReport, MoveTo, DeliverySteps
  <1>12. CASE DecideFailure
    BY <1>1, <1>2, <1>12, LookedRow DEF DecideFailure, MoveTo, DeliverySteps
  <1>13. CASE ReportRunFailure
    <2>1. rows' = [rows EXCEPT ![Current] = Finished(rows[Current], TRUE)]
      BY <1>13 DEF ReportRunFailure
    <2> QED
      BY <1>1, <1>2, <1>13, <2>1, RowKinds, NoEndingTyped
      DEF ReportRunFailure, MoveTo, DeliverySteps
  <1>14. CASE CrashRun
    <2>1. rows' = [rows EXCEPT ![Current] = Disturb(rows[Current])]
      BY <1>14 DEF CrashRun
    <2> QED
      BY <1>1, <1>2, <1>14, <2>1, RowKinds, BreakTyped, NoEndingTyped
      DEF CrashRun, MoveTo, DeliverySteps
  <1>15. CASE RecoverRun
    <2>1. rows' = [rows EXCEPT
                     ![Current] = [Disturb(rows[Current]) EXCEPT !.status = "stale", !.age = 0]]
      BY <1>15 DEF RecoverRun
    <2> QED
      BY <1>1, <1>2, <1>15, <2>1, RowKinds DEF RecoverRun
  <1> QED
    BY <1>5, <1>6, <1>7, <1>8, <1>9, <1>10, <1>11, <1>12, <1>13, <1>14, <1>15

LEMMA DeliveryTypesStep ==
  DeliveryTypeOK /\ HasRun /\ [DeliveryNext]_deliveryVars => (DeliveryTypeOK /\ HasRun)'
  <1> SUFFICES ASSUME DeliveryTypeOK, HasRun, [DeliveryNext]_deliveryVars
               PROVE  DeliveryTypeOK' /\ HasRun'
    OBVIOUS
  <1>1. rows \in Seq(Row)
    BY DEF DeliveryTypeOK
  <1>2. CASE BeginRun
    <2>1. rows' \in Seq(Row) /\ rows' # <<>>
      BY <1>1, <1>2, RunBegins
    <2> QED
      BY <1>2, <2>1, NoEndingTyped DEF BeginRun, MoveTo, DeliveryTypeOK, HasRun, DeliverySteps
  <1>3. CASE TimePasses
    <2>1. rows' \in Seq(Row) /\ Len(rows') = Len(rows)
      BY <1>1, <1>3, AgedRows
    <2>2. rows # <<>> => rows' # <<>>
      BY <1>1, <2>1, EmptySeq
    <2> QED
      BY <1>3, <2>1, <2>2 DEF TimePasses, DeliveryTypeOK, HasRun
  <1>4. CASE \/ RunHandler \/ DecidePrimary \/ SendPrimary \/ DecideAlert \/ SendAlert
             \/ ReportRun \/ LoseRunReport \/ DecideFailure \/ SendFailure \/ ReportRunFailure
             \/ CrashRun \/ RecoverRun
    <2>1. /\ rows # <<>> /\ config' = config
          /\ ending' \in [result : Result, refused : BOOLEAN]
          /\ step' \in DeliverySteps /\ breaks' \in 0..MaxDeliveryFaults
      BY <1>4, CallStep
    <2>2. PICK row \in Row : rows' = [rows EXCEPT ![Current] = row]
      BY <1>4, CallStep
    <2>3. rows' \in Seq(Row) /\ rows' # <<>>
      BY <1>1, <2>1, <2>2, CurrentChanges
    <2> QED
      BY <2>1, <2>3 DEF DeliveryTypeOK, HasRun
  <1>5. CASE UNCHANGED deliveryVars
    BY <1>5 DEF deliveryVars, DeliveryTypeOK, HasRun
  <1> QED
    BY <1>2, <1>3, <1>4, <1>5 DEF DeliveryNext

\* However the runs of a task end, the tables and what the worker remembers
\* keep their types (execute_task, notification_decision, complete_run).
THEOREM DeliveryTypes == DeliverySpec => []DeliveryTypeOK
  <1>1. DeliverySpec => [](DeliveryTypeOK /\ HasRun)
    BY DeliveryTypesInit, DeliveryTypesStep, PTL DEF DeliverySpec
  <1> QED
    BY <1>1, PTL

-----------------------------------------------------------------------------
(* Theorem: silence is explained *)

\* Known, for a row that takes the place of the executed run.
Explains(row) ==
  \/ ~config.onFailure
  \/ ~config.discord
  \/ /\ config.collapse
     /\ \E m \in 1..Current - 1 : rows[m].failed /\ rows[m].age <= row.age + Window

Silent(row) == row.live /\ row.status = "finished" /\ row.failed /\ ~row.tried

LEMMA EarlierIndex ==
  ASSUME NEW k \in Nat, NEW n \in 1..k, NEW m \in 1..n - 1
  PROVE  m \in 1..k /\ m # k
  OBVIOUS

LEMMA SilentKept ==
  ASSUME DeliveryTypeOK, rows # <<>>, config' = config, SilentOnlyAfterFailure,
         NEW row \in Row, rows' = [rows EXCEPT ![Current] = row],
         Silent(row) => Explains(row)
  PROVE  SilentOnlyAfterFailure' /\ (Known' <=> Known)
  <1>1. rows \in Seq(Row)
    BY DEF DeliveryTypeOK
  <1>2. /\ Len(rows) \in Nat \ {0} /\ Len(rows') = Len(rows)
        /\ DOMAIN rows = 1..Len(rows) /\ DOMAIN rows' = 1..Len(rows)
        /\ rows'[Len(rows)] = row
        /\ \A n \in 1..Len(rows) : n # Len(rows) => rows'[n] = rows[n]
    BY <1>1, CurrentChanges
  <1>3. \A n \in 1..Len(rows) : \A m \in 1..n - 1 : m \in 1..Len(rows) /\ m # Len(rows)
    BY <1>2, EarlierIndex
  <1>4. ASSUME NEW n \in 1..Len(rows), Silent(rows'[n])
        PROVE  \/ ~config.onFailure
               \/ ~config.discord
               \/ /\ config.collapse
                  /\ \E m \in 1..n - 1 : rows'[m].failed /\ rows'[m].age <= rows'[n].age + Window
    <2>1. CASE n = Len(rows)
      BY <1>2, <1>3, <1>4, <2>1 DEF Explains, Current
    <2>2. CASE n # Len(rows)
      <3>1. rows'[n] = rows[n]
        BY <1>2, <2>2
      <3>2. \/ ~config.onFailure
            \/ ~config.discord
            \/ /\ config.collapse
               /\ \E m \in 1..n - 1 : rows[m].failed /\ rows[m].age <= rows[n].age + Window
        BY <1>2, <1>4, <3>1 DEF SilentOnlyAfterFailure, Silent
      <3> QED
        BY <1>2, <1>3, <3>1, <3>2
    <2> QED
      BY <2>1, <2>2
  <1>5. SilentOnlyAfterFailure'
    BY <1>2, <1>4 DEF SilentOnlyAfterFailure, Silent
  <1>6. Known' <=> Known
    <2>1. Current' = Len(rows) /\ Current = Len(rows)
      BY <1>2 DEF Current
    <2>2. Len(rows) \in Nat \ {0}
      BY <1>2
    <2>3. \A m \in 1..Len(rows) - 1 : rows'[m] = rows[m]
      <3>1. Len(rows) \in 1..Len(rows)
        BY <2>2
      <3> QED
        BY <1>2, <1>3, <3>1
    <2>4. (\E m \in 1..Len(rows) - 1 : rows'[m].failed /\ rows'[m].age <= Window)
            <=> (\E m \in 1..Len(rows) - 1 : rows[m].failed /\ rows[m].age <= Window)
      BY <2>3
    <2> QED
      BY <2>1, <2>4 DEF Known
  <1> QED
    BY <1>5, <1>6

\* A step that leaves status, failed and age of the executed run alone keeps
\* its explanation.
LEMMA SilentUntouched ==
  ASSUME DeliveryTypeOK, rows # <<>>, SilentOnlyAfterFailure, NEW row \in Row,
         row.live = IsLive, row.status = rows[Current].status,
         row.failed = rows[Current].failed, row.age = rows[Current].age,
         rows[Current].tried => row.tried
  PROVE  Silent(row) => Explains(row)
  <1>1. Current \in DOMAIN rows
    BY EmptySeq, LenProperties DEF DeliveryTypeOK, Current
  <1>2. ASSUME Silent(row)
        PROVE  Silent(rows[Current])
    <2>1. rows[Current] \in Row
      BY <1>1, ElementOfSeq, LenProperties DEF DeliveryTypeOK
    <2> QED
      BY <1>2, <2>1 DEF Silent, IsLive, Row
  <1>3. ASSUME Silent(rows[Current])
        PROVE  Explains(rows[Current])
    BY <1>1, <1>3 DEF Silent, Explains, SilentOnlyAfterFailure
  <1>4. Explains(rows[Current]) => Explains(row)
    BY DEF Explains
  <1> QED
    BY <1>2, <1>3, <1>4

LEMMA CurrentTyped ==
  ASSUME DeliveryTypeOK, rows # <<>>
  PROVE  /\ rows \in Seq(Row) /\ rows[Current] \in Row /\ ending.result \in Result
         /\ Len(rows) \in Nat \ {0} /\ DOMAIN rows = 1..Len(rows)
         /\ rows = [rows EXCEPT ![Current] = rows[Current]]
         /\ IsLive \in BOOLEAN /\ ending.refused \in BOOLEAN
  <1>1. rows \in Seq(Row) /\ ending \in [result : Result, refused : BOOLEAN]
    BY DEF DeliveryTypeOK
  <1>2. Len(rows) \in Nat \ {0} /\ rows[Current] \in Row /\ rows \in [1..Len(rows) -> Row]
    BY <1>1, EmptySeq, LenProperties, ElementOfSeq DEF Current
  <1> QED
    BY <1>1, <1>2 DEF IsLive, Row

LEMMA DecisionIsBoolean ==
  ASSUME NEW result, NEW class, NEW listed, NEW send \in Decisions(result, class, listed)
  PROVE  send \in BOOLEAN
  BY Zenon DEF Decisions

\* A failure that is not announced by a decision that was asked for it.
LEMMA UndecidedIsKnown ==
  ASSUME DeliveryTypeOK, rows # <<>>, NEW result, NEW listed \in BOOLEAN,
         FALSE \in Decisions(result, "failure", listed)
  PROVE  Known
  <1>1. PICK quiet : ~(/\ Wanted(result, "failure", quiet)
                       /\ ~(config.collapse /\ listed /\ HasRecentFailure))
    <2>1. PICK quiet \in IF config.quiet THEN BOOLEAN ELSE {FALSE} :
            FALSE = (/\ Wanted(result, "failure", quiet)
                     /\ ~("failure" = "failure" /\ config.collapse /\ listed /\ HasRecentFailure))
      BY Zenon DEF Decisions
    <2> QED
      BY <2>1, Zenon
  <1>2. Wanted(result, "failure", quiet) <=> config.onFailure
    BY DEF Wanted
  <1>3. HasRecentFailure => \E m \in 1..Current - 1 : rows[m].failed /\ rows[m].age <= Window
    BY CurrentTyped DEF HasRecentFailure, Current
  <1> QED
    BY <1>1, <1>2, <1>3 DEF Known

\* A row as a look or a delivery leaves it.
SameRun(row) ==
  /\ row.live = IsLive /\ row.status = rows[Current].status
  /\ row.failed = rows[Current].failed /\ row.age = rows[Current].age
  /\ rows[Current].tried => row.tried

LEMMA SameRunKeepsSilence ==
  ASSUME DeliveryTypeOK, rows # <<>>, config' = config, SilentOnlyAfterFailure,
         NEW row \in Row, rows' = [rows EXCEPT ![Current] = row], SameRun(row)
  PROVE  /\ SilentOnlyAfterFailure' /\ (Known' <=> Known)
         /\ rows'[Current'] = row /\ IsLive' = IsLive /\ row.live = IsLive
         /\ rows[Current].tried => row.tried
  <1>1. Silent(row) => Explains(row)
    BY SilentUntouched DEF SameRun
  <1>2. SilentOnlyAfterFailure' /\ (Known' <=> Known)
    BY <1>1, SilentKept
  <1>3. rows \in Seq(Row)
    BY DEF DeliveryTypeOK
  <1>4. rows'[Len(rows)] = row /\ Len(rows') = Len(rows)
    BY <1>3, CurrentChanges
  <1>5. rows'[Current'] = row
    BY <1>4 DEF Current
  <1> QED
    BY <1>2, <1>5 DEF SameRun, IsLive

LEMMA LookKeepsRun ==
  ASSUME DeliveryTypeOK, rows # <<>>, NEW class, NEW listed \in BOOLEAN, Look(class, listed)
  PROVE  \E row \in Row : /\ rows' = [rows EXCEPT ![Current] = row]
                          /\ SameRun(row) /\ row.tried = rows[Current].tried
  <1>1. rows[Current] \in Row
    BY CurrentTyped
  <1>2. \A row \in Row : row = rows[Current] \/ row = Disturb(rows[Current])
          => SameRun(row) /\ row.tried = rows[Current].tried
    BY <1>1 DEF Disturb, SameRun, IsLive, Row
  <1> QED
    BY <1>2, LookedRow

LEMMA AttemptKeepsRun ==
  ASSUME DeliveryTypeOK, rows # <<>>, NEW how \in Sendings, NEW isAlert \in BOOLEAN,
         Attempted(how, isAlert)
  PROVE  \E row \in Row : /\ rows' = [rows EXCEPT ![Current] = row]
                          /\ SameRun(row) /\ (IsLive => row.tried)
  <1>1. rows[Current] \in Row /\ rows \in Seq(Row)
    BY CurrentTyped
  <1>2. PICK row \in Row :
          /\ rows' = [rows EXCEPT ![Current] = row]
          /\ row = [rows[Current] EXCEPT
                      !.tried = rows[Current].tried \/ IsLive,
                      !.alerted = rows[Current].alerted \/ (how = "delivered" /\ isAlert)]
    BY <1>1, AttemptedRow
  <1>3. SameRun(row) /\ (IsLive => row.tried)
    BY <1>1, <1>2 DEF SameRun, IsLive, Row
  <1> QED
    BY <1>2, <1>3

\* A look leaves what is known alone; a delivery of a live run is an attempt.
LEMMA LookIsKnown ==
  ASSUME DeliveryTypeOK, rows # <<>>, SilentOnlyAfterFailure, config' = config,
         NEW class, NEW listed \in BOOLEAN, Look(class, listed)
  PROVE  /\ SilentOnlyAfterFailure' /\ (Known' <=> Known) /\ IsLive' = IsLive
         /\ rows'[Current'].tried = rows[Current].tried
  <1>1. PICK row \in Row : /\ rows' = [rows EXCEPT ![Current] = row]
                           /\ SameRun(row) /\ row.tried = rows[Current].tried
    BY LookKeepsRun
  <1> QED
    BY <1>1, SameRunKeepsSilence

LEMMA AttemptIsTried ==
  ASSUME DeliveryTypeOK, rows # <<>>, SilentOnlyAfterFailure, config' = config,
         NEW how \in Sendings, NEW isAlert \in BOOLEAN, Attempted(how, isAlert)
  PROVE  /\ SilentOnlyAfterFailure' /\ (Known' <=> Known) /\ IsLive' = IsLive
         /\ IsLive' => rows'[Current'].tried
  <1>1. PICK row \in Row : /\ rows' = [rows EXCEPT ![Current] = row]
                           /\ SameRun(row) /\ (IsLive => row.tried)
    BY AttemptKeepsRun
  <1> QED
    BY <1>1, SameRunKeepsSilence

LEMMA SilenceInit == DeliveryInit => SilenceInv
  BY EmptySeq DEF DeliveryInit, SilenceInv, SilentOnlyAfterFailure, SilenceKnown

\* Time does not lengthen the distance between two rows.
LEMMA AgesTogether ==
  ASSUME NEW a \in Nat, NEW b \in Nat, NEW c \in Int, a <= b + Window, b <= Oldest,
         c <= LowerOf(a + 1, Oldest)
  PROVE  c <= LowerOf(b + 1, Oldest) + Window
  BY DeliveryAssumption DEF LowerOf, Oldest

LEMMA SilenceAged ==
  ASSUME DeliveryTypeOK, SilentOnlyAfterFailure, TimePasses
  PROVE  SilentOnlyAfterFailure'
  <1>1. rows \in Seq(Row) /\ config' = config /\ Window \in Nat /\ Oldest \in Nat
    BY DeliveryAssumption DEF DeliveryTypeOK, TimePasses, Oldest
  <1>2. /\ DOMAIN rows = 1..Len(rows) /\ DOMAIN rows' = 1..Len(rows) /\ Len(rows) \in Nat
        /\ \A n \in 1..Len(rows) :
             /\ rows[n] \in Row
             /\ rows'[n] = IF rows[n].status = "running" THEN rows[n]
                           ELSE [rows[n] EXCEPT !.age = LowerOf(rows[n].age + 1, Oldest)]
    BY <1>1, AgedRows, LenProperties
  <1>3. ASSUME NEW n \in 1..Len(rows)
        PROVE  /\ rows'[n].live = rows[n].live /\ rows'[n].status = rows[n].status
               /\ rows'[n].failed = rows[n].failed /\ rows'[n].tried = rows[n].tried
               /\ rows[n].age \in 0..Oldest
               /\ rows'[n].age <= LowerOf(rows[n].age + 1, Oldest)
               /\ rows[n].status # "running" =>
                    rows'[n].age = LowerOf(rows[n].age + 1, Oldest)
    BY <1>1, <1>2 DEF Row, LowerOf
  <1>4. ASSUME NEW n \in 1..Len(rows), NEW m \in 1..n - 1, rows[n].status = "finished",
               rows[m].age <= rows[n].age + Window
        PROVE  rows'[m].age <= rows'[n].age + Window
    <2>1. m \in 1..Len(rows)
      BY <1>2, EarlierIndex
    <2>2. /\ rows[m].age \in 0..Oldest /\ rows'[m].age <= LowerOf(rows[m].age + 1, Oldest)
          /\ rows[n].age \in 0..Oldest /\ rows'[n].age = LowerOf(rows[n].age + 1, Oldest)
          /\ rows'[m].age \in Int
      BY <1>1, <1>2, <1>3, <1>4, <2>1 DEF Row, LowerOf
    <2>3. rows[m].age \in Nat /\ rows[n].age \in Nat /\ rows[n].age <= Oldest
      BY <1>1, <2>2
    <2> QED
      BY <1>4, <2>2, <2>3, AgesTogether
  <1>5. ASSUME NEW n \in 1..Len(rows), Silent(rows'[n])
        PROVE  \/ ~config.onFailure
               \/ ~config.discord
               \/ /\ config.collapse
                  /\ \E m \in 1..n - 1 : rows'[m].failed /\ rows'[m].age <= rows'[n].age + Window
    <2>1. Silent(rows[n])
      BY <1>3, <1>5 DEF Silent
    <2>2. \/ ~config.onFailure
          \/ ~config.discord
          \/ /\ config.collapse
             /\ \E m \in 1..n - 1 : rows[m].failed /\ rows[m].age <= rows[n].age + Window
      BY <1>2, <2>1 DEF SilentOnlyAfterFailure, Silent
    <2>3. CASE \E m \in 1..n - 1 : rows[m].failed /\ rows[m].age <= rows[n].age + Window
      <3>1. PICK m \in 1..n - 1 : rows[m].failed /\ rows[m].age <= rows[n].age + Window
        BY <2>3
      <3>2. m \in 1..Len(rows)
        BY <1>2, EarlierIndex
      <3>3. rows'[m].failed /\ rows'[m].age <= rows'[n].age + Window
        BY <1>3, <1>4, <2>1, <3>1, <3>2 DEF Silent
      <3> QED
        BY <2>2, <3>3
    <2> QED
      BY <2>2, <2>3
  <1> QED
    BY <1>1, <1>2, <1>5 DEF SilentOnlyAfterFailure, Silent

LEMMA SilenceStep ==
  DeliveryTypeOK /\ HasRun /\ SilenceInv /\ [DeliveryNext]_deliveryVars => SilenceInv'
  <1> SUFFICES ASSUME DeliveryTypeOK, HasRun, SilentOnlyAfterFailure, SilenceKnown,
                      [DeliveryNext]_deliveryVars
               PROVE  SilentOnlyAfterFailure' /\ SilenceKnown'
    BY DEF SilenceInv
  <1>1. CASE BeginRun
    <2>1. /\ Len(rows) \in Nat
          /\ DOMAIN rows = 1..Len(rows) /\ DOMAIN rows' = 1..Len(rows) + 1
          /\ \E live \in BOOLEAN : rows'[Len(rows) + 1] = NewRow(live)
          /\ \A n \in 1..Len(rows) : rows'[n] = rows[n]
      BY <1>1, RunBegins DEF DeliveryTypeOK
    <2>2. step' = "executing" /\ config' = config
      BY <1>1 DEF BeginRun, MoveTo
    <2>3. ~Silent(rows'[Len(rows) + 1])
      BY <2>1 DEF Silent, NewRow
    <2>4. ASSUME NEW n \in 1..Len(rows) + 1, Silent(rows'[n])
          PROVE  \/ ~config.onFailure
                 \/ ~config.discord
                 \/ /\ config.collapse
                    /\ \E m \in 1..n - 1 : rows'[m].failed /\ rows'[m].age <= rows'[n].age + Window
      <3>1. n \in 1..Len(rows)
        BY <2>1, <2>3, <2>4
      <3>2. \A m \in 1..n - 1 : rows'[m] = rows[m]
        BY <2>1, <3>1, EarlierIndex
      <3>3. \/ ~config.onFailure
            \/ ~config.discord
            \/ /\ config.collapse
               /\ \E m \in 1..n - 1 : rows[m].failed /\ rows[m].age <= rows[n].age + Window
        BY <2>1, <2>4, <3>1 DEF SilentOnlyAfterFailure, Silent
      <3> QED
        BY <2>1, <3>1, <3>2, <3>3
    <2> QED
      BY <2>1, <2>2, <2>4 DEF SilentOnlyAfterFailure, SilenceKnown, Silent
  <1>2. CASE TimePasses
    BY <1>2, SilenceAged DEF TimePasses, SilenceKnown
  <1>3. CASE UNCHANGED deliveryVars
    BY <1>3 DEF deliveryVars, SilentOnlyAfterFailure, SilenceKnown, Known, IsLive, Current
  <1>4. CASE \/ RunHandler \/ DecidePrimary \/ SendPrimary \/ DecideAlert \/ SendAlert
             \/ ReportRun \/ LoseRunReport \/ DecideFailure \/ SendFailure \/ ReportRunFailure
             \/ CrashRun \/ RecoverRun
    <2>1. rows # <<>> /\ config' = config
      BY <1>4, CallStep
    <2>2. /\ rows \in Seq(Row) /\ rows[Current] \in Row /\ IsLive \in BOOLEAN
          /\ rows = [rows EXCEPT ![Current] = rows[Current]]
          /\ ending.result \in Result /\ ending.refused \in BOOLEAN
      BY <2>1, CurrentTyped
    <2>3. CASE RunHandler
      <3>1. PICK outcome \in Outcomes(IsLive) :
              /\ ending' = [NoEnding EXCEPT !.result = outcome.result]
              /\ step' = CASE outcome.result.status = "raised" -> "deciding failure"
                           [] outcome.result.status # "raised" /\ config.discord
                                /\ outcome.result.status # "skipped" -> "deciding"
                           [] OTHER -> AfterPrimary(outcome.result)
        BY <2>3 DEF RunHandler
      <3>2. Proper(outcome.result)
        BY OutcomesAreProper
      <3>3. ending'.result = outcome.result /\ ~ending'.refused
        BY <3>1 DEF NoEnding
      <3>4. rows' = rows
        BY <2>3 DEF RunHandler
      <3>5. SilentOnlyAfterFailure' /\ (Known' <=> Known)
        BY <2>1, <3>4 DEF SilentOnlyAfterFailure, Known, Current
      <3>6. AfterPrimary(outcome.result) \in {"deciding alert", "reporting"}
        BY AfterPrimaryStep
      <3>7. step' \in {"deciding alert", "sending alert", "reporting"} /\ Fails(ending'.result)
              => Known
        BY <3>1, <3>2, <3>3, <3>6 DEF Proper, Known
      <3>8. step' # "reporting failure"
        BY <3>1, <3>6
      <3> QED
        BY <3>3, <3>5, <3>7, <3>8 DEF SilenceKnown
    <2>4. CASE DecidePrimary
      <3>1. PICK listed \in BOOLEAN, send \in BOOLEAN :
              /\ Look(ClassifyResult(ending.result), listed)
              /\ send \in Decisions(ending.result, ClassifyResult(ending.result), listed)
              /\ step' = IF send THEN "sending" ELSE AfterPrimary(ending.result)
        BY <2>4, DecisionIsBoolean DEF DecidePrimary, MoveTo
      <3>2. /\ SilentOnlyAfterFailure' /\ (Known' <=> Known) /\ IsLive' = IsLive
            /\ rows'[Current'].tried = rows[Current].tried
        BY <2>1, <3>1, LookIsKnown
      <3>3. ending' = ending /\ ~ending.refused
        BY <2>4 DEF DecidePrimary, SilenceKnown
      <3>4. AfterPrimary(ending.result) \in {"deciding alert", "reporting"}
        BY AfterPrimaryStep
      <3>5. ASSUME step' # "sending", Fails(ending.result) PROVE Known
        <4>1. send \in BOOLEAN
          BY <3>1, DecisionIsBoolean
        <4>2. send = FALSE
          BY <3>1, <3>5, <4>1
        <4>3. ClassifyResult(ending.result) = "failure"
          BY <3>5 DEF ClassifyResult
        <4> QED
          BY <2>1, <3>1, <4>2, <4>3, UndecidedIsKnown
      <3>6. step' # "reporting failure" /\ step' # "deciding"
        BY <3>1, <3>4
      <3> QED
        BY <3>2, <3>3, <3>5, <3>6 DEF SilenceKnown
    <2>5. CASE SendPrimary
      <3>1. PICK how \in Sendings :
              /\ Attempted(how, Fails(ending.result))
              /\ step' = AfterPrimary(WithDelivery(ending.result, how))
        BY <2>5 DEF SendPrimary, MoveTo
      <3>2. Fails(ending.result) \in BOOLEAN
        BY <2>2 DEF Fails, Result
      <3>3. SilentOnlyAfterFailure' /\ (IsLive' => rows'[Current'].tried)
        BY <2>1, <3>1, <3>2, AttemptIsTried
      <3>4. step' \in {"deciding alert", "reporting"}
        BY <3>1, AfterPrimaryStep
      <3> QED
        BY <3>3, <3>4 DEF SilenceKnown
    <2>6. CASE DecideAlert
      <3>1. PICK listed \in BOOLEAN : Look("failure", listed)
        BY <2>6 DEF DecideAlert
      <3>2. /\ SilentOnlyAfterFailure' /\ (Known' <=> Known) /\ IsLive' = IsLive
            /\ rows'[Current'].tried = rows[Current].tried
        BY <2>1, <3>1, LookIsKnown
      <3>3. ending' = ending /\ step = "deciding alert" /\ step' \in {"sending alert", "reporting"}
        BY <2>6 DEF DecideAlert, MoveTo
      <3> QED
        BY <3>2, <3>3 DEF SilenceKnown
    <2>7. CASE SendAlert
      <3>1. PICK how \in Sendings : Attempted(how, TRUE)
        BY <2>7 DEF SendAlert
      <3>2. SilentOnlyAfterFailure' /\ (IsLive' => rows'[Current'].tried)
        BY <2>1, <3>1, AttemptIsTried
      <3>3. step' = "reporting"
        BY <2>7 DEF SendAlert, MoveTo
      <3> QED
        BY <3>2, <3>3 DEF SilenceKnown
    <2>8. CASE ReportRun \/ LoseRunReport
      <3> DEFINE done == Finished(rows[Current], FinalFailed(ending.result, ending.refused))
      <3>1. step = "reporting"
        BY <2>8 DEF ReportRun, LoseRunReport
      <3>2. FinalFailed(ending.result, ending.refused) \in BOOLEAN
        BY <2>2 DEF FinalFailed, Fails, Result
      <3>3. done \in Row /\ Disturb(done) \in Row /\ Disturb(rows[Current]) \in Row
        BY <2>2, <3>2, RowKinds
      <3>4. PICK row \in {done, Disturb(done), Disturb(rows[Current])} :
              rows' = [rows EXCEPT ![Current] = row]
        BY <2>8 DEF ReportRun, LoseRunReport
      <3>5. ASSUME row = Disturb(rows[Current])
            PROVE  SilentOnlyAfterFailure'
        <4>1. SameRun(row)
          BY <2>2, <3>5 DEF SameRun, Disturb, IsLive, Row
        <4> QED
          BY <2>1, <3>3, <3>4, <4>1, SameRunKeepsSilence
      <3>6. ASSUME row \in {done, Disturb(done)}
            PROVE  SilentOnlyAfterFailure'
        <4>1. /\ row.live = IsLive /\ row.age = 0 /\ row.tried = rows[Current].tried
              /\ row.failed = FinalFailed(ending.result, ending.refused)
          BY <2>2, <3>2, <3>6 DEF Finished, Disturb, IsLive, Row
        <4>2. FinalFailed(ending.result, ending.refused)
                => Fails(ending.result) \/ (IsLive /\ ending.refused)
          BY <2>2 DEF FinalFailed, Fails
        <4>3. Silent(row) => Known
          BY <3>1, <4>1, <4>2 DEF Silent, SilenceKnown
        <4>4. Known => Explains(row)
          BY <4>1, DeliveryAssumption DEF Known, Explains
        <4> QED
          BY <2>1, <3>3, <3>4, <4>3, <4>4, SilentKept
      <3>7. step' \in {"idle", "deciding failure"}
        BY <2>8 DEF ReportRun, LoseRunReport, MoveTo
      <3> QED
        BY <3>4, <3>5, <3>6, <3>7 DEF SilenceKnown
    <2>9. CASE DecideFailure
      <3>1. PICK listed \in BOOLEAN :
              /\ Look("failure", listed)
              /\ \E send \in Decisions(Raised, "failure", listed) :
                   MoveTo(IF config.discord /\ send THEN "sending failure" ELSE "reporting failure")
        BY <2>9 DEF DecideFailure
      <3>2. PICK send \in Decisions(Raised, "failure", listed) :
              MoveTo(IF config.discord /\ send THEN "sending failure" ELSE "reporting failure")
        BY <3>1
      <3>3. step' = IF config.discord /\ send THEN "sending failure" ELSE "reporting failure"
        BY <3>2 DEF MoveTo
      <3>4. SilentOnlyAfterFailure' /\ (Known' <=> Known)
        BY <2>1, <3>1, LookIsKnown
      <3>5. step' = "reporting failure" => Known
        <4>1. send \in BOOLEAN
          BY DecisionIsBoolean
        <4>2. CASE ~config.discord
          BY <4>2 DEF Known
        <4>3. CASE send = FALSE
          BY <2>1, <4>3, UndecidedIsKnown
        <4> QED
          BY <3>3, <4>1, <4>2, <4>3
      <3>6. step' \in {"sending failure", "reporting failure"}
        BY <3>3
      <3> QED
        BY <3>4, <3>5, <3>6 DEF SilenceKnown
    <2>10. CASE SendFailure
      <3>1. PICK how \in Sendings : Attempted(how, TRUE)
        BY <2>10 DEF SendFailure
      <3>2. SilentOnlyAfterFailure' /\ (IsLive' => rows'[Current'].tried)
        BY <2>1, <3>1, AttemptIsTried
      <3>3. step' = "reporting failure"
        BY <2>10 DEF SendFailure, MoveTo
      <3> QED
        BY <3>2, <3>3 DEF SilenceKnown
    <2>11. CASE ReportRunFailure
      <3> DEFINE row == Finished(rows[Current], TRUE)
      <3>1. row \in Row
        BY <2>2, RowKinds
      <3>2. /\ rows' = [rows EXCEPT ![Current] = row]
            /\ step = "reporting failure" /\ step' = "idle"
        BY <2>11 DEF ReportRunFailure, MoveTo
      <3>3. row.live = IsLive /\ row.age = 0 /\ row.tried = rows[Current].tried
        BY <2>2 DEF Finished, IsLive, Row
      <3> HIDE DEF row
      <3>4. Silent(row) => Known
        BY <3>2, <3>3 DEF Silent, SilenceKnown
      <3>5. Known => Explains(row)
        BY <3>3, DeliveryAssumption DEF Known, Explains
      <3>6. SilentOnlyAfterFailure'
        BY <2>1, <3>1, <3>2, <3>4, <3>5, SilentKept
      <3> QED
        BY <3>2, <3>6 DEF SilenceKnown
    <2>12. CASE CrashRun
      <3> DEFINE row == Disturb(rows[Current])
      <3>1. row \in Row
        BY <2>2, RowKinds
      <3>2. rows' = [rows EXCEPT ![Current] = row] /\ step' = "idle"
        BY <2>12 DEF CrashRun, MoveTo
      <3>3. SameRun(row)
        BY <2>2 DEF SameRun, Disturb, IsLive, Row
      <3> HIDE DEF row
      <3>4. SilentOnlyAfterFailure'
        BY <2>1, <3>1, <3>2, <3>3, SameRunKeepsSilence
      <3> QED
        BY <3>2, <3>4 DEF SilenceKnown
    <2>13. CASE RecoverRun
      <3> DEFINE row == [Disturb(rows[Current]) EXCEPT !.status = "stale", !.age = 0]
      <3>1. row \in Row
        BY <2>2, RowKinds
      <3>2. rows' = [rows EXCEPT ![Current] = row] /\ step' \in {"idle", "executing"}
        BY <2>13 DEF RecoverRun
      <3>3. ~Silent(row)
        BY <2>2 DEF Silent, Disturb, Row
      <3> HIDE DEF row
      <3>4. SilentOnlyAfterFailure'
        BY <2>1, <3>1, <3>2, <3>3, SilentKept
      <3> QED
        BY <3>2, <3>4 DEF SilenceKnown
    <2> QED
      BY <1>4, <2>3, <2>4, <2>5, <2>6, <2>7, <2>8, <2>9, <2>10, <2>11, <2>12, <2>13
  <1> QED
    BY <1>1, <1>2, <1>3, <1>4 DEF DeliveryNext

\* A failed live run of which nobody was told is explained by what the task
\* wants or by a failure on record (notification_decision, has_recent_failure
\* and the except branch of execute_task), also when calls fail in between.
THEOREM SilenceIsExplained == DeliverySpec => []SilentOnlyAfterFailure
  <1>1. DeliveryInit => DeliveryTypeOK /\ HasRun /\ SilenceInv
    BY DeliveryTypesInit, SilenceInit
  <1>2. DeliveryTypeOK /\ HasRun /\ SilenceInv /\ [DeliveryNext]_deliveryVars
          => (DeliveryTypeOK /\ HasRun /\ SilenceInv)'
    BY DeliveryTypesStep, SilenceStep
  <1>3. SilenceInv => SilentOnlyAfterFailure
    BY DEF SilenceInv
  <1> QED
    BY <1>1, <1>2, <1>3, PTL DEF DeliverySpec

-----------------------------------------------------------------------------
(* Theorem: failure messages are collapsed *)

LEMMA AlertKept ==
  ASSUME DeliveryTypeOK, rows # <<>>, config' = config, AlertsCollapsed, AnnouncedFailed,
         NEW row \in Row, rows' = [rows EXCEPT ![Current] = row],
         Announced(row) => row.failed /\ row.age = 0 /\ (config.collapse => ~HasRecentFailure),
         Justified(row, step', ending'.result, HasRecentFailure)
  PROVE  AlertInv'
  <1>1. rows \in Seq(Row)
    BY DEF DeliveryTypeOK
  <1>2. /\ Len(rows) \in Nat \ {0} /\ Len(rows') = Len(rows)
        /\ DOMAIN rows = 1..Len(rows) /\ DOMAIN rows' = 1..Len(rows)
        /\ rows'[Len(rows)] = row
        /\ \A n \in 1..Len(rows) : n # Len(rows) => rows'[n] = rows[n]
    BY <1>1, CurrentChanges
  <1>3. Current = Len(rows) /\ Current' = Len(rows)
    BY <1>2 DEF Current
  <1>4. HasRecentFailure' <=> HasRecentFailure
    BY <1>2, <1>3 DEF HasRecentFailure
  <1>5. AlertJustified'
    <2>1. rows'[Current'] = row
      BY <1>2, <1>3
    <2> QED
      BY <1>4, <2>1 DEF AlertJustified, Justified
  <1>6. AnnouncedFailed'
    BY <1>2 DEF AnnouncedFailed
  <1>7. ASSUME NEW m \in 1..Len(rows), NEW n \in 1..Len(rows), m < n, n - m < RecentLimit,
               config.collapse, Announced(rows'[m]), Announced(rows'[n])
        PROVE  rows'[m].age > rows'[n].age + Window \/ rows'[m].age = Oldest
    <2>1. m # Len(rows) /\ rows'[m] = rows[m]
      <3>1. Len(rows) \in Nat
        BY <1>2
      <3>2. m # Len(rows)
        BY <1>7, <3>1
      <3> QED
        BY <1>2, <3>2
    <2>2. CASE n # Len(rows)
      BY <1>2, <1>7, <2>1, <2>2 DEF AlertsCollapsed, Announced
    <2>3. CASE n = Len(rows)
      <3>1. rows'[n] = row /\ row.age = 0 /\ ~HasRecentFailure
        BY <1>2, <1>7, <2>3
      <3>2. rows[m].failed /\ rows[m].status # "running" /\ rows[m] \in Row
        BY <1>1, <1>2, <1>7, <2>1, ElementOfSeq DEF AnnouncedFailed, Announced
      <3>3. m > Len(rows) - RecentLimit
        <4>1. Len(rows) \in Nat
          BY <1>2
        <4> QED
          BY <1>7, <2>3, <4>1, DeliveryAssumption
      <3>4. ~(rows[m].age <= Window)
        BY <1>2, <1>3, <2>1, <3>1, <3>2, <3>3 DEF HasRecentFailure
      <3>5. rows[m].age \in Nat
        BY <3>2, DeliveryAssumption DEF Row, Oldest
      <3>6. rows[m].age > 0 + Window
        BY <3>4, <3>5, DeliveryAssumption
      <3> QED
        BY <2>1, <3>1, <3>6
    <2> QED
      BY <2>2, <2>3
  <1>8. AlertsCollapsed'
    BY <1>2, <1>7 DEF AlertsCollapsed, Announced
  <1> QED
    BY <1>5, <1>6, <1>8 DEF AlertInv

LEMMA AlertInit == DeliveryInit => AlertInv
  <1> SUFFICES ASSUME DeliveryInit PROVE AlertInv
    OBVIOUS
  <1>1. DOMAIN rows = {} /\ step = "idle"
    BY EmptySeq DEF DeliveryInit
  <1> QED
    BY <1>1 DEF AlertInv, AlertsCollapsed, AnnouncedFailed, AlertJustified, Justified

\* A sum cut off at Oldest keeps its distance, or is Oldest.
LEMMA AgesApart ==
  ASSUME NEW a \in Nat, NEW b \in Nat, a > b + Window \/ a = Oldest
  PROVE  \/ LowerOf(a + 1, Oldest) > LowerOf(b + 1, Oldest) + Window
         \/ LowerOf(a + 1, Oldest) = Oldest
  BY DeliveryAssumption DEF LowerOf, Oldest

LEMMA AlertAged ==
  ASSUME DeliveryTypeOK, HasRun, AlertInv, TimePasses PROVE AlertInv'
  <1>1. rows \in Seq(Row) /\ config' = config /\ ending' = ending /\ step' = step
        /\ step \in {"idle", "executing"}
    BY DEF DeliveryTypeOK, TimePasses
  <1>2. /\ DOMAIN rows = 1..Len(rows) /\ DOMAIN rows' = 1..Len(rows) /\ Len(rows) \in Nat
        /\ Len(rows') = Len(rows)
        /\ \A n \in 1..Len(rows) :
             /\ rows[n] \in Row
             /\ rows'[n] = IF rows[n].status = "running" THEN rows[n]
                           ELSE [rows[n] EXCEPT !.age = LowerOf(rows[n].age + 1, Oldest)]
    BY <1>1, AgedRows, LenProperties
  <1>3. ASSUME NEW n \in 1..Len(rows)
        PROVE  /\ rows'[n].status = rows[n].status /\ rows'[n].failed = rows[n].failed
               /\ rows'[n].alerted = rows[n].alerted /\ rows'[n].disturbed = rows[n].disturbed
               /\ rows[n].age \in Nat
               /\ rows[n].status # "running" =>
                    rows'[n].age = LowerOf(rows[n].age + 1, Oldest)
    BY <1>2, DeliveryAssumption DEF Row, Oldest
  <1>4. AnnouncedFailed'
    BY <1>2, <1>3 DEF AnnouncedFailed, Announced, AlertInv
  <1>5. AlertJustified'
    <2>1. CASE step = "idle"
      BY <1>1, <2>1 DEF AlertJustified, Justified
    <2>2. CASE step = "executing"
      <3>1. Len(rows) \in 1..Len(rows)
        BY <1>1, <2>2, EmptySeq DEF HasRun
      <3>2. Current = Len(rows) /\ Current' = Len(rows)
        BY <1>2 DEF Current
      <3> QED
        BY <1>1, <1>3, <2>2, <3>1, <3>2 DEF AlertJustified, Justified, AlertInv
    <2> QED
      BY <1>1, <2>1, <2>2
  <1>6. ASSUME NEW m \in 1..Len(rows), NEW n \in 1..Len(rows), m < n, n - m < RecentLimit,
               config.collapse, Announced(rows'[m]), Announced(rows'[n])
        PROVE  rows'[m].age > rows'[n].age + Window \/ rows'[m].age = Oldest
    <2>1. Announced(rows[m]) /\ Announced(rows[n])
      BY <1>3, <1>6 DEF Announced
    <2>2. rows[m].age > rows[n].age + Window \/ rows[m].age = Oldest
      BY <1>2, <1>6, <2>1 DEF AlertInv, AlertsCollapsed, Announced
    <2>3. /\ rows'[m].age = LowerOf(rows[m].age + 1, Oldest)
          /\ rows'[n].age = LowerOf(rows[n].age + 1, Oldest)
          /\ rows[m].age \in Nat /\ rows[n].age \in Nat
      BY <1>3, <2>1 DEF Announced
    <2> QED
      BY <2>2, <2>3, AgesApart
  <1>7. AlertsCollapsed'
    BY <1>1, <1>2, <1>6 DEF AlertsCollapsed, Announced
  <1> QED
    BY <1>4, <1>5, <1>7 DEF AlertInv

LEMMA SentIsFirst ==
  ASSUME NEW result, NEW listed \in BOOLEAN, NEW send, send = TRUE,
         send \in Decisions(result, "failure", listed), config.collapse, listed
  PROVE  ~HasRecentFailure
  BY Zenon DEF Decisions

LEMMA AlarmIsFailure ==
  ASSUME NEW result, AfterPrimary(result) = "deciding alert" PROVE result.alert
  BY DEF AfterPrimary

\* A look at the run table, and where the decision leads.
LEMMA LookJustified ==
  ASSUME DeliveryTypeOK, rows # <<>>, config' = config, AlertInv, step # "idle",
         NEW class, NEW listed \in BOOLEAN, Look(class, listed),
         \A row \in Row :
           /\ row.status = rows[Current].status /\ row.alerted = rows[Current].alerted
           /\ rows[Current].disturbed => row.disturbed
           /\ ~listed => row.disturbed
           => Justified(row, step', ending'.result, HasRecentFailure)
  PROVE  AlertInv'
  <1>1. PICK row \in Row : /\ rows' = [rows EXCEPT ![Current] = row]
                           /\ row = IF listed THEN rows[Current] ELSE Disturb(rows[Current])
    BY LookedRow
  <1>2. /\ row.status = rows[Current].status /\ row.alerted = rows[Current].alerted
        /\ rows[Current].disturbed => row.disturbed
        /\ ~listed => row.disturbed
    BY <1>1, CurrentTyped DEF Disturb, Row
  <1>3. Justified(row, step', ending'.result, HasRecentFailure)
    BY <1>2
  <1>4. ~Announced(row)
    BY <1>2 DEF Announced, AlertInv, AlertJustified, Justified
  <1> QED
    BY <1>1, <1>3, <1>4, AlertKept DEF AlertInv

\* A delivery, and where it leads.
LEMMA AttemptJustified ==
  ASSUME DeliveryTypeOK, rows # <<>>, config' = config, AlertInv, step # "idle",
         NEW how \in Sendings, NEW isAlert \in BOOLEAN, Attempted(how, isAlert),
         \A row \in Row :
           /\ row.status = rows[Current].status /\ row.disturbed = rows[Current].disturbed
           /\ row.alerted => rows[Current].alerted \/ isAlert
           => Justified(row, step', ending'.result, HasRecentFailure)
  PROVE  AlertInv'
  <1>1. PICK row \in Row :
          /\ rows' = [rows EXCEPT ![Current] = row]
          /\ row = [rows[Current] EXCEPT
                      !.tried = rows[Current].tried \/ IsLive,
                      !.alerted = rows[Current].alerted \/ (how = "delivered" /\ isAlert)]
    BY CurrentTyped, AttemptedRow
  <1>2. /\ row.status = rows[Current].status /\ row.disturbed = rows[Current].disturbed
        /\ row.alerted => rows[Current].alerted \/ isAlert
    BY <1>1, CurrentTyped DEF Row
  <1>3. Justified(row, step', ending'.result, HasRecentFailure)
    BY <1>2
  <1>4. ~Announced(row)
    BY <1>2 DEF Announced, AlertInv, AlertJustified, Justified
  <1> QED
    BY <1>1, <1>3, <1>4, AlertKept DEF AlertInv

LEMMA AlertBegins ==
  ASSUME DeliveryTypeOK, AlertInv, BeginRun PROVE AlertInv'
  <1>1. /\ Len(rows) \in Nat /\ Len(rows') = Len(rows) + 1
        /\ DOMAIN rows = 1..Len(rows) /\ DOMAIN rows' = 1..Len(rows) + 1
        /\ \E live \in BOOLEAN : rows'[Len(rows) + 1] = NewRow(live)
        /\ \A n \in 1..Len(rows) : rows'[n] = rows[n]
    BY RunBegins DEF DeliveryTypeOK
  <1>2. step' = "executing" /\ config' = config
    BY DEF BeginRun, MoveTo
  <1>3. /\ rows'[Len(rows) + 1].status = "running" /\ ~rows'[Len(rows) + 1].alerted
        /\ ~Announced(rows'[Len(rows) + 1])
    BY <1>1 DEF NewRow, Announced
  <1>4. Current' = Len(rows) + 1
    BY <1>1 DEF Current
  <1>5. AlertJustified'
    BY <1>2, <1>3, <1>4 DEF AlertJustified, Justified
  <1>6. \A n \in 1..Len(rows) + 1 : Announced(rows'[n]) => n \in 1..Len(rows)
    BY <1>1, <1>3
  <1>7. AnnouncedFailed'
    BY <1>1, <1>6 DEF AnnouncedFailed, AlertInv
  <1>8. AlertsCollapsed'
    BY <1>1, <1>2, <1>6 DEF AlertsCollapsed, AlertInv, Announced
  <1> QED
    BY <1>5, <1>7, <1>8 DEF AlertInv

LEMMA AlertStep ==
  DeliveryTypeOK /\ HasRun /\ AlertInv /\ [DeliveryNext]_deliveryVars => AlertInv'
  <1> SUFFICES ASSUME DeliveryTypeOK, HasRun, AlertInv, [DeliveryNext]_deliveryVars
               PROVE  AlertInv'
    OBVIOUS
  <1>1. CASE BeginRun
    BY <1>1, AlertBegins
  <1>2. CASE TimePasses
    BY <1>2, AlertAged
  <1>3. CASE UNCHANGED deliveryVars
    BY <1>3 DEF deliveryVars, AlertInv, AlertsCollapsed, AnnouncedFailed, AlertJustified,
                Justified, HasRecentFailure, Current
  <1>4. CASE \/ RunHandler \/ DecidePrimary \/ SendPrimary \/ DecideAlert \/ SendAlert
             \/ ReportRun \/ LoseRunReport \/ DecideFailure \/ SendFailure \/ ReportRunFailure
             \/ CrashRun \/ RecoverRun
    <2>1. rows # <<>> /\ config' = config
      BY <1>4, CallStep
    <2>2. /\ rows \in Seq(Row) /\ rows[Current] \in Row /\ IsLive \in BOOLEAN
          /\ rows = [rows EXCEPT ![Current] = rows[Current]]
          /\ ending.result \in Result /\ ending.refused \in BOOLEAN
      BY <2>1, CurrentTyped
    <2>3. /\ AlertsCollapsed /\ AnnouncedFailed
          /\ Justified(rows[Current], step, ending.result, HasRecentFailure)
      BY DEF AlertInv, AlertJustified
    <2>4. step # "idle" => ~Announced(rows[Current])
      BY <2>3 DEF Justified, Announced
    <2>5. CASE RunHandler
      <3>1. PICK outcome \in Outcomes(IsLive) :
              /\ ending' = [NoEnding EXCEPT !.result = outcome.result]
              /\ step' = CASE outcome.result.status = "raised" -> "deciding failure"
                           [] outcome.result.status # "raised" /\ config.discord
                                /\ outcome.result.status # "skipped" -> "deciding"
                           [] OTHER -> AfterPrimary(outcome.result)
        BY <2>5 DEF RunHandler
      <3>2. outcome.result.alert => Fails(outcome.result)
        BY OutcomesAreProper DEF Proper
      <3>3. ending'.result = outcome.result
        BY <3>1 DEF NoEnding
      <3>4. rows' = rows /\ step = "executing"
        BY <2>5 DEF RunHandler
      <3>5. /\ step' \in {"deciding failure", "deciding", "deciding alert", "reporting"}
            /\ step' = "deciding alert" => outcome.result.alert
        BY <3>1, AfterPrimaryStep, AlarmIsFailure
      <3>6. Justified(rows[Current], step', ending'.result, HasRecentFailure)
        BY <2>3, <3>2, <3>3, <3>4, <3>5 DEF Justified
      <3> QED
        BY <2>1, <2>2, <2>3, <2>4, <3>4, <3>6, AlertKept
    <2>6. CASE DecidePrimary
      <3>1. PICK listed \in BOOLEAN, send \in BOOLEAN :
              /\ Look(ClassifyResult(ending.result), listed)
              /\ send \in Decisions(ending.result, ClassifyResult(ending.result), listed)
              /\ step' = IF send THEN "sending" ELSE AfterPrimary(ending.result)
        BY <2>6, DecisionIsBoolean DEF DecidePrimary, MoveTo
      <3>2. ending' = ending /\ step = "deciding"
        BY <2>6 DEF DecidePrimary
      <3>3. /\ step' \in {"sending", "deciding alert", "reporting"}
            /\ step' = "deciding alert" => ending.result.alert
        BY <3>1, AfterPrimaryStep, AlarmIsFailure
      <3>4. ASSUME step' = "sending", Fails(ending.result), config.collapse, listed
            PROVE  ~HasRecentFailure
        <4>1. send \in BOOLEAN
          BY <3>1, DecisionIsBoolean
        <4>2. send = TRUE
          BY <3>1, <3>4, <4>1, AfterPrimaryStep
        <4>3. ClassifyResult(ending.result) = "failure"
          BY <3>4 DEF ClassifyResult
        <4> QED
          BY <3>1, <3>4, <4>2, <4>3, SentIsFirst
      <3>5. ASSUME NEW row \in Row,
                   row.status = rows[Current].status, row.alerted = rows[Current].alerted,
                   rows[Current].disturbed => row.disturbed, ~listed => row.disturbed
            PROVE  Justified(row, step', ending'.result, HasRecentFailure)
        BY <2>3, <3>2, <3>3, <3>4, <3>5 DEF Justified
      <3> QED
        BY <2>1, <3>1, <3>2, <3>5, LookJustified
    <2>7. CASE SendPrimary
      <3>1. PICK how \in Sendings :
              /\ Attempted(how, Fails(ending.result))
              /\ ending'.result = WithDelivery(ending.result, how)
              /\ step' = AfterPrimary(WithDelivery(ending.result, how))
        BY <2>7 DEF SendPrimary, MoveTo
      <3>2. step = "sending" /\ Fails(ending.result) \in BOOLEAN
        BY <2>2, <2>7 DEF SendPrimary, Fails, Result
      <3>3. /\ step' \in {"deciding alert", "reporting"}
            /\ step' = "deciding alert" => ending'.result.alert
        BY <3>1, AfterPrimaryStep, AlarmIsFailure
      <3>4. /\ Fails(ending.result) => Fails(ending'.result)
            /\ ending'.result.alert => Fails(ending'.result) \/ ending.result.alert
        BY <2>2, <3>1, WithDeliveryTyped
      <3>5. ASSUME NEW row \in Row,
                   row.status = rows[Current].status, row.disturbed = rows[Current].disturbed,
                   row.alerted => rows[Current].alerted \/ Fails(ending.result)
            PROVE  Justified(row, step', ending'.result, HasRecentFailure)
        BY <2>3, <3>2, <3>3, <3>4, <3>5 DEF Justified
      <3> QED
        BY <2>1, <3>1, <3>2, <3>5, AttemptJustified
    <2>8. CASE DecideAlert \/ DecideFailure
      <3>1. PICK listed \in BOOLEAN, result \in {ending.result, Raised} :
              /\ Look("failure", listed)
              /\ \E send \in Decisions(result, "failure", listed) :
                   step' \in {"sending alert", "sending failure"} => send
        <4>1. CASE DecideAlert
          BY <4>1 DEF DecideAlert, MoveTo
        <4>2. CASE DecideFailure
          BY <4>2 DEF DecideFailure, MoveTo
        <4> QED
          BY <2>8, <4>1, <4>2
      <3>2. PICK send \in Decisions(result, "failure", listed) :
              step' \in {"sending alert", "sending failure"} => send
        BY <3>1
      <3>3. /\ ending' = ending
            /\ \/ step = "deciding alert" /\ step' \in {"sending alert", "reporting"}
               \/ step = "deciding failure" /\ step' \in {"sending failure", "reporting failure"}
        BY <2>8 DEF DecideAlert, DecideFailure, MoveTo
      <3>4. ASSUME step' \in {"sending alert", "sending failure"}, config.collapse, listed
            PROVE  ~HasRecentFailure
        <4>1. send = TRUE
          BY <3>2, <3>4, DecisionIsBoolean
        <4> QED
          BY <3>4, <4>1, SentIsFirst
      <3>5. ASSUME NEW row \in Row,
                   row.status = rows[Current].status, row.alerted = rows[Current].alerted,
                   rows[Current].disturbed => row.disturbed, ~listed => row.disturbed
            PROVE  Justified(row, step', ending'.result, HasRecentFailure)
        BY <2>3, <3>3, <3>4, <3>5 DEF Justified
      <3> QED
        BY <2>1, <3>1, <3>3, <3>5, LookJustified
    <2>9. CASE SendAlert \/ SendFailure
      <3>1. PICK how \in Sendings : Attempted(how, TRUE)
        BY <2>9 DEF SendAlert, SendFailure
      <3>2. /\ ending' = ending
            /\ \/ step = "sending alert" /\ step' = "reporting"
               \/ step = "sending failure" /\ step' = "reporting failure"
        BY <2>9 DEF SendAlert, SendFailure, MoveTo
      <3>3. ASSUME NEW row \in Row,
                   row.status = rows[Current].status, row.disturbed = rows[Current].disturbed
            PROVE  Justified(row, step', ending'.result, HasRecentFailure)
        BY <2>3, <3>2, <3>3 DEF Justified
      <3> QED
        BY <2>1, <3>1, <3>2, <3>3, AttemptJustified
    <2>10. CASE ReportRun \/ ReportRunFailure
      <3>1. PICK failed \in BOOLEAN :
              /\ rows' = [rows EXCEPT ![Current] = Finished(rows[Current], failed)]
              /\ step # "idle"
              /\ step = "reporting" /\ Fails(ending.result) => failed
              /\ step # "reporting" => failed
        <4>1. CASE ReportRun
          <5>1. FinalFailed(ending.result, ending.refused) \in BOOLEAN
            BY <2>2 DEF FinalFailed, Fails, Result
          <5> QED
            BY <4>1, <5>1 DEF ReportRun, FinalFailed
        <4>2. CASE ReportRunFailure
          BY <4>2 DEF ReportRunFailure
        <4> QED
          BY <2>10, <4>1, <4>2
      <3> DEFINE row == Finished(rows[Current], failed)
      <3>2. row \in Row
        BY <2>2, RowKinds
      <3>3. /\ row.failed = failed /\ row.age = 0 /\ row.alerted = rows[Current].alerted
            /\ row.disturbed = rows[Current].disturbed
        BY <2>2 DEF Finished, Row
      <3>4. step' = "idle"
        BY <2>10 DEF ReportRun, ReportRunFailure, MoveTo
      <3>5. rows' = [rows EXCEPT ![Current] = row]
        BY <3>1
      <3> HIDE DEF row
      <3>6. Announced(row) => row.failed /\ row.age = 0 /\ (config.collapse => ~HasRecentFailure)
        BY <2>3, <3>1, <3>3 DEF Announced, Justified
      <3>7. Justified(row, step', ending'.result, HasRecentFailure)
        BY <3>4 DEF Justified
      <3> QED
        BY <2>1, <2>3, <3>2, <3>5, <3>6, <3>7, AlertKept
    <2>11. CASE LoseRunReport \/ CrashRun \/ RecoverRun
      <3>1. PICK row \in Row :
              /\ rows' = [rows EXCEPT ![Current] = row]
              /\ row.disturbed
              /\ step' = "executing" => row.alerted = rows[Current].alerted
        <4>1. CASE LoseRunReport
          <5>1. FinalFailed(ending.result, ending.refused) \in BOOLEAN
            BY <2>2 DEF FinalFailed, Fails, Result
          <5>2. PICK row \in {rows[Current],
                              Finished(rows[Current], FinalFailed(ending.result, ending.refused))} :
                  rows' = [rows EXCEPT ![Current] = Disturb(row)]
            BY <4>1 DEF LoseRunReport
          <5>3. row \in Row
            BY <2>2, <5>1, <5>2, RowKinds
          <5>4. Disturb(row) \in Row /\ Disturb(row).disturbed
            BY <5>3, RowKinds DEF Disturb, Row
          <5>5. step' # "executing"
            BY <4>1 DEF LoseRunReport, MoveTo
          <5> QED
            BY <5>2, <5>4, <5>5
        <4>2. CASE CrashRun
          <5>1. /\ Disturb(rows[Current]) \in Row /\ Disturb(rows[Current]).disturbed
                /\ Disturb(rows[Current]).alerted = rows[Current].alerted
            BY <2>2, RowKinds DEF Disturb, Row
          <5> QED
            BY <4>2, <5>1 DEF CrashRun
        <4>3. CASE RecoverRun
          <5> DEFINE stale == [Disturb(rows[Current]) EXCEPT !.status = "stale", !.age = 0]
          <5>1. /\ stale \in Row /\ stale.disturbed /\ stale.alerted = rows[Current].alerted
            BY <2>2, RowKinds DEF Disturb, Row
          <5>2. rows' = [rows EXCEPT ![Current] = stale]
            BY <4>3 DEF RecoverRun
          <5> HIDE DEF stale
          <5> QED
            BY <5>1, <5>2
        <4> QED
          BY <2>11, <4>1, <4>2, <4>3
      <3>2. /\ step' \in {"deciding failure", "idle", "executing"}
            /\ step' = "executing" => step = "executing"
        BY <2>11 DEF LoseRunReport, CrashRun, RecoverRun, MoveTo
      <3>3. ~Announced(row)
        BY <3>1 DEF Announced
      <3>4. Justified(row, step', ending'.result, HasRecentFailure)
        BY <2>3, <3>1, <3>2 DEF Justified
      <3> QED
        BY <2>1, <2>3, <3>1, <3>3, <3>4, AlertKept
    <2> QED
      BY <1>4, <2>5, <2>6, <2>7, <2>8, <2>9, <2>10, <2>11
  <1> QED
    BY <1>1, <1>2, <1>3, <1>4 DEF DeliveryNext

\* With collapsing on, two failure messages of undisturbed runs are a window
\* apart, or as many runs as has_recent_failure looks at: whatever announces a
\* failure in execute_task also leaves the record that the next run's
\* notification_decision recognises.
THEOREM AlertsAreCollapsed == DeliverySpec => []AlertsCollapsed
  <1>1. DeliveryInit => DeliveryTypeOK /\ HasRun /\ AlertInv
    BY DeliveryTypesInit, AlertInit
  <1>2. DeliveryTypeOK /\ HasRun /\ AlertInv /\ [DeliveryNext]_deliveryVars
          => (DeliveryTypeOK /\ HasRun /\ AlertInv)'
    BY DeliveryTypesStep, AlertStep
  <1>3. AlertInv => AlertsCollapsed
    BY DEF AlertInv
  <1> QED
    BY <1>1, <1>2, <1>3, PTL DEF DeliverySpec

-----------------------------------------------------------------------------
(* Loops *)

LEMMA LeastElement ==
  ASSUME NEW T \in SUBSET Nat, T # {}
  PROVE  \E n \in T : \A k \in T : n <= k
<1>1. PICK n \in T : \A k \in T : ~(<<k, n>> \in OpToRel(<, Nat))
  BY WFMin, NatLessThanWellFounded
<1>2. \A k \in T : ~(k < n)
  BY <1>1 DEF OpToRel
<1>. QED
  BY <1>2

\* What each turn of a loop keeps, the loop keeps: after n turns its state f[n]
\* is in Good[n].
LEMMA LoopKeeps ==
  ASSUME NEW N \in Nat, NEW f, NEW Good, f[0] \in Good[0],
         \A n \in 1..N : f[n - 1] \in Good[n - 1] => f[n] \in Good[n]
  PROVE  \A n \in 0..N : f[n] \in Good[n]
<1>. DEFINE Bad == {n \in 0..N : f[n] \notin Good[n]}
<1>1. SUFFICES ASSUME Bad # {} PROVE FALSE
  OBVIOUS
<1>2. Bad \in SUBSET Nat
  OBVIOUS
<1>3. PICK n \in Bad : \A k \in Bad : n <= k
  <2>. HIDE DEF Bad
  <2>. QED
    BY <1>1, <1>2, LeastElement
<1>4. n \in 1..N
  BY <1>3
<1>5. n - 1 \in 0..N /\ n - 1 \notin Bad
  BY <1>3, <1>4
<1>6. f[n - 1] \in Good[n - 1]
  BY <1>5
<1>. QED
  BY <1>3, <1>4, <1>6

\* f[n] is the state of a loop after n turns.
IsLoop(f, N, start, turn) == f = [n \in 0..N |-> IF n = 0 THEN start ELSE turn[n][f[n - 1]]]

\* A loop ends: its states exist, whatever its turns are.
LEMMA LoopEnds ==
  ASSUME NEW N \in Nat, NEW start, NEW turn
  PROVE  \E f : IsLoop(f, N, start, turn)
<1>. DEFINE Path(f, m) == IsLoop(f, m, start, turn)
            Stuck == {m \in 0..N : ~\E f : Path(f, m)}
<1>1. SUFFICES ASSUME Stuck # {} PROVE FALSE
  <2>1. N \in 0..N
    OBVIOUS
  <2>. QED
    BY <2>1
<1>2. PICK m \in Stuck : \A k \in Stuck : m <= k
  <2>1. Stuck \in SUBSET Nat
    OBVIOUS
  <2>. HIDE DEF Stuck
  <2>. QED
    BY <1>1, <2>1, LeastElement
<1>3. m \in 0..N /\ ~\E f : Path(f, m)
  BY <1>2
<1>4. CASE m = 0
  <2>. DEFINE f == [n \in 0..0 |-> start]
  <2>1. f = [n \in 0..0 |-> IF n = 0 THEN start ELSE turn[n][f[n - 1]]]
    OBVIOUS
  <2>2. Path(f, m)
    BY <1>4, <2>1 DEF IsLoop
  <2>. QED
    BY <1>3, <2>2
<1>5. CASE m # 0
  <2>1. m - 1 \in 0..N /\ m - 1 \notin Stuck
    <3>. HIDE DEF Stuck
    <3>1. m - 1 \in 0..N /\ ~(m <= m - 1)
      BY <1>3, <1>5
    <3>. QED
      BY <1>2, <3>1
  <2>2. PICK g : Path(g, m - 1)
    BY <2>1
  <2>. DEFINE h == [n \in 0..m |-> IF n = m THEN turn[m][g[m - 1]] ELSE g[n]]
  <2>3. ASSUME NEW n \in 0..m
        PROVE  h[n] = IF n = 0 THEN start ELSE turn[n][h[n - 1]]
    <3>1. CASE n = m
      <4>1. m - 1 \in 0..m /\ m - 1 # m
        BY <1>3, <1>5
      <4>. QED
        BY <1>5, <3>1, <4>1
    <3>2. CASE n # m
      <4>1. n \in 0..(m - 1) /\ n - 1 # m /\ (n # 0 => n - 1 \in 0..m)
        BY <1>3, <3>2
      <4>2. h[n] = g[n] /\ (n # 0 => h[n - 1] = g[n - 1])
        BY <3>2, <4>1
      <4>3. g[n] = IF n = 0 THEN start ELSE turn[n][g[n - 1]]
        BY <2>2, <4>1 DEF IsLoop
      <4>. QED
        BY <4>2, <4>3
    <3>. QED
      BY <3>1, <3>2
  <2>4. Path(h, m)
    <3>1. h = [n \in 0..m |-> h[n]]
      OBVIOUS
    <3>. HIDE DEF h
    <3>. QED
      BY <2>3, <3>1 DEF IsLoop
  <2>. QED
    BY <1>3, <2>4
<1>. QED
  BY <1>4, <1>5

-----------------------------------------------------------------------------
(* Collecting items *)

\* Items out of T, at most so many, no story twice.
ItemLists(T, most) ==
  {s \in Seq(T) : Len(s) <= most /\ \A m, n \in DOMAIN s : s[m].key = s[n].key => m = n}

LEMMA AddedItem ==
  ASSUME NEW T, NEW full \in Nat, NEW items \in ItemLists(T, full), NEW id,
         NEW entry, [entry |-> entry, key |-> entry.key, source |-> id] \in T
  PROVE  AddItem(items, entry, id, full) \in ItemLists(T, full)
<1>. DEFINE item == [entry |-> entry, key |-> entry.key, source |-> id]
            longer == Append(items, item)
<1>1. items \in Seq(T) /\ Len(items) \in Nat /\ DOMAIN items = 1..Len(items)
  BY DEF ItemLists
<1>2. CASE Len(items) >= full \/ ~entry.keep \/ entry.key \in KeysOf(items)
  BY <1>2 DEF AddItem
<1>3. CASE ~(Len(items) >= full \/ ~entry.keep \/ entry.key \in KeysOf(items))
  <2>1. AddItem(items, entry, id, full) = longer
    BY <1>3 DEF AddItem
  <2>2. \A n \in 1..Len(items) : items[n].key # item.key
    BY <1>1, <1>3 DEF KeysOf
  <2>. HIDE DEF item
  <2>3. /\ longer \in Seq(T) /\ Len(longer) = Len(items) + 1
        /\ \A n \in 1..Len(items) : longer[n] = items[n]
        /\ longer[Len(items) + 1] = item
    BY <1>1, AppendProperties DEF item
  <2>4. Len(longer) <= full
    BY <1>1, <1>3, <2>3
  <2>5. DOMAIN longer = 1..(Len(items) + 1)
    BY <2>3
  <2>6. \A m, n \in 1..Len(items) : items[m].key = items[n].key => m = n
    BY <1>1 DEF ItemLists
  <2>7. ASSUME NEW m \in DOMAIN longer, NEW n \in DOMAIN longer, longer[m].key = longer[n].key
        PROVE  m = n
    <3>. HIDE DEF longer
    <3>1. m \in 1..Len(items) \/ m = Len(items) + 1
      BY <1>1, <2>5
    <3>2. n \in 1..Len(items) \/ n = Len(items) + 1
      BY <1>1, <2>5
    <3>. QED
      BY <2>2, <2>3, <2>6, <2>7, <3>1, <3>2
  <2>. QED
    BY <2>1, <2>3, <2>4, <2>7 DEF ItemLists
<1>. QED
  BY <1>2, <1>3

\* The loop over the entries of a source.
LEMMA AddedItems ==
  ASSUME NEW T, NEW full \in Nat, NEW items \in ItemLists(T, full), NEW id, NEW E, NEW entries \in Seq(E),
         \A entry \in E : [entry |-> entry, key |-> entry.key, source |-> id] \in T
  PROVE  AddItems(items, entries, id, full) \in ItemLists(T, full)
<1>. DEFINE N == Len(entries)
            lists == ItemLists(T, full)
            turn == [n \in 1..N |-> [x \in lists |-> AddItem(x, entries[n], id, full)]]
            Good == [n \in 0..N |-> lists]
            Adds(f) == f = [n \in 0..N |-> IF n = 0 THEN items ELSE AddItem(f[n - 1], entries[n], id, full)]
            after == CHOOSE f : Adds(f)
<1>1. N \in Nat /\ \A n \in 1..N : entries[n] \in E
  OBVIOUS
<1>2. \A n \in 1..N : \A x \in lists : AddItem(x, entries[n], id, full) \in lists
  <2>. HIDE DEF N
  <2>. QED
    BY <1>1, AddedItem
<1>3. \E f : Adds(f)
  <2>1. PICK f : IsLoop(f, N, items, turn)
    <3>. HIDE DEF N, turn
    <3>. QED
      BY <1>1, LoopEnds
  <2>2. f = [n \in 0..N |-> IF n = 0 THEN items ELSE turn[n][f[n - 1]]]
    BY <2>1 DEF IsLoop
  <2>3. f[0] \in Good[0]
    BY <1>1, <2>2
  <2>4. ASSUME NEW n \in 1..N, f[n - 1] \in lists
        PROVE  f[n] = AddItem(f[n - 1], entries[n], id, full) /\ f[n] \in lists
    <3>1. n \in 0..N /\ n # 0
      BY <1>1
    <3>2. f[n] = turn[n][f[n - 1]]
      BY <2>2, <3>1
    <3>3. turn[n][f[n - 1]] = AddItem(f[n - 1], entries[n], id, full)
      BY <2>4
    <3>. QED
      BY <1>2, <2>4, <3>2, <3>3
  <2>5. \A n \in 1..N : f[n - 1] \in Good[n - 1] => f[n] \in Good[n]
    BY <1>1, <2>4
  <2>6. \A n \in 0..N : f[n] \in Good[n]
    <3>. HIDE DEF N, Good
    <3>. QED
      BY <1>1, <2>3, <2>5, LoopKeeps
  <2>7. ASSUME NEW n \in 0..N
        PROVE  f[n] = IF n = 0 THEN items ELSE AddItem(f[n - 1], entries[n], id, full)
    <3>1. CASE n = 0
      BY <2>2, <3>1
    <3>2. CASE n # 0
      <4>1. n \in 1..N /\ n - 1 \in 0..N
        BY <1>1, <3>2
      <4>. QED
        BY <2>4, <2>6, <3>2, <4>1
    <3>. QED
      BY <3>1, <3>2
  <2>8. Adds(f)
    <3>1. f = [n \in 0..N |-> f[n]]
      BY <2>2
    <3>. QED
      BY <2>7, <3>1
  <2>. QED
    BY <2>8
<1>4. Adds(after)
  <2>. HIDE DEF Adds
  <2>. QED
    BY <1>3
<1>5. AddItems(items, entries, id, full) = after[N]
  BY DEF AddItems
<1>. HIDE DEF after
<1>6. after[0] \in Good[0]
  BY <1>1, <1>4
<1>7. \A n \in 1..N : after[n - 1] \in Good[n - 1] => after[n] \in Good[n]
  <2>1. ASSUME NEW n \in 1..N, after[n - 1] \in Good[n - 1]
        PROVE  after[n] \in Good[n]
    <3>1. n \in 0..N /\ n # 0 /\ n - 1 \in 0..N
      BY <1>1
    <3>2. after[n] = AddItem(after[n - 1], entries[n], id, full)
      BY <1>4, <3>1
    <3>. QED
      BY <1>2, <2>1, <3>1, <3>2
  <2>. QED
    BY <2>1
<1>8. \A n \in 0..N : after[n] \in Good[n]
  <2>. HIDE DEF N, Good, Adds
  <2>. QED
    BY <1>1, <1>6, <1>7, LoopKeeps
<1>. QED
  BY <1>1, <1>5, <1>8

Statuses == {"ok", "error", "blocked"}

\* A brief, a registry and answers that a digest may be made of.
DigestOf(brief, registry, web) ==
  /\ brief.sources \in Seq(Range(brief.sources))
  /\ brief.maxItems \in Nat /\ brief.minSources \in Nat
  /\ \A id \in DOMAIN registry :
       /\ registry[id].max \in Nat
       /\ registry[id].type = "rss" =>
            web[registry[id].target].entries \in Seq(Range(web[registry[id].target].entries))

\* Whatever a source may offer.
Offers(registry, web) ==
  UNION {{row.about, web[row.target].entries[1]} \cup Range(web[row.target].entries) : row \in Range(registry)}

ApprovedIds(brief, registry) ==
  {source.id : source \in {s \in Range(brief.sources) : Approval(registry, s) = "approved"}}

BriefItem(brief, registry, web) ==
  [entry : Offers(registry, web), key : {entry.key : entry \in Offers(registry, web)},
   source : ApprovedIds(brief, registry)]

\* What collect_items has after n sources: a status of each of them, unless the
\* brief is full.
Collected(brief, registry, web, n) ==
  {acc \in [health : Seq(Statuses), items : ItemLists(BriefItem(brief, registry, web), brief.maxItems)] :
     Len(acc.items) = brief.maxItems \/ Len(acc.health) = n}

LEMMA CandidatesAre ==
  ASSUME NEW brief, NEW registry, NEW web, DigestOf(brief, registry, web),
         NEW id \in DOMAIN registry, NEW limit \in Nat
  PROVE  Candidates(registry[id], web, limit) \in Seq(Offers(registry, web))
<1>. DEFINE row == registry[id]
            all == Offers(registry, web)
            entries == web[row.target].entries
<1>1. row \in Range(registry)
  BY DEF Range
<1>2. row.about \in all /\ entries[1] \in all /\ Range(entries) \subseteq all
  BY <1>1 DEF Offers
<1>3. CASE row.type = "rss"
  <2>1. entries \in Seq(Range(entries))
    BY <1>3 DEF DigestOf
  <2>. DEFINE most == LowerOf(2 * limit, Len(entries))
  <2>2. Len(entries) \in Nat /\ DOMAIN entries = 1..Len(entries)
    BY <2>1
  <2>3. most \in 0..Len(entries)
    <3>. HIDE DEF entries
    <3>. QED
      BY <2>2 DEF LowerOf
  <2>4. Candidates(row, web, limit) = SubSeq(entries, 1, most)
    BY <1>3 DEF Candidates
  <2>. HIDE DEF most, entries, all
  <2>5. \A k \in 1..most : entries[k] \in all
    BY <1>2, <2>2, <2>3 DEF Range
  <2>6. SubSeq(entries, 1, most) \in Seq(all)
    BY <2>1, <2>3, <2>5, SubSeqProperties
  <2>. QED
    BY <2>4, <2>6 DEF all
<1>4. CASE row.type # "rss"
  <2>1. \/ Candidates(row, web, limit) = <<entries[1]>>
        \/ Candidates(row, web, limit) = <<row.about>>
    BY <1>4 DEF Candidates, PageItem, DescriptionItem
  <2>2. Candidates(row, web, limit) \in Seq(all)
    <3>. HIDE DEF row, all, entries
    <3>. QED
      BY <1>2, <2>1
  <2>. QED
    BY <2>2
<1>. QED
  BY <1>3, <1>4

\* One turn of collect_items.
LEMMA VisitedSource ==
  ASSUME NEW brief, NEW registry, NEW web, DigestOf(brief, registry, web),
         NEW n \in 1..Len(brief.sources), NEW acc \in Collected(brief, registry, web, n - 1)
  PROVE  VisitSource(brief, registry, web, acc, brief.sources[n]) \in Collected(brief, registry, web, n)
<1>. DEFINE T == BriefItem(brief, registry, web)
            lists == ItemLists(T, brief.maxItems)
            source == brief.sources[n]
            row == registry[source.id]
            status == SourceStatus(registry, web, source)
            limit == LowerOf(brief.maxItems - Len(acc.items), IF row.max = 0 THEN brief.maxItems ELSE row.max)
            full == Len(acc.items) + limit
            entries == Candidates(row, web, limit)
            longer == AddItems(acc.items, entries, source.id, full)
<1>1. /\ acc.items \in Seq(T) /\ Len(acc.items) \in Nat /\ acc.items \in lists
      /\ acc.health \in Seq(Statuses) /\ Len(acc.health) \in Nat /\ acc = [health |-> acc.health, items |-> acc.items]
      /\ Len(acc.items) <= brief.maxItems
      /\ Len(acc.items) = brief.maxItems \/ Len(acc.health) = n - 1
  BY DEF Collected, ItemLists
<1>2. brief.maxItems \in Nat /\ source \in Range(brief.sources)
  <2>1. brief.sources \in Seq(Range(brief.sources)) /\ brief.maxItems \in Nat
    BY DEF DigestOf
  <2>. QED
    BY <2>1
<1>3. CASE Len(acc.items) >= brief.maxItems
  <2>1. VisitSource(brief, registry, web, acc, source) = acc
    BY <1>3 DEF VisitSource
  <2>2. Len(acc.items) = brief.maxItems
    BY <1>1, <1>2, <1>3
  <2>. QED
    BY <2>1, <2>2 DEF Collected
<1>4. CASE ~(Len(acc.items) >= brief.maxItems)
  <2>. DEFINE after == [health |-> Append(acc.health, status),
                        items  |-> IF status # "ok" THEN acc.items ELSE longer]
  <2>1. VisitSource(brief, registry, web, acc, source) = after
    BY <1>4 DEF VisitSource
  <2>2. status \in Statuses
    BY DEF SourceStatus, Statuses
  <2>3. Append(acc.health, status) \in Seq(Statuses) /\ Len(Append(acc.health, status)) = n
    <3>1. Len(acc.health) = n - 1
      BY <1>1, <1>2, <1>4
    <3>. HIDE DEF status
    <3>2. /\ Append(acc.health, status) \in Seq(Statuses)
          /\ Len(Append(acc.health, status)) = Len(acc.health) + 1
      BY <1>1, <2>2, AppendProperties
    <3>3. (n - 1) + 1 = n
      BY DEF DigestOf
    <3>. QED
      BY <3>1, <3>2, <3>3
  <2>4. ASSUME status = "ok"
        PROVE  longer \in lists
    <3>1. Approval(registry, source) = "approved"
      BY <2>4 DEF SourceStatus
    <3>2. source.id \in DOMAIN registry
      BY <3>1 DEF Approval
    <3>3. row.max \in Nat
      BY <3>2 DEF DigestOf
    <3>4. limit \in Nat /\ full \in Nat /\ Len(acc.items) <= full /\ full <= brief.maxItems
      <4>1. limit \in Nat /\ limit <= brief.maxItems - Len(acc.items)
        <5>. HIDE DEF row
        <5>. QED
          BY <1>1, <1>2, <3>3 DEF LowerOf
      <4>. HIDE DEF limit
      <4>. QED
        BY <1>1, <1>2, <4>1
    <3>5. entries \in Seq(Offers(registry, web))
      <4>. HIDE DEF limit
      <4>. QED
        BY <3>2, <3>4, CandidatesAre
    <3>6. \A entry \in Offers(registry, web) : [entry |-> entry, key |-> entry.key, source |-> source.id] \in T
      <4>1. source.id \in ApprovedIds(brief, registry)
        <5>. HIDE DEF source
        <5>. QED
          BY <1>2, <3>1 DEF ApprovedIds
      <4>. HIDE DEF source
      <4>. QED
        BY <4>1 DEF BriefItem
    <3>7. acc.items \in ItemLists(T, full)
      <4>. HIDE DEF full, T
      <4>. QED
        BY <1>1, <3>4 DEF ItemLists
    <3>8. longer \in ItemLists(T, full)
      <4>. HIDE DEF full, T, entries
      <4>. QED
        BY <3>4, <3>5, <3>6, <3>7, AddedItems
    <3>. HIDE DEF longer, full, T
    <3>9. longer \in Seq(T) /\ Len(longer) <= full
      BY <3>8 DEF ItemLists
    <3>10. Len(longer) <= brief.maxItems
      <4>1. Len(longer) \in Nat
        BY <3>9
      <4>. QED
        BY <1>2, <3>4, <3>9, <4>1
    <3>. QED
      BY <3>8, <3>10 DEF ItemLists
  <2>. HIDE DEF status, longer, T
  <2>5. after \in [health : Seq(Statuses), items : lists] /\ Len(after.health) = n
    <3>. HIDE DEF lists
    <3>. QED
      BY <1>1, <2>3, <2>4
  <2>6. after \in Collected(brief, registry, web, n)
    BY <2>5 DEF Collected, T
  <2>. QED
    BY <2>1, <2>6
<1>. QED
  BY <1>3, <1>4

\* The loop over the sources.
LEMMA CollectedItems ==
  ASSUME NEW brief, NEW registry, NEW web, DigestOf(brief, registry, web)
  PROVE  CollectItems(brief, registry, web) \in Collected(brief, registry, web, Len(brief.sources))
<1>. DEFINE N == Len(brief.sources)
            start == [health |-> <<>>, items |-> <<>>]
            Turn(x, n) == VisitSource(brief, registry, web, x, brief.sources[n])
            Good == [n \in 0..N |-> Collected(brief, registry, web, n)]
            turn == [n \in 1..N |-> [x \in Collected(brief, registry, web, n - 1) |-> Turn(x, n)]]
            Visits(f) == f = [n \in 0..N |-> IF n = 0 THEN start ELSE Turn(f[n - 1], n)]
            after == CHOOSE f : Visits(f)
<1>1. N \in Nat /\ brief.maxItems \in Nat
  BY DEF DigestOf
<1>2. \A n \in 1..N : \A x \in Collected(brief, registry, web, n - 1) : Turn(x, n) \in Collected(brief, registry, web, n)
  BY VisitedSource
<1>3. start \in Collected(brief, registry, web, 0)
  <2>. DEFINE T == BriefItem(brief, registry, web)
  <2>1. <<>> \in Seq(T) /\ <<>> \in Seq(Statuses) /\ Len(<<>>) = 0 /\ DOMAIN <<>> = {}
    OBVIOUS
  <2>2. <<>> \in ItemLists(T, brief.maxItems)
    <3>. HIDE DEF T
    <3>. QED
      BY <1>1, <2>1 DEF ItemLists
  <2>. QED
    BY <2>1, <2>2 DEF Collected
<1>4. CollectItems(brief, registry, web) = after[N]
  BY DEF CollectItems
<1>. HIDE DEF N, start, Turn
<1>5. ASSUME NEW f, IsLoop(f, N, start, turn)
      PROVE  Visits(f)
  <2>1. f = [n \in 0..N |-> IF n = 0 THEN start ELSE turn[n][f[n - 1]]]
    BY <1>5 DEF IsLoop
  <2>2. \A n \in 1..N : n \in 0..N /\ n # 0 /\ n - 1 \in 0..N
    BY <1>1
  <2>3. f[0] = start /\ \A n \in 1..N : f[n] = turn[n][f[n - 1]]
    <3>1. 0 \in 0..N
      BY <1>1
    <3>. HIDE DEF turn
    <3>. QED
      BY <2>1, <2>2, <3>1
  <2>4. f[0] \in Good[0]
    BY <1>1, <1>3, <2>3
  <2>5. ASSUME NEW n \in 1..N, f[n - 1] \in Good[n - 1]
        PROVE  f[n] = Turn(f[n - 1], n) /\ f[n] \in Good[n]
    <3>1. f[n - 1] \in Collected(brief, registry, web, n - 1)
      BY <2>2, <2>5
    <3>2. turn[n][f[n - 1]] = Turn(f[n - 1], n)
      BY <3>1
    <3>. QED
      BY <1>2, <2>2, <2>3, <3>1, <3>2
  <2>6. \A n \in 0..N : f[n] \in Good[n]
    <3>. HIDE DEF Good, turn
    <3>. QED
      BY <1>1, <2>4, <2>5, LoopKeeps
  <2>7. \A n \in 1..N : f[n] = Turn(f[n - 1], n)
    BY <2>2, <2>5, <2>6
  <2>8. \A n \in 0..N : f[n] = IF n = 0 THEN start ELSE Turn(f[n - 1], n)
    <3>1. \A n \in 0..N : n = 0 \/ n \in 1..N
      BY <1>1
    <3>. QED
      BY <2>3, <2>7, <3>1
  <2>9. f = [n \in 0..N |-> f[n]]
    BY <2>1
  <2>. QED
    BY <2>8, <2>9
<1>6. Visits(after)
  <2>1. \E f : Visits(f)
    <3>1. PICK f : IsLoop(f, N, start, turn)
      <4>. HIDE DEF turn
      <4>. QED
        BY <1>1, LoopEnds
    <3>. QED
      BY <1>5, <3>1
  <2>. HIDE DEF Visits
  <2>. QED
    BY <2>1
<1>. HIDE DEF after
<1>7. after[0] \in Good[0]
  BY <1>1, <1>3, <1>6
<1>8. ASSUME NEW n \in 1..N, after[n - 1] \in Good[n - 1]
      PROVE  after[n] \in Good[n]
  <2>1. n \in 0..N /\ n # 0 /\ n - 1 \in 0..N
    BY <1>1
  <2>2. after[n] = Turn(after[n - 1], n) /\ after[n - 1] \in Collected(brief, registry, web, n - 1)
    BY <1>6, <1>8, <2>1
  <2>. QED
    BY <1>2, <2>1, <2>2
<1>9. \A n \in 0..N : after[n] \in Good[n]
  <2>. HIDE DEF Good, Visits
  <2>. QED
    BY <1>1, <1>7, <1>8, LoopKeeps
<1>10. after[N] \in Collected(brief, registry, web, N)
  BY <1>1, <1>9
<1>. QED
  BY <1>4, <1>10 DEF N

-----------------------------------------------------------------------------
(* Sections *)

LEMMA SectionIsNew ==
  ASSUME NEW items, NEW section, NEW used
  PROVE  SectionItems(items, section, used) \subseteq DOMAIN items \ used
BY DEF SectionItems

LEMMA UsedItemsAre ==
  ASSUME NEW items
  PROVE  LET used == UsedItems(items)
         IN  /\ \A s \in 0..Sections : used[s] \subseteq DOMAIN items
             /\ \A s \in 1..Sections : used[s] = used[s - 1] \cup SectionItems(items, s, used[s - 1])
<1>. DEFINE all == SUBSET DOMAIN items
            Turn(x, n) == x \cup SectionItems(items, n, x)
            Good == [n \in 0..Sections |-> all]
            turn == [n \in 1..Sections |-> [x \in all |-> Turn(x, n)]]
            Uses(f) == f = [n \in 0..Sections |-> IF n = 0 THEN {} ELSE Turn(f[n - 1], n)]
            used == CHOOSE f : Uses(f)
<1>1. Sections \in Nat /\ \A n \in 1..Sections : n \in 0..Sections /\ n # 0 /\ n - 1 \in 0..Sections
  BY DigestAssumption
<1>2. {} \in all /\ \A n : \A x \in all : Turn(x, n) \in all
  BY SectionIsNew
<1>3. UsedItems(items) = used
  BY DEF UsedItems
<1>. HIDE DEF Turn, all
<1>4. ASSUME NEW f, IsLoop(f, Sections, {}, turn)
      PROVE  Uses(f)
  <2>1. f = [n \in 0..Sections |-> IF n = 0 THEN {} ELSE turn[n][f[n - 1]]]
    BY <1>4 DEF IsLoop
  <2>2. f[0] = {} /\ \A n \in 1..Sections : f[n] = turn[n][f[n - 1]]
    <3>1. 0 \in 0..Sections
      BY <1>1
    <3>. HIDE DEF turn
    <3>. QED
      BY <1>1, <2>1, <3>1
  <2>3. f[0] \in Good[0]
    BY <1>1, <1>2, <2>2
  <2>4. ASSUME NEW n \in 1..Sections, f[n - 1] \in Good[n - 1]
        PROVE  f[n] = Turn(f[n - 1], n) /\ f[n] \in Good[n]
    <3>1. f[n - 1] \in all
      BY <1>1, <2>4
    <3>2. turn[n][f[n - 1]] = Turn(f[n - 1], n)
      BY <3>1
    <3>. QED
      BY <1>1, <1>2, <2>2, <3>1, <3>2
  <2>5. \A n \in 0..Sections : f[n] \in Good[n]
    <3>. HIDE DEF Good, turn
    <3>. QED
      BY <1>1, <2>3, <2>4, LoopKeeps
  <2>6. \A n \in 1..Sections : f[n] = Turn(f[n - 1], n)
    BY <1>1, <2>4, <2>5
  <2>7. \A n \in 0..Sections : f[n] = IF n = 0 THEN {} ELSE Turn(f[n - 1], n)
    <3>1. \A n \in 0..Sections : n = 0 \/ n \in 1..Sections
      BY <1>1
    <3>. QED
      BY <2>2, <2>6, <3>1
  <2>8. f = [n \in 0..Sections |-> f[n]]
    BY <2>1
  <2>. QED
    BY <2>7, <2>8
<1>5. Uses(used)
  <2>1. \E f : Uses(f)
    <3>1. PICK f : IsLoop(f, Sections, {}, turn)
      <4>. HIDE DEF turn
      <4>. QED
        BY <1>1, LoopEnds
    <3>. QED
      BY <1>4, <3>1
  <2>. HIDE DEF Uses
  <2>. QED
    BY <2>1
<1>. HIDE DEF used
<1>6. used[0] = {} /\ \A n \in 1..Sections : used[n] = Turn(used[n - 1], n)
  <2>1. 0 \in 0..Sections
    BY <1>1
  <2>. QED
    BY <1>1, <1>5, <2>1
<1>7. used[0] \in Good[0] /\ \A n \in 1..Sections : used[n - 1] \in Good[n - 1] => used[n] \in Good[n]
  BY <1>1, <1>2, <1>6
<1>8. \A n \in 0..Sections : used[n] \in Good[n]
  <2>. HIDE DEF Good, Uses
  <2>. QED
    BY <1>1, <1>7, LoopKeeps
<1>. QED
  BY <1>3, <1>6, <1>8 DEF Turn, all

\* Items once used stay used.
LEMMA UsedItemsStay ==
  ASSUME NEW items, NEW s \in 1..Sections, NEW t \in 0..Sections, s <= t
  PROVE  UsedItems(items)[s] \subseteq UsedItems(items)[t]
<1>. DEFINE used == UsedItems(items)
            Good == [n \in 0..Sections |-> IF n < s THEN SUBSET DOMAIN items ELSE {x \in SUBSET DOMAIN items : used[s] \subseteq x}]
<1>1. /\ \A n \in 0..Sections : used[n] \subseteq DOMAIN items
      /\ \A n \in 1..Sections : used[n] = used[n - 1] \cup SectionItems(items, n, used[n - 1])
  BY UsedItemsAre
<1>. HIDE DEF used
<1>2. Sections \in Nat /\ s \in 0..Sections /\ 0 < s /\ \A n \in 1..Sections : n \in 0..Sections /\ n - 1 \in 0..Sections
  BY DigestAssumption
<1>3. used[0] \in Good[0]
  BY <1>1, <1>2
<1>4. ASSUME NEW n \in 1..Sections, used[n - 1] \in Good[n - 1]
      PROVE  used[n] \in Good[n]
  <2>1. used[n - 1] \subseteq used[n] /\ used[n] \in SUBSET DOMAIN items
    BY <1>1, <1>2
  <2>2. CASE n <= s
    <3>1. n < s \/ n = s
      BY <1>2, <2>2
    <3>. QED
      BY <1>2, <2>1, <3>1
  <2>3. CASE ~(n <= s)
    <3>1. ~(n - 1 < s) /\ ~(n < s)
      BY <1>2, <2>3
    <3>2. used[s] \subseteq used[n - 1]
      BY <1>2, <1>4, <3>1
    <3>. QED
      BY <1>2, <2>1, <3>1, <3>2
  <2>. QED
    BY <2>2, <2>3
<1>5. \A n \in 0..Sections : used[n] \in Good[n]
  <2>. HIDE DEF Good
  <2>. QED
    BY <1>2, <1>3, <1>4, LoopKeeps
<1>6. t \in 0..Sections /\ ~(t < s)
  BY <1>2
<1>7. used[t] \in Good[t]
  <2>. HIDE DEF Good
  <2>. QED
    BY <1>5
<1>. QED
  BY <1>6, <1>7 DEF used

LEMMA SectionsAreDisjoint ==
  ASSUME NEW digest PROVE SectionsDisjoint(digest)
<1>. DEFINE used == UsedItems(digest.items)
            shown == DigestSections(digest.items)
<1>1. Sections \in Nat
  BY DigestAssumption
<1>2. ASSUME NEW s \in 1..Sections, NEW t \in 1..Sections, s < t
      PROVE  shown[s] \cap shown[t] = {}
  <2>1. shown[s] = SectionItems(digest.items, s, used[s - 1]) /\ shown[t] = SectionItems(digest.items, t, used[t - 1])
    BY DEF DigestSections
  <2>2. shown[s] \subseteq used[s]
    BY <2>1, UsedItemsAre
  <2>3. t - 1 \in 0..Sections /\ s <= t - 1
    BY <1>1, <1>2
  <2>4. used[s] \subseteq used[t - 1]
    BY <2>3, UsedItemsStay
  <2>5. shown[t] \cap used[t - 1] = {}
    BY <2>1, SectionIsNew
  <2>. HIDE DEF shown, used
  <2>. QED
    BY <2>2, <2>4, <2>5
<1>3. \A s, t \in 1..Sections : s # t => s < t \/ t < s
  BY <1>1
<1>. HIDE DEF shown
<1>4. \A s, t \in 1..Sections : s # t => shown[s] \cap shown[t] = {}
  BY <1>2, <1>3
<1>. QED
  BY <1>4 DEF SectionsDisjoint, shown

-----------------------------------------------------------------------------
(* Digests *)

LEMMA LastOf ==
  ASSUME NEW T \in SUBSET Nat, T # {}, NEW bound \in Nat, \A n \in T : n <= bound
  PROVE  \E n \in T : \A m \in T : m <= n
<1>. DEFINE Gaps == {d \in 0..bound : bound - d \in T}
<1>1. Gaps \in SUBSET Nat /\ Gaps # {}
  <2>1. PICK n \in T : n \in Nat /\ n <= bound
    OBVIOUS
  <2>2. bound - n \in 0..bound /\ bound - (bound - n) = n
    BY <2>1
  <2>3. bound - n \in Gaps
    BY <2>2
  <2>4. \A d \in 0..bound : d \in Nat
    OBVIOUS
  <2>. QED
    BY <2>3, <2>4
<1>2. PICK d \in Gaps : \A e \in Gaps : d <= e
  <2>. HIDE DEF Gaps
  <2>. QED
    BY <1>1, LeastElement
<1>3. d \in 0..bound /\ bound - d \in T
  BY <1>2
<1>4. ASSUME NEW m \in T
      PROVE  m <= bound - d
  <2>1. m \in Nat /\ m <= bound
    OBVIOUS
  <2>2. bound - m \in 0..bound /\ bound - (bound - m) = m
    BY <2>1
  <2>3. bound - m \in Gaps
    BY <2>2
  <2>4. d <= bound - m
    BY <1>2, <2>3
  <2>. QED
    BY <1>3, <2>1, <2>4
<1>. QED
  BY <1>3, <1>4

\* Each row of a registry is a row of its files.
LEMMA RegistryIs ==
  ASSUME NEW files \in RegistryFiles, NEW id \in DOMAIN SourceRegistry(RegistryRows(files))
  PROVE  /\ SourceRegistry(RegistryRows(files))[id] \in Range(RegistryRows(files))
         /\ SourceRegistry(RegistryRows(files))[id].max \in Nat
<1>. DEFINE listed == RegistryRows(files)
            own == files.own
            tabled == TableSources(files.table)
            named == {n \in DOMAIN listed : listed[n].id = id}
            last(n) == n \in DOMAIN listed /\ listed[n].id = id /\ \A m \in DOMAIN listed : listed[m].id = id => m <= n
<1>1. own \in Seq(Range(own)) /\ files.table \in Seq(Range(files.table)) /\ \A row \in Range(own) : row.max \in Nat
  BY DigestInputAssumption
<1>2. Len(files.table) \in Nat /\ DOMAIN files.table = 1..Len(files.table)
  BY <1>1
<1>. DEFINE all == Range(own) \cup Range(tabled)
<1>3. tabled \in Seq(all)
  <2>1. DOMAIN tabled = 1..Len(files.table)
    BY <1>2 DEF TableSources
  <2>2. tabled = [n \in 1..Len(files.table) |-> tabled[n]]
    BY <2>1 DEF TableSources
  <2>3. \A n \in 1..Len(files.table) : tabled[n] \in all
    <3>. HIDE DEF tabled, own
    <3>. QED
      BY <2>1 DEF Range
  <2>. DEFINE length == Len(files.table)
  <2>4. tabled \in [1..length -> all]
    <3>. HIDE DEF tabled, all
    <3>. QED
      BY <2>2, <2>3
  <2>. HIDE DEF tabled, all, length
  <2>5. length \in Nat
    BY <1>2 DEF length
  <2>. QED
    BY <2>4, <2>5
<1>4. \A row \in all : row.max \in Nat
  <2>1. \A n \in DOMAIN tabled : tabled[n].max = TableMax
    BY DEF TableSources, TableSource
  <2>. HIDE DEF tabled, own
  <2>. QED
    BY <1>1, <2>1, DigestAssumption DEF Range
<1>5. own \in Seq(all)
  <2>1. Len(own) \in Nat /\ DOMAIN own = 1..Len(own) /\ own = [n \in 1..Len(own) |-> own[n]]
    BY <1>1
  <2>2. \A n \in 1..Len(own) : own[n] \in all
    <3>. HIDE DEF own
    <3>. QED
      BY <2>1 DEF Range
  <2>. HIDE DEF own, all
  <2>. QED
    BY <2>1, <2>2
<1>6. listed \in Seq(all)
  <2>. HIDE DEF own, tabled, all
  <2>. QED
    BY <1>3, <1>5 DEF RegistryRows, own, tabled
<1>7. Len(listed) \in Nat /\ DOMAIN listed = 1..Len(listed) /\ \A n \in DOMAIN listed : listed[n] \in all
  <2>. HIDE DEF listed, all
  <2>. QED
    BY <1>6
<1>. HIDE DEF listed
<1>8. named # {}
  BY DEF SourceRegistry, listed
<1>9. \E n : last(n)
  <2>1. named \in SUBSET Nat /\ \A n \in named : n <= Len(listed)
    BY <1>7
  <2>2. PICK n \in named : \A m \in named : m <= n
    <3>. HIDE DEF named
    <3>. QED
      BY <1>7, <1>8, <2>1, LastOf
  <2>. QED
    BY <2>2
<1>10. PICK n \in DOMAIN listed : SourceRegistry(listed)[id] = listed[n]
  <2>1. SourceRegistry(listed)[id] = listed[CHOOSE n \in DOMAIN listed :
                                          listed[n].id = id /\ \A m \in DOMAIN listed : listed[m].id = id => m <= n]
    BY DEF SourceRegistry, listed
  <2>. QED
    BY <1>9, <2>1
<1>. QED
  BY <1>4, <1>7, <1>10 DEF Range, listed

LEMMA DigestInputs ==
  ASSUME NEW files \in RegistryFiles, NEW web \in Webs
  PROVE  DigestOf(Brief, SourceRegistry(RegistryRows(files)), web)
<1>. DEFINE registry == SourceRegistry(RegistryRows(files))
<1>1. ASSUME NEW id \in DOMAIN registry
      PROVE  /\ registry[id].max \in Nat
             /\ registry[id].type = "rss" =>
                  web[registry[id].target].entries \in Seq(Range(web[registry[id].target].entries))
  <2>1. registry[id] \in Range(RegistryRows(files)) /\ registry[id].max \in Nat
    BY RegistryIs
  <2>. HIDE DEF registry
  <2>2. registry[id].type = "rss" => registry[id].target \in DOMAIN web
    BY <2>1, DigestInputAssumption DEF Fetched
  <2>. QED
    BY <2>1, <2>2, DigestInputAssumption
<1>. HIDE DEF registry
<1>2. Brief.sources \in Seq(Range(Brief.sources)) /\ Brief.maxItems \in Nat /\ Brief.minSources \in Nat
  BY DigestInputAssumption
<1>. QED
  BY <1>1, <1>2 DEF DigestOf, registry

\* A digest keeps its promises.
LEMMA DigestIsSound ==
  ASSUME NEW brief, NEW registry, NEW web, DigestOf(brief, registry, web)
  PROVE  LET digest == RunTopicDigest(brief, registry, web)
         IN  /\ OnlyApprovedItems(brief, registry, digest)
             /\ SectionsDisjoint(digest)
             /\ SourceAlarmHasCause(brief, digest)
<1>. DEFINE digest == RunTopicDigest(brief, registry, web)
            got == CollectItems(brief, registry, web)
            T == BriefItem(brief, registry, web)
            fine == Number(got.health, "ok")
<1>1. got \in Collected(brief, registry, web, Len(brief.sources))
  BY CollectedItems
<1>2. digest.items = got.items /\ digest.health = got.health /\ digest.reasons = QualityReasons(brief, got.items, got.health)
  BY DEF RunTopicDigest
<1>. HIDE DEF got, digest
<1>3. /\ got.items \in Seq(T) /\ Len(got.items) <= brief.maxItems
      /\ \A m, n \in DOMAIN got.items : got.items[m].key = got.items[n].key => m = n
      /\ got.health \in Seq(Statuses)
      /\ Len(got.items) = brief.maxItems \/ Len(got.health) = Len(brief.sources)
  BY <1>1 DEF Collected, ItemLists
<1>4. ASSUME NEW n \in DOMAIN got.items
      PROVE  \E source \in Range(brief.sources) :
               source.id = got.items[n].source /\ Approval(registry, source) = "approved"
  <2>1. got.items[n] \in T
    <3>. HIDE DEF T
    <3>. QED
      BY <1>3
  <2>2. got.items[n].source \in ApprovedIds(brief, registry)
    BY <2>1 DEF BriefItem
  <2>. QED
    BY <2>2 DEF ApprovedIds
<1>5. OnlyApprovedItems(brief, registry, digest)
  BY <1>2, <1>3, <1>4 DEF OnlyApprovedItems
<1>6. SectionsDisjoint(digest)
  BY SectionsAreDisjoint
<1>7. fine \in Nat /\ Len(got.health) \in Nat
  <2>1. Len(got.health) \in Nat /\ DOMAIN got.health = 1..Len(got.health)
    BY <1>3
  <2>2. IsFiniteSet({n \in DOMAIN got.health : got.health[n] = "ok"})
    <3>1. IsFiniteSet(1..Len(got.health))
      BY <2>1, FS_Interval
    <3>. QED
      BY <2>1, <3>1, FS_Subset
  <2>. QED
    BY <2>1, <2>2, FS_CardinalityType DEF Number
<1>8. "too_few_successful_sources" \in digest.reasons => fine < brief.minSources
  BY <1>2 DEF QualityReasons
<1>9. brief.minSources \in Nat /\ Len(brief.sources) \in Nat
  BY DEF DigestOf
<1>. HIDE DEF fine
<1>10. ASSUME "too_few_successful_sources" \in digest.reasons, brief.minSources <= Len(brief.sources),
              Len(got.health) = Len(brief.sources)
       PROVE  fine < Len(got.health)
  BY <1>7, <1>8, <1>9, <1>10
<1>11. SourceAlarmHasCause(brief, digest)
  BY <1>2, <1>3, <1>10 DEF SourceAlarmHasCause, fine
<1>. QED
  BY <1>5, <1>6, <1>11 DEF digest

-----------------------------------------------------------------------------

LEMMA OutcomesAreSound ==
  ASSUME NEW live, NEW outcome \in Outcomes(live), outcome.found.digested
  PROVE  /\ OnlyApprovedItems(Brief, outcome.found.registry, outcome.found.digest)
         /\ SectionsDisjoint(outcome.found.digest)
         /\ SourceAlarmHasCause(Brief, outcome.found.digest)
<1>1. ASSUME NEW results, outcome \in PlainOutcomes(results)
      PROVE  FALSE
  BY <1>1 DEF PlainOutcomes, NoOutcome
<1>2. outcome \in DigestOutcomes(live)
  BY <1>1 DEF Outcomes
<1>3. PICK files \in RegistryFiles, web \in Webs :
        LET registry == SourceRegistry(RegistryRows(files))
            digest   == RunTopicDigest(Brief, registry, web)
        IN  \E answer \in HookAnswers :
              outcome = [found  |-> [digested |-> TRUE, registry |-> registry, digest |-> digest],
                         result |-> TopicDigestResult(Brief, digest, live, answer)]
  BY <1>2 DEF DigestOutcomes
<1>. DEFINE registry == SourceRegistry(RegistryRows(files))
            digest == RunTopicDigest(Brief, registry, web)
<1>4. outcome.found.registry = registry /\ outcome.found.digest = digest
  <2>. HIDE DEF registry, digest
  <2>. QED
    BY <1>3 DEF registry, digest
<1>5. DigestOf(Brief, registry, web)
  BY DigestInputs
<1>. HIDE DEF registry
<1>. QED
  BY <1>4, <1>5, DigestIsSound

\* DigestSound, for any brief, registry files and answers: what collect_items
\* and sectioned_digest_sections make of them holds approved items only, each
\* once and in one section at most, and blames its sources with a cause.
THEOREM DigestsAreSound == DeliverySpec => []DigestSound
<1>1. DeliveryInit => DigestSound
  BY DEF DeliveryInit, DigestSound, NoOutcome
<1>2. DigestSound /\ [DeliveryNext]_deliveryVars => DigestSound'
  <2>. SUFFICES ASSUME DigestSound, [DeliveryNext]_deliveryVars
                PROVE  DigestSound'
    OBVIOUS
  <2>1. CASE RunHandler
    <3>1. PICK outcome \in Outcomes(IsLive) : found' = outcome.found
      BY <2>1 DEF RunHandler
    <3>. QED
      BY <3>1, OutcomesAreSound DEF DigestSound
  <2>2. CASE found' = NoOutcome
    BY <2>2 DEF DigestSound, NoOutcome
  <2>3. CASE found' = found
    BY <2>3 DEF DigestSound
  <2>4. RunHandler \/ found' = NoOutcome \/ found' = found
    BY DEF DeliveryNext, BeginRun, DecidePrimary, SendPrimary, DecideAlert, SendAlert, ReportRun, LoseRunReport,
           DecideFailure, SendFailure, ReportRunFailure, CrashRun, RecoverRun, TimePasses, MoveTo, deliveryVars
  <2>. QED
    BY <2>1, <2>2, <2>3, <2>4
<1>. QED
  BY <1>1, <1>2, PTL DEF DeliverySpec
=============================================================================
