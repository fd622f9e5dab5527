------------------------------- MODULE Intake -------------------------------
(***************************************************************************)
(* The life of Bragi's conversational intakes: a user's incomplete request *)
(* is stored, completed over several messages, confirmed, forwarded to     *)
(* Yggdrasil, deleted or left to expire, while the channel bridge reminds  *)
(* the user of it.  Rows of table bragi_intake_records.                    *)
(*                                                                         *)
(* A message is handled by one of the request threads.  Each call of the   *)
(* intake store (one short transaction) is a step, with the expiry it may  *)
(* commit; between the calls a thread waits for the automation API or for  *)
(* Yggdrasil, and the bridge for Discord or for Bragi.                     *)
(*                                                                         *)
(* Every intake here belongs to one user and to channel "discord".  An     *)
(* intent is its version: how often its slots were changed.                *)
(***************************************************************************)
EXTENDS Integers, Sequences, FiniteSets, SequencesExt

CONSTANTS
  Intakes,      \* primary keys
  Thread,       \* request threads of Bragi
  Abandoned,    \* intakes whose user never mentions them again
  Ttl,          \* INTAKE_TTL_SECONDS
  Delays,       \* DEFAULT_FOLLOWUP_DELAYS_SECONDS
  MaxReminders, \* DEFAULT_MAX_FOLLOWUPS
  Limit,        \* followup_limit of the bridge
  Horizon,      \* bound on the clock
  MaxEdits,     \* bound on the changes of an intent
  MaxFaults     \* bound on lost answers, failed sends and crashes

ASSUME IntakeAssumption ==
  /\ Intakes \subseteq Nat /\ IsFiniteSet(Intakes) /\ Abandoned \subseteq Intakes
  /\ Ttl \in Nat \ {0}
  /\ Delays \in Seq(Nat \ {0}) /\ Delays # <<>>
  /\ MaxReminders \in Nat /\ Limit \in Nat \ {0}
  /\ Horizon \in Nat /\ MaxEdits \in Nat /\ MaxFaults \in Nat

VARIABLES
  now,      \* the clock
  rows,     \* rows[i]: the row of intake i
  thread,   \* thread[t]: what request thread t is doing
  bridge,   \* the bridge's follow-up pass
  actions,  \* actions[i]: how often Yggdrasil acted on i, and the version it acted on last
  reminded, \* reminded[i]: reminders sent since i was last completed or created,
            \* counted up to TooMany
  excused,  \* intakes two requests worked on at once, or a fault hit
  faults    \* faults so far

vars == <<now, rows, thread, bridge, actions, reminded, excused, faults>>

\* FOLLOWUP_ACTIVE_STATUSES.  "collecting" is a status no code sets.
Collecting == {"collecting_slots"}
ActiveStatuses == Collecting \cup {"awaiting_source_selection", "awaiting_confirmation"}
Statuses == ActiveStatuses \cup
  {"none", "confirmed", "forwarded_to_yggdrasil", "cancelled", "expired", "failed"}

TooMany == MaxReminders + MaxFaults + 1

Time == 0..(Horizon + Ttl)
Summary == [count : 0..MaxReminders, enabled : BOOLEAN, next : 0..(Horizon + Max(Range(Delays)))]
Row == [status : Statuses, version : 0..MaxEdits, summary : Summary, expires : Time, updated : 0..Horizon]

Idle == [step |-> "idle"]
\* version is the intent as the thread read it.
Busy == [step : {"edit", "prepare", "forward", "mark"}, id : Intakes, version : 0..MaxEdits]

NoRow == [status |-> "none", version |-> 0, expires |-> 0, updated |-> 0,
          summary |-> [count |-> 0, enabled |-> TRUE, next |-> 0]]
Resting == [step |-> "idle", queue |-> <<>>]

TypeOK ==
  /\ now \in 0..Horizon
  /\ rows \in [Intakes -> Row]
  /\ \A t \in Thread : thread[t] = Idle \/ thread[t] \in Busy
  /\ bridge.step \in {"idle", "sending", "marking"}
  /\ bridge.queue \in BoundedSeq(Intakes, Limit)
  /\ actions \in [Intakes -> [times : Nat, last : 0..MaxEdits]]
  /\ reminded \in [Intakes -> 0..TooMany]
  /\ excused \subseteq Intakes
  /\ faults \in 0..MaxFaults

Init ==
  /\ now = 0
  /\ rows = [i \in Intakes |-> NoRow]
  /\ thread = [t \in Thread |-> Idle]
  /\ bridge = Resting
  /\ actions = [i \in Intakes |-> [times |-> 0, last |-> 0]]
  /\ reminded = [i \in Intakes |-> 0]
  /\ excused = {}
  /\ faults = 0

-----------------------------------------------------------------------------
(* intake_store.py *)

\* A row that is no longer active keeps its version and expires_at.  Its
\* follow-up is disabled (normalize_followup_summary); the rest of it, and
\* updated_at, are not read again.
Inactive(row, status) ==
  [row EXCEPT !.status = status, !.summary = [count |-> 0, enabled |-> FALSE, next |-> 0], !.updated = 0]

\* The follow-up of a summary that has none yet.
FreshSummary == [count |-> 0, enabled |-> TRUE, next |-> now + Delays[1]]

\* Mutant of Expired: a status outside INTAKE_STATUSES.
TimedOut(row) ==
  IF row.status \in ActiveStatuses /\ row.expires <= now THEN Inactive(row, "timed_out") ELSE row

\* maybe_expire_record
Expired(row) ==
  IF row.status \in ActiveStatuses /\ row.expires <= now
  THEN Inactive(row, "expired")
  ELSE row

\* update_intake and update_intake_status refuse these.
Closed(row) == row.status \in {"expired", "cancelled"}

\* update_intake with the summary of a new validation: the follow-up starts over.
Completed(row, version, status) ==
  [row EXCEPT !.status = status, !.version = version, !.summary = FreshSummary, !.updated = now]

\* Mutant of MarkedSent: the summary is changed in place, which the ORM does
\* not notice.
MarkedInPlace(row) == [row EXCEPT !.updated = now]

\* mark_followup_sent
MarkedSent(row) ==
  LET count == row.summary.count + 1
  IN  [row EXCEPT !.updated = now,
                  !.summary = IF count >= MaxReminders
                              THEN [count |-> count, enabled |-> FALSE, next |-> 0]
                              ELSE [count |-> count, enabled |-> @.enabled,
                                    next |-> now + Delays[Min({count + 1, Len(Delays)})]]]

\* followup_due
Due(row) ==
  /\ row.status \in ActiveStatuses
  /\ row.summary.enabled
  /\ row.summary.count < MaxReminders
  /\ row.summary.next <= now

\* What get_intake and list_intakes leave behind.
Touched(i) == [rows EXCEPT ![i] = Expired(@)]

-----------------------------------------------------------------------------
(* Request threads: route_chat *)

Stored(i) == rows[i].status # "none"
Working(i) == {t \in Thread : thread[t] # Idle /\ thread[t].id = i}

\* A thread that finds another one at work on intake i.
Overlap(i) == IF Working(i) # {} THEN excused \cup {i} ELSE excused

\* Thread t has read intake i and goes on with the intent it saw.
Begin(t, i, step) ==
  /\ thread' = [thread EXCEPT ![t] = [step |-> step, id |-> i, version |-> rows[i].version]]
  /\ excused' = Overlap(i)

Goto(t, step) == thread' = [thread EXCEPT ![t].step = step]
Finish(t) == thread' = [thread EXCEPT ![t] = Idle]

\* update_intake or update_intake_status: on a closed intake it raises and the
\* session is rolled back.
Store(i, changed) == rows' = IF Closed(Expired(rows[i])) THEN rows ELSE [rows EXCEPT ![i] = changed]

\* maybe_store_intake_for_result, create_source_selection_intake: create_intake.
\* (Which active status an abandoned intake has makes no difference.)
CreateIntake(t, i) ==
  /\ thread[t] = Idle /\ ~Stored(i)
  /\ \E status \in IF i \in Abandoned THEN {"awaiting_source_selection"} ELSE ActiveStatuses :
       rows' = [rows EXCEPT ![i] = [status |-> status, version |-> 0, summary |-> FreshSummary,
                                    expires |-> now + Ttl, updated |-> now]]
  /\ UNCHANGED <<now, thread, bridge, actions, reminded, excused, faults>>

\* get_intake and list_intakes of the read-only requests
ReadIntake(i) ==
  /\ Stored(i)
  /\ rows' = Touched(i)
  /\ UNCHANGED <<now, thread, bridge, actions, reminded, excused, faults>>

\* Mutant of Editable: any intake that update_intake would accept.
EditableUntilClosed(row) == ~Closed(row)

Editable(row) == row.status \in Collecting \cup {"awaiting_source_selection"}

\* source_selection_intake_response, update_collecting_intake_response: the
\* user's details are merged into the intent as it is read here.
ReadForEdit(t, i) ==
  /\ thread[t] = Idle /\ Stored(i)
  /\ rows' = Touched(i)
  /\ Editable(Expired(rows[i]))
  /\ rows[i].version < MaxEdits
  /\ Begin(t, i, "edit")
  /\ UNCHANGED <<now, bridge, actions, reminded, faults>>

\* validate_intent_for_reply.  Only the answer ASK_CLARIFICATION is stored,
\* whatever the status of the intake has become, unless it is closed.
StoreEdit(t) ==
  LET i == thread[t].id
  IN  /\ thread[t].step = "edit"
      /\ \E status \in Collecting \cup {"awaiting_confirmation"} :
           Store(i, Completed(Expired(rows[i]), thread[t].version + 1, status))
      /\ reminded' = IF rows' # rows THEN [reminded EXCEPT ![i] = 0] ELSE reminded
      /\ Finish(t)
      /\ UNCHANGED <<now, bridge, actions, excused, faults>>

\* Mutant of Confirmable: an intake that got this far is tried again.
ConfirmableAgain(row) == row.status \in {"awaiting_confirmation", "confirmed", "forwarded_to_yggdrasil"}

Confirmable(row) == row.status = "awaiting_confirmation"

\* confirm_intake_response, up to its call of prepare-yggdrasil-request
ReadForConfirm(t, i) ==
  /\ thread[t] = Idle /\ Stored(i)
  /\ rows' = Touched(i)
  /\ Confirmable(Expired(rows[i]))
  /\ Begin(t, i, "prepare")
  /\ UNCHANGED <<now, bridge, actions, reminded, faults>>

\* Outcome ACCEPT and mark_intake_confirmed, whose refusal is ignored.
Accept(t) ==
  LET i == thread[t].id
  IN  /\ thread[t].step = "prepare"
      /\ Store(i, Inactive(Expired(rows[i]), "confirmed"))
      /\ Goto(t, "forward")
      /\ UNCHANGED <<now, bridge, actions, reminded, excused, faults>>

\* Another outcome and mark_intake_failed, or no answer at all.
Reject(t) ==
  LET i == thread[t].id
  IN  /\ thread[t].step = "prepare"
      /\ \/ Store(i, Inactive(Expired(rows[i]), "failed"))
         \/ UNCHANGED rows
      /\ Finish(t)
      /\ UNCHANGED <<now, bridge, actions, reminded, excused, faults>>

\* yggdrasil_canonical_request: Yggdrasil acts on the intent, or refuses it.
SendToYggdrasil(t) ==
  /\ thread[t].step = "forward"
  /\ \/ actions' = [actions EXCEPT ![thread[t].id] = [times |-> @.times + 1, last |-> thread[t].version]]
     \/ UNCHANGED actions
  /\ thread' = [thread EXCEPT ![t] = [step |-> "mark", id |-> @.id, version |-> 0]]
  /\ UNCHANGED <<now, rows, bridge, reminded, excused, faults>>

\* mark_intake_forwarded, whatever Yggdrasil answered
MarkForwarded(t) ==
  LET i == thread[t].id
  IN  /\ thread[t].step = "mark"
      /\ Store(i, Inactive(Expired(rows[i]), "forwarded_to_yggdrasil"))
      /\ Finish(t)
      /\ UNCHANGED <<now, bridge, actions, reminded, excused, faults>>

\* A lost answer of Yggdrasil ends the request in an error; a store call that
\* fails is ignored.
Fault(t) ==
  /\ faults < MaxFaults
  /\ \/ thread[t].step = "mark" /\ Finish(t)
     \/ thread[t].step = "prepare" /\ Goto(t, "forward")
  /\ excused' = excused \cup {thread[t].id}
  /\ faults' = faults + 1
  /\ UNCHANGED <<now, rows, bridge, actions, reminded>>

\* cancel_intake_response
CancelIntake(i) ==
  /\ Stored(i)
  /\ Store(i, Inactive(Expired(rows[i]), "cancelled"))
  /\ excused' = Overlap(i)
  /\ UNCHANGED <<now, thread, bridge, actions, reminded, faults>>

-----------------------------------------------------------------------------
(* The channel bridge: _followup_loop *)

\* list_due_followups reads active rows, the longest unchanged first and not
\* more than ten times as many as it may return.
Oldest(i, j) == \/ rows[i].updated < rows[j].updated
                \/ rows[i].updated = rows[j].updated /\ i < j
Before(i, S) == {j \in S : Oldest(j, i)}
Active == {i \in Intakes : rows[i].status \in ActiveStatuses}
Listed == {i \in Active : Cardinality(Before(i, Active)) < 10 * Limit}

\* Mutant of Read: rows are not expired before they are tested.
ReadAsIs(i) == rows[i]

\* A row of the list, as its test sees it and the transaction leaves it.
Read(i) == Expired(rows[i])
DueRows == {i \in Listed : Due(Read(i))}

\* The rows read until Limit due ones are found.
Examined == {i \in Listed : Cardinality(Before(i, DueRows)) < Limit}

\* The elements of S, the oldest first.
Ordered(S) == {q \in SetToSeqs(S) : \A m, n \in DOMAIN q : m < n => Oldest(q[m], q[n])}

ListDue ==
  /\ bridge.step = "idle"
  /\ rows' = [i \in Intakes |-> IF i \in Examined THEN Read(i) ELSE rows[i]]
  /\ \E due \in Ordered(Examined \cap DueRows) :
       bridge' = IF due = <<>> THEN Resting ELSE [step |-> "sending", queue |-> due]
  /\ UNCHANGED <<now, thread, actions, reminded, excused, faults>>

\* The chunks of the message are sent.
SendFollowup ==
  /\ bridge.step = "sending"
  /\ reminded' = [reminded EXCEPT ![Head(bridge.queue)] = Min({@ + 1, TooMany})]
  /\ bridge' = [bridge EXCEPT !.step = "marking"]
  /\ UNCHANGED <<now, rows, thread, actions, excused, faults>>

\* mark_followup_sent refuses a closed intake (422), which ends the pass.
MarkFollowup ==
  LET i == Head(bridge.queue)
      row == Expired(rows[i])
      rest == Tail(bridge.queue)
  IN  /\ bridge.step = "marking"
      /\ \/ /\ row.status \in ActiveStatuses
            /\ rows' = [rows EXCEPT ![i] = MarkedSent(row)]
            /\ bridge' = IF rest = <<>> THEN Resting ELSE [step |-> "sending", queue |-> rest]
         \/ /\ row.status \notin ActiveStatuses
            /\ bridge' = Resting
            /\ UNCHANGED rows
      /\ UNCHANGED <<now, thread, actions, reminded, excused, faults>>

\* The message is not delivered, the mark is lost or the bridge restarts.
AbortPass ==
  /\ bridge.step # "idle" /\ faults < MaxFaults
  /\ bridge' = Resting
  /\ faults' = faults + 1
  /\ UNCHANGED <<now, rows, thread, actions, reminded, excused>>

Tick ==
  /\ now < Horizon
  /\ now' = now + 1
  /\ UNCHANGED <<rows, thread, bridge, actions, reminded, excused, faults>>

BridgeStep == ListDue \/ SendFollowup \/ MarkFollowup

ThreadStep(t) ==
  \/ \E i \in Intakes : CreateIntake(t, i)
  \/ \E i \in Intakes \ Abandoned : ReadForEdit(t, i) \/ ReadForConfirm(t, i)
  \/ StoreEdit(t) \/ Accept(t) \/ Reject(t) \/ SendToYggdrasil(t) \/ MarkForwarded(t) \/ Fault(t)

Next ==
  \/ \E t \in Thread : ThreadStep(t)
  \/ \E i \in Intakes \ Abandoned : ReadIntake(i) \/ CancelIntake(i)
  \/ BridgeStep
  \/ AbortPass
  \/ Tick

Spec == Init /\ [][Next]_vars

\* The bridge polls for ever and every call of it ends.
FairSpec == Spec /\ WF_vars(BridgeStep)

-----------------------------------------------------------------------------
(* Properties *)

\* An intake is acted on by Yggdrasil at most once, unless two of the user's
\* messages about it were handled at the same time or an answer or a commit
\* was lost: the status is the only thing that keeps a second "confirm" from
\* being forwarded (confirm_intake_response).
ForwardedOnce == \A i \in Intakes \ excused : actions[i].times <= 1

\* With the same exceptions, what a forwarded intake shows (the intent of its
\* row) is what Yggdrasil was asked to do (get_intake, mark_intake_forwarded).
ShownAsForwarded ==
  \A i \in Intakes \ excused : actions[i].times > 0 => actions[i].last = rows[i].version

\* A user who does not answer is reminded max_reminders times and no more,
\* counted from the last change of the intake, but for reminders whose mark
\* was lost (mark_followup_sent, _send_due_followups).
RemindersBounded ==
  \A i \in Intakes : rows[i].status \in ActiveStatuses => reminded[i] <= MaxReminders + faults

\* A reminder that is due is sent, or the intake closes or changes: one intake
\* whose reminder cannot be marked does not keep the bridge from the others.
RemindersServed == \A i \in Intakes : Due(rows[i]) ~> ~Due(rows[i])

\* "Deleting an intake only cancels the pre-execution draft state; nothing has
\* been sent to Yggdrasil" (docs/BRAGI_HEIMDAL_INTEGRATION.md).
CancelledNothingSent == \A i \in Intakes : rows[i].status = "cancelled" => actions[i].times = 0
=============================================================================
