------------------------------ MODULE Heimdal ------------------------------
(***************************************************************************)
(* What becomes of a canonical intent: Heimdal, the capability gateway of  *)
(* the automation API, decides whether it may be forwarded; Yggdrasil      *)
(* turns an accepted one into a task drafted from a template or into a     *)
(* proposed change of a topic digest, which the automation API checks      *)
(* against its own registries.                                             *)
(*                                                                         *)
(* Operators only: module Conversation holds the registries, the tasks and *)
(* the conversation they are used in.  An intent has the slots the         *)
(* decisions read; schedules, names, targets, approval levels and texts    *)
(* are defaults that are always valid.                                     *)
(***************************************************************************)
EXTENDS Integers, FiniteSets

CONSTANTS
  Source, Check, Printer, Webhook, \* ids that exist in the registries, enabled or not
  ListedIds                        \* ids named in configs/capabilities.yaml

ASSUME HeimdalAssumption ==
  /\ IsFiniteSet(Source)
  /\ ListedIds \subseteq (Check \cup Printer \cup Webhook)

Ids == Source \cup Check \cup Printer \cup Webhook

\* topic_digest.v1, topic_digest.modify_subjects.v1, server_health.v1,
\* printer_supply_status.v1 and n8n_webhook.v1.
Capabilities == {"digest", "change", "health", "printer", "n8n"}

\* What the slot of a capability holds: source_ids, add_source_ids, check_ids,
\* printer_ids or webhook_id.
SlotIds(cap) ==
  CASE cap \in {"digest", "change"} -> Source
    [] cap = "health" -> Check
    [] cap = "printer" -> Printer
    [] cap = "n8n" -> Webhook

Task == {"brief", "threats", "news", "health", "printers", "hook"}

\* task is the slot task_id, ids what is added or used, drop the
\* remove_source_ids, terms whether the include terms or the output target
\* change; words are those of the request that rules look for.
Intent == [cap : Capabilities, task : Task, ids : SUBSET Ids, drop : SUBSET Source,
           terms : BOOLEAN, words : SUBSET {"printer", "unsafe"}]

Draft(cap, task, ids, words) ==
  [cap |-> cap, task |-> task, ids |-> ids, drop |-> {}, terms |-> FALSE, words |-> words]
Change(task, ids, drop, terms) ==
  [cap |-> "change", task |-> task, ids |-> ids, drop |-> drop, terms |-> terms, words |-> {}]

-----------------------------------------------------------------------------
(* capability_gateway.py.  on is the set of enabled ids. *)

\* new_capability_reason
LooksNew(i) == i.cap # "printer" /\ "printer" \in i.words

\* has_topic_digest_subject_change
ChangesSubjects(i) == i.ids # {} \/ i.drop # {} \/ i.terms

\* missing_slots
DetailsMissing(i) == IF i.cap = "change" THEN ~ChangesSubjects(i) ELSE i.ids = {}

\* Mutant of AllowedIds: the sources as the registry once had them.
AllowedOnce(i, on) == IF i.cap \in {"digest", "change"} THEN Source ELSE ListedIds

\* source_ids_allowed_for_capability: a digest may use any source that is
\* enabled now (allow_any_approved_source).  The other capabilities have lists
\* that do not follow the registries.
AllowedIds(i, on) == IF i.cap \in {"digest", "change"} THEN on \cap Source ELSE ListedIds

\* validate_slots, validate_capability_specific_slots
SlotsAllowed(i, on) == (i.ids \cup i.drop) \subseteq AllowedIds(i, on)

\* Mutant of Outcome: the user is asked before the slots are checked.
OutcomeAskingFirst(i, on, confirmed) ==
  IF LooksNew(i) THEN "PROPOSE_NEW_CAPABILITY"
  ELSE IF "unsafe" \in i.words THEN "REJECT_UNSAFE"
  ELSE IF DetailsMissing(i) THEN "ASK_DETAILS"
  ELSE IF ~confirmed THEN "ASK_CONFIRMATION"
  ELSE IF ~SlotsAllowed(i, on) THEN "REJECT_UNSAFE"
  ELSE "ACCEPT"

\* validate_intent; the first test that applies decides.  ASK_CLARIFICATION is
\* two outcomes, by its missing slots.
Outcome(i, on, confirmed) ==
  IF LooksNew(i) THEN "PROPOSE_NEW_CAPABILITY"
  ELSE IF "unsafe" \in i.words THEN "REJECT_UNSAFE"
  ELSE IF DetailsMissing(i) THEN "ASK_DETAILS"
  ELSE IF ~SlotsAllowed(i, on) THEN "REJECT_UNSAFE"
  ELSE IF ~confirmed THEN "ASK_CONFIRMATION"
  ELSE "ACCEPT"

-----------------------------------------------------------------------------
(* Templates and policy of the automation API *)

\* handle_canonical_action knows these templates.
DraftableByYggdrasil == {"digest", "health", "n8n"}

\* validate_task_sources
SourcesApproved(ids, on) == ids # {} /\ ids \subseteq (on \cap Source)

\* load_enabled_service_checks, apply_server_health_fields
ChecksEnabled(ids, on) == ids # {} /\ ids \subseteq (on \cap Check)

\* validate_n8n_webhook_task
WebhookEnabled(ids, on) == Cardinality(ids) = 1 /\ ids \subseteq (on \cap Webhook)

\* render_task_from_template and the policy checks of the rendered config.
Renders(i, on) ==
  CASE i.cap = "digest" -> SourcesApproved(i.ids, on)
    [] i.cap = "health" -> ChecksEnabled(i.ids, on)
    [] i.cap = "n8n"    -> WebhookEnabled(i.ids, on)
    [] OTHER            -> FALSE

\* apply_topic_digest_subject_change
Resubjected(sources, i) == (sources \ i.drop) \cup i.ids

\* The draft endpoint refuses an id that is taken.  tasks[t] is what the config
\* of task t uses.
CanDraft(i, on, tasks) ==
  /\ i.cap \in DraftableByYggdrasil
  /\ i.task \notin DOMAIN tasks
  /\ Renders(i, on)

\* The change is applied to the config of the task, and the whole new config is
\* validated (validate_task_policy): every source it keeps must be enabled.
CanPropose(i, on, tasks) ==
  /\ i.cap = "change"
  /\ i.task \in DOMAIN tasks
  /\ LET changed == Resubjected(tasks[i.task], i)
     IN  /\ SourcesApproved(changed, on)
         /\ changed # tasks[i.task] \/ i.terms

\* handle_canonical_action does what the request says.
Served(i, on, tasks) == CanDraft(i, on, tasks) \/ CanPropose(i, on, tasks)

\* A draft adds a task; a proposal leaves the tasks alone until it is applied.
TasksAfter(i, on, tasks) ==
  IF CanDraft(i, on, tasks)
  THEN [t \in DOMAIN tasks \cup {i.task} |-> IF t = i.task THEN i.ids ELSE tasks[t]]
  ELSE tasks

=============================================================================
