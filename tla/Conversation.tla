---------------------------- MODULE Conversation ----------------------------
(***************************************************************************)
(* One user talking to Bragi in a Discord channel.  Bragi is stateless     *)
(* between messages except for the intakes it stores: what a message means *)
(* is read off the text of the last messages of the channel, which the     *)
(* bridge sends along.  A message is looked at twice, first by             *)
(* diagnose_route, which tells the channel gate and the audit trail what   *)
(* it will be, then by route_chat, which does it; their tests are in       *)
(* different orders.  Confirmed intents go through Heimdal to Yggdrasil.   *)
(*                                                                         *)
(* A message is handled in one step: requests that overlap are the subject *)
(* of module Intake.  What the user may say is a parameter: a sentence is  *)
(* what the patterns of the code find in it (Sentence); a turn of the      *)
(* history keeps what later messages look for in it: the last intake id,   *)
(* the JSON block, and words.                                              *)
(***************************************************************************)
EXTENDS Heimdal, Sequences, SequencesExt

CONSTANTS
  Sentence,   \* what the patterns find in each sentence the user may say
  Allowed,    \* allowed_capabilities of the channel
  Brief,      \* sources of the existing daily brief
  Window,     \* turns of history the bridge sends along
  Recent,     \* turns that fit in the last 6000 characters
  MaxIntakes, \* bound on the intakes stored
  MaxEdits,   \* bound on the changes of the registries
  MaxFaults   \* bound on failed writes of the intake store

ASSUME ConversationAssumption ==
  /\ Brief \subseteq Source /\ Brief # {}
  /\ {Window, Recent, MaxIntakes} \subseteq Nat \ {0}
  /\ {MaxEdits, MaxFaults} \subseteq Nat

VARIABLES
  history, \* the turns the user and Bragi can look back at
  intakes, \* intakes[i]: the row of the i-th intake
  on,      \* ids that are enabled in the registries
  tasks,   \* tasks[t]: what the config of task t uses
  turn,    \* what the last message did: see NoTurn
  asked,   \* intents the user was asked to confirm, while they can be found
  edits, faults

vars == <<history, intakes, on, tasks, turn, asked, edits, faults>>

Intakes == 1..MaxIntakes
NoId == 0
\* No sentence builds this one.
NoIntent == Draft("digest", "hook", {}, {})

-----------------------------------------------------------------------------
(* What the user says.  The traits of a sentence are the patterns that     *)
(* match its text:                                                         *)
(*   id: intake_id_from_text; show, delete, resume, select, list, confirm: *)
(*     is_intake_show_request, cancel, continue,                           *)
(*     is_source_selection_update_request, list, confirm                   *)
(*   yes: is_confirmation; advances, describes, auto, sec: the patterns of *)
(*     the conversational topic digest                                     *)
(*   operation, propose, catalog, context, search, wish, build, boundary:  *)
(*     operation_from_text, source_proposal_requested,                     *)
(*     source_catalog_search_requested, context_categories_for_text,       *)
(*     source_search_requested, capability_proposal_candidate,             *)
(*     build_candidate_intent, yggdrasil_freeform_message_response         *)
(*   save, remember, forget, recall: the requests about memory             *)
(*   diagnose, admin: diagnostic_probe_from_text and                       *)
(*     discord_admin_or_approval_request                                   *)
(*   url: urls_from_text; slug: explicit_source_ids_from_text              *)

Trait == {"id", "show", "delete", "resume", "select", "list", "confirm", "yes", "advances", "describes",
          "auto", "sec", "operation", "propose", "catalog", "context", "search", "wish", "build", "boundary",
          "save", "remember", "forget", "recall", "diagnose", "admin", "url", "slug"}

Kinds == DOMAIN Sentence

\* names are the approved ids a sentence names, builds is the intent it asks for,
\* action the capability of its operation, behind the sentence after "diagnose
\* route:".  Of the patterns, this much holds of every text: a bare confirmation
\* is one of a few fixed phrases, none of which has an intake id or confirms "the
\* intake"; what is a wish for printers names printers in the intent built from
\* it, and is not one of the supply requests that build a printer intent.
ASSUME SentenceAssumption ==
  \A k \in Kinds :
    LET said == Sentence[k]
    IN  /\ said \in [traits : SUBSET Trait, names : SUBSET Ids, builds : Intent,
                     action : {"none", "run_l1", "pause_l1", "task_read"}, behind : Kinds \cup {"none"}]
        /\ "yes" \in said.traits => {"id", "confirm"} \cap said.traits = {}
        /\ "build" \in said.traits <=> said.builds # NoIntent
        /\ {"build", "wish"} \subseteq said.traits => LooksNew(said.builds)
        /\ "operation" \in said.traits <=> said.action # "none"
        /\ "diagnose" \in said.traits =>
             said.behind # "none" /\ ("id" \in said.traits <=> "id" \in Sentence[said.behind].traits)

\* A message, and the intake it names.
Message == {m \in [kind : Kinds, id : 0..MaxIntakes] : (m.id # NoId) <=> "id" \in Sentence[m.kind].traits}

\* The table once more: TLC evaluates a definition once, a constant at each use.
Said == Sentence

Has(m, trait) == trait \in Said[m.kind].traits
Words(m) == Said[m.kind].traits \cap {"auto", "sec"}

\* source_ids_from_text, printer_ids_from_text: approved ids a sentence names.
Names(m) == Said[m.kind].names

\* build_candidate_intent
Built(m) == Said[m.kind].builds

\* operation_from_text and its action in channel_required_capability.
OperationCapability(m) == Said[m.kind].action

-----------------------------------------------------------------------------
(* What Bragi reads off the history. *)

\* A turn: the last intake id in its texts, the JSON block of the reply, and the
\* words and sources of the user's sentence.  by_user is FALSE for a reminder.
Entry == [id : 0..MaxIntakes, intent : Intent, words : SUBSET {"auto", "sec"}, names : SUBSET Ids,
          block : {"none", "confirm", "summary", "details", "show", "diagnosis", "selection", "memory"},
          by_user : BOOLEAN]

\* The turns that pass a test, and the latest of some, or one with nothing in it.
Blank == [id |-> NoId, intent |-> NoIntent, words |-> {}, names |-> {}, block |-> "none", by_user |-> FALSE]
Latest(hits) == IF hits = {} THEN Blank ELSE history[Max(hits)]

WithId == {k \in DOMAIN history : history[k].id # NoId}
WithIntent ==
  {k \in DOMAIN history : /\ history[k].block \in {"confirm", "details", "show", "diagnosis"}
                          /\ history[k].intent # NoIntent}
WithSelection == {k \in DOMAIN history : history[k].block = "selection"}

\* Mutant of PriorId: the first intake named in the history.
FirstId == IF WithId = {} THEN NoId ELSE history[Min(WithId)].id

\* pending_intake_id_from_prior, pending_intent_from_prior,
\* pending_source_selection_from_prior and pending_memory_from_prior
PriorId == Latest(WithId).id
PendingIntent == Latest(WithIntent).intent
PendingSelection == Latest(WithSelection).intent
PendingMemory == \E k \in DOMAIN history : history[k].block = "memory"

\* result_needs_details: "Canonical intent awaiting details:" in prior[-6000:].
NeedsDetails ==
  \E k \in DOMAIN history : k > Len(history) - Recent /\ history[k].block = "details"

\* intake_status_for_user
Status(id) == IF id = NoId THEN "" ELSE intakes[id].status
ActiveStatuses == {"collecting_slots", "awaiting_source_selection", "awaiting_confirmation"}
Active == {i \in Intakes : intakes[i].status \in ActiveStatuses}
Selecting(id) == Status(id) = "awaiting_source_selection"

Target(m) == IF m.id # NoId THEN m.id ELSE PriorId

\* conversational_topic_digest_active, over the user's messages of the window.
UserWords == UNION {history[k].words : k \in DOMAIN history}
DigestTalk(m) ==
  /\ \E k \in DOMAIN history : history[k].by_user
  /\ Has(m, "advances")
  /\ {"auto", "sec"} \subseteq (UserWords \cup Words(m))

\* conversational_source_terms: what the user's messages name.
NamedSources(m) == Source \cap (Names(m) \cup UNION {history[k].names : k \in DOMAIN history})

\* conversational_topic_digest_intent.  Without a single approved source the
\* code falls back on its built-in aliases.
DigestIntent(m) ==
  LET approved == on \cap Source
  IN  Draft("digest", "threats", IF approved = {} THEN NamedSources(m) ELSE NamedSources(m) \cap approved, {})

\* merge_intent_slots
Merged(i, m) == IF i.ids = {} THEN [i EXCEPT !.ids = Names(m) \cap SlotIds(i.cap)] ELSE i

-----------------------------------------------------------------------------
(* The two orders in which a message is tested; the first rule that holds *)
(* decides.                                                                *)

\* Rules that look at the sentence alone.
SentenceRules ==
  {"diagnose", "save", "remember", "forget", "recall", "resume", "list", "confirm", "yes", "boundary",
   "propose", "catalog", "context", "operation", "search", "wish", "build"}

When(rule, m) ==
  CASE rule \in SentenceRules -> Has(m, rule)
    [] rule = "named"         -> m.id # NoId /\ ~Has(m, "confirm") /\ ~Has(m, "resume")
    [] rule = "show"          -> m.id # NoId /\ Has(m, "show")
    [] rule = "delete"        -> Has(m, "delete") /\ Target(m) # NoId
    [] rule = "select_named"  -> Has(m, "select") /\ Selecting(m.id)
    [] rule = "select_prior"  -> Has(m, "select") /\ Selecting(PriorId)
    [] rule = "confirm_known" -> Has(m, "confirm") /\ Target(m) # NoId
    [] rule = "detail"        -> Status(m.id) \in {"none", "awaiting_source_selection", "collecting_slots"}
    [] rule = "slots"         -> PendingIntent # NoIntent /\ NeedsDetails
    [] rule = "digest_sources"-> DigestTalk(m) /\ Has(m, "describes")
    [] rule = "digest_select" -> DigestTalk(m) /\ Has(m, "describes") /\ NamedSources(m) # {}
    [] rule = "digest_intent" -> DigestTalk(m)
    [] rule = "chat"          -> TRUE

First(rules, m) ==
  LET holds == [k \in DOMAIN rules |-> When(rules[k], m)]
  IN  rules[CHOOSE k \in DOMAIN rules : holds[k] /\ \A j \in 1..(k - 1) : ~holds[j]]

\* diagnose_route
DiagnosedOrder ==
  <<"save", "remember", "forget", "recall", "named", "delete", "resume", "select_prior", "list", "confirm",
    "yes", "slots", "boundary", "digest_sources", "digest_intent", "propose", "catalog", "context",
    "operation", "search", "wish", "build", "chat">>
Diagnosed(m) == First(DiagnosedOrder, m)

\* Mutant of Routed: an operation is recognised before the context questions are
\* ruled out, and before an open question is answered.
RoutedOperationFirst(m) == First(
  <<"diagnose", "save", "remember", "forget", "recall", "show", "operation", "delete", "resume", "select_named",
    "select_prior", "list", "confirm_known", "detail", "yes", "slots", "boundary", "digest_select",
    "digest_intent", "propose", "catalog", "context", "search", "build", "chat">>, m)

\* route_chat
RoutedOrder ==
  <<"diagnose", "save", "remember", "forget", "recall", "show", "delete", "resume", "select_named",
    "select_prior", "list", "confirm_known", "detail", "yes", "slots", "boundary", "digest_select",
    "digest_intent", "propose", "catalog", "context", "operation", "search", "build", "chat">>
Routed(m) == First(RoutedOrder, m)

\* Mutant of YesRoute: the talk about a digest is looked for first.
YesRouteTalkFirst(m) ==
  IF DigestTalk(m) \/ PendingSelection # NoIntent THEN "validate"
  ELSE IF PriorId # NoId \/ PendingIntent # NoIntent THEN "prepare"
  ELSE "none"

\* The route diagnose_route gives a bare confirmation.
YesRoute(m) ==
  IF PriorId # NoId /\ PendingSelection = NoIntent THEN "prepare"
  ELSE IF PendingSelection # NoIntent \/ DigestTalk(m) THEN "validate"
  ELSE IF PendingIntent # NoIntent THEN "prepare"
  ELSE "none"

\* channel_required_capability
CapabilityFor(rule, m) ==
  CASE rule = "save" -> IF PendingMemory THEN "memory" ELSE "chat"
    [] rule \in {"remember", "forget", "recall"} -> "memory"
    [] rule \in {"named", "delete", "resume", "select_prior", "list", "confirm", "slots",
                 "digest_sources", "digest_intent", "search", "build"} -> "draft_task"
    [] rule = "yes" -> IF YesRoute(m) = "none" THEN "chat" ELSE "draft_task"
    [] rule = "propose" -> "source_proposal"
    [] rule \in {"catalog", "context"} -> "context"
    [] rule = "operation" -> OperationCapability(m)
    [] OTHER -> "chat"
RequiredCapability(m) == CapabilityFor(Diagnosed(m), m)

\* forwarded_to_yggdrasil of the audit record.
ForwardsBy(rule, m) == rule \in {"operation", "confirm"} \/ (rule = "yes" /\ YesRoute(m) = "prepare")
FlaggedForwarded(m) == ForwardsBy(Diagnosed(m), m)

-----------------------------------------------------------------------------
(* Replies *)

\* Mutant of LastTurns: the whole channel is sent along.
AllTurns(turns) == turns

\* discord_history_messages, _history_for_message
LastTurns(turns) == SubSeq(turns, Max({1, Len(turns) - Window + 1}), Len(turns))

\* The intent asked for last, unless an intake was named since.
LastAsked ==
  LET asks == {k \in DOMAIN history : history[k].block \in {"confirm", "summary"}}
      last == Max(asks)
  IN  IF asks = {} \/ \E k \in DOMAIN history : k > last /\ history[k].id # NoId
      THEN NoIntent ELSE history[last].intent

\* What a message did: the capability it used without the gate having asked for
\* it; whether Yggdrasil was called, and with which intent.
\* Of the call, what was known when it was made: whether the audit record says
\* so, whether the intent was asked for, and what was asked for last.
NoTurn == [ungated |-> "none", called |-> FALSE, sent |-> NoIntent, served |-> FALSE, flagged |-> FALSE,
           was_asked |-> FALSE, last_asked |-> NoIntent, about |-> FALSE, diagnosed |-> FALSE]

\* The gate takes a message for one about an intake, and nothing else: it names
\* one, or it confirms "the intake" where none is known.
AboutIntake(m) == m.id # NoId \/ (Has(m, "confirm") /\ Target(m) = NoId)

\* Bragi answers m: id is the last intake the reply names, block its JSON block.
Answer(m, id, block, intent) ==
  LET entry == [id |-> IF id = NoId THEN m.id ELSE id, block |-> block, intent |-> intent,
                words |-> Words(m), names |-> Names(m), by_user |-> TRUE]
      found == {intakes[i].intent : i \in Intakes} \cup {history'[k].intent : k \in DOMAIN history'}
  IN  /\ history' = LastTurns(Append(history, entry))
      /\ asked' = (asked \cap found) \cup (IF block \in {"confirm", "summary"} THEN {intent} ELSE {})

Ungated(m, used) == IF used \in {"none", "chat"} \/ used = RequiredCapability(m) THEN "none" ELSE used

\* A turn for which Yggdrasil was not called.
QuietTurn(m, ungated) == [NoTurn EXCEPT !.ungated = ungated, !.about = AboutIntake(m) /\ ungated # "none"]

Reply(m, id, block, intent, used) ==
  /\ Answer(m, id, block, intent)
  /\ turn' = QuietTurn(m, Ungated(m, used))

\* The answer of Yggdrasil, passed on; it names no intake.
PassOn(m, used, sent, served) ==
  /\ Answer(m, NoId, "none", NoIntent)
  /\ turn' = [ungated |-> Ungated(m, used), called |-> TRUE, sent |-> sent, served |-> served,
              flagged |-> FlaggedForwarded(m), was_asked |-> sent \in asked, last_asked |-> LastAsked,
              about |-> AboutIntake(m), diagnosed |-> Latest(WithIntent).block = "diagnosis"]

\* A reply that names intake id (or none), without a JSON block.
Say(m, id, used) == Reply(m, id, "none", NoIntent, used)

Keep == UNCHANGED <<intakes, tasks, faults>>

\* create_intake gives the next id.
Free == {i \in Intakes : intakes[i].status = "none"}
NextId == IF Free = {} THEN NoId ELSE Min(Free)

\* How the attempt to store an intake ends.  A store that fails is only logged,
\* and the reply has no id; a reply over max_message_chars loses its end, where
\* the JSON block is, and keeps the summary (truncate_for_channel).
Stored == {"stored"} \cup (IF faults < MaxFaults THEN {"lost", "cut"} ELSE {})

\* A reply that shows intent after storing it as row id with this status.
StoreAndSay(m, id, status, block, intent) ==
  /\ id # NoId
  /\ \E how \in Stored :
       /\ intakes' = IF how = "lost" THEN intakes
                     ELSE [intakes EXCEPT ![id] = [status |-> status, intent |-> intent]]
       /\ faults' = IF how = "stored" THEN faults ELSE faults + 1
       /\ LET shown_block == IF how # "cut" THEN block ELSE IF block = "confirm" THEN "summary" ELSE "none"
          IN  Reply(m, IF how = "lost" THEN NoId ELSE id, shown_block,
                    IF shown_block = "none" THEN NoIntent ELSE intent, "draft_task")
  /\ UNCHANGED tasks

\* Mutant of ValidateForReply: every answer but a rejection asks for confirmation.
AskAtOnce(m, intent, id) ==
  IF Outcome(intent, on, FALSE) \in {"ASK_CONFIRMATION", "ASK_DETAILS"}
  THEN StoreAndSay(m, id, "awaiting_confirmation", "confirm", intent)
  ELSE Say(m, NoId, "chat") /\ Keep

\* validate_intent_for_reply with maybe_store_intake_for_result and
\* format_gateway_result; id is the existing intake or a new one.
ValidateForReply(m, intent, id) ==
  LET outcome == Outcome(intent, on, FALSE)
  IN  CASE outcome = "ASK_CONFIRMATION" ->
             StoreAndSay(m, id, "awaiting_confirmation", "confirm", intent)
        [] outcome = "ASK_DETAILS" ->
             StoreAndSay(m, id, "collecting_slots", "details", intent)
        [] OTHER -> Say(m, NoId, "chat") /\ Keep

\* yggdrasil_canonical_request with a confirmed intent.
Forward(m, intent) ==
  /\ PassOn(m, "draft_task", intent, Served(intent, on, tasks))
  /\ tasks' = TasksAfter(intent, on, tasks)

\* Mutant of ConfirmIntake: any active intake is confirmed.
ConfirmActive(m, id) ==
  IF Status(id) \in ActiveStatuses
  THEN Forward(m, intakes[id].intent) /\ UNCHANGED <<intakes, faults>>
  ELSE Say(m, id, "draft_task") /\ Keep

\* confirm_intake_response
ConfirmIntake(m, id) ==
  LET intent == intakes[id].intent
  IN  \/ /\ Status(id) # "awaiting_confirmation"
         /\ Say(m, id, "draft_task") /\ Keep
      \/ /\ Status(id) = "awaiting_confirmation"
         /\ Outcome(intent, on, TRUE) # "ACCEPT"
         /\ intakes' = [intakes EXCEPT ![id].status = "failed"]
         /\ Say(m, NoId, "draft_task") /\ UNCHANGED <<tasks, faults>>
      \/ /\ Status(id) = "awaiting_confirmation"
         /\ Outcome(intent, on, TRUE) = "ACCEPT"
         /\ intakes' = [intakes EXCEPT ![id].status = "forwarded_to_yggdrasil"]
         /\ Forward(m, intent) /\ UNCHANGED faults

\* source_selection_intake_response.  A source the user names counts if the
\* selection offered it; without one the default selection stands.
SelectSources(m, id) ==
  IF ~Selecting(id) \/ Has(m, "url")
  THEN Say(m, id, "draft_task") /\ Keep
  ELSE \E chosen \in {{}, Names(m) \cap Source} :
         LET intent == intakes[id].intent
         IN  ValidateForReply(m, IF chosen = {} THEN intent ELSE [intent EXCEPT !.ids = chosen], id)

\* create_source_selection_intake, format_source_selection.  The block of a
\* selection that was not stored always asks for a subject change, whatever it was
\* a selection for (source_selection_pending_payload).
OfferSources(m, intent) ==
  IF intent.ids = {}
  THEN Say(m, NoId, "draft_task") /\ Keep
  ELSE /\ NextId # NoId
       /\ \/ /\ intakes' = [intakes EXCEPT ![NextId] =
                                [status |-> "awaiting_source_selection", intent |-> intent]]
            /\ Say(m, NextId, "draft_task")
            /\ UNCHANGED <<tasks, faults>>
         \/ /\ faults < MaxFaults /\ faults' = faults + 1
            /\ Reply(m, NoId, "selection", Change(intent.task, intent.ids, {}, TRUE), "draft_task")
            /\ UNCHANGED <<intakes, tasks>>

-----------------------------------------------------------------------------
(* route_chat, rule by rule *)

\* format_route_diagnostic of the sentence behind "diagnose route:".  The
\* candidate intent comes without the user's words (diagnostic_intent).
Probe(m) == [kind |-> Said[m.kind].behind, id |-> m.id]
Candidate(m) ==
  LET rule == Diagnosed(m)
      talk == IF DigestTalk(m) THEN DigestIntent(m) ELSE NoIntent
      intent == CASE rule = "yes"           -> IF PendingIntent # NoIntent THEN PendingIntent ELSE talk
                  [] rule = "slots"         -> Merged(PendingIntent, m)
                  [] rule = "digest_intent" -> talk
                  [] rule = "build"         -> Built(m)
                  [] OTHER                  -> NoIntent
  IN  [intent EXCEPT !.words = {}]

Diagnose(m) == Reply(m, NoId, "diagnosis", Candidate(Probe(m)), "chat") /\ Keep

\* handle_memory_proposal; committing, forgetting and querying show no block.
ProposeMemory(m) == Reply(m, NoId, "memory", NoIntent, "memory") /\ Keep
UseMemory(m, rule) ==
  Say(m, NoId, IF rule = "save" /\ ~PendingMemory THEN "chat" ELSE "memory") /\ Keep

\* show_intake_response
ShowIntake(m) ==
  /\ IF Status(m.id) = "none"
     THEN Say(m, m.id, "draft_task")
     ELSE Reply(m, m.id, "show", intakes[m.id].intent, "draft_task")
  /\ Keep

\* cancel_intake_response: any intake but an expired or cancelled one.
CancelIntake(m) ==
  LET id == Target(m)
  IN  /\ intakes' = IF Status(id) \in {"none", "expired", "cancelled"} THEN intakes
                    ELSE [intakes EXCEPT ![id].status = "cancelled"]
      /\ Say(m, id, "draft_task") /\ UNCHANGED <<tasks, faults>>

\* list_intakes_response: any order, so any active intake may be the last named.
ListIntakes(m) ==
  /\ \E last \in (IF Active = {} THEN {NoId} ELSE Active) : Say(m, last, "draft_task")
  /\ Keep

\* continue_intake_response, continue_pending_intake_response
ContinueIntake(m) ==
  IF Target(m) # NoId THEN Say(m, Target(m), "draft_task") /\ Keep ELSE ListIntakes(m)

\* intake_detail_update_response, update_collecting_intake_response.  For a digest
\* every word with an underscore counts as a source id, a task name too, and such
\* an intent is rejected.
UpdateDetails(m) ==
  LET intent == intakes[m.id].intent
      misread == Has(m, "slug") /\ intent.cap \in {"digest", "change"} /\ Merged(intent, m).ids = {}
  IN  \/ /\ Status(m.id) = "none" \/ (Status(m.id) = "collecting_slots" /\ misread)
         /\ Say(m, NoId, "draft_task") /\ Keep
      \/ /\ Selecting(m.id)
         /\ SelectSources(m, m.id)
      \/ /\ Status(m.id) = "collecting_slots" /\ ~misread
         /\ ValidateForReply(m, Merged(intent, m), m.id)

\* A bare "yes".  The pending intent in the text of the conversation counts only
\* when no intake id does.
Agree(m) ==
  IF PriorId # NoId /\ Has(m, "select") THEN SelectSources(m, PriorId)
  ELSE IF PriorId # NoId /\ PendingSelection = NoIntent THEN ConfirmIntake(m, PriorId)
  ELSE IF PendingSelection # NoIntent THEN ValidateForReply(m, PendingSelection, NextId)
  ELSE IF PendingIntent # NoIntent
  THEN LET outcome == Outcome(PendingIntent, on, TRUE)
       IN  IF outcome = "ACCEPT"
           THEN Forward(m, PendingIntent) /\ UNCHANGED <<intakes, faults>>
           ELSE /\ IF outcome = "ASK_DETAILS"
                   THEN Reply(m, NoId, "details", PendingIntent, "draft_task")
                   ELSE Say(m, NoId, "draft_task")
                /\ Keep
  ELSE IF DigestTalk(m) THEN ValidateForReply(m, DigestIntent(m), NextId)
  ELSE Say(m, NoId, "chat") /\ Keep

\* source_selection_intent: the approved sources that match the request best.
SearchSources(m) ==
  \E found \in {{}} \cup {{x} : x \in on \cap Source} : OfferSources(m, Change("brief", found, {}, TRUE))

\* yggdrasil_canonical_request with an operation on a task.
Operate(m) ==
  PassOn(m, OperationCapability(m), NoIntent, TRUE) /\ Keep

\* The rule that holds, carried out.
Route(m, rule) ==
  \/ rule = "diagnose" /\ Diagnose(m)
  \/ rule = "remember" /\ ProposeMemory(m)
  \/ rule \in {"save", "forget", "recall"} /\ UseMemory(m, rule)
  \/ rule = "show" /\ ShowIntake(m)
  \/ rule = "delete" /\ CancelIntake(m)
  \/ rule = "resume" /\ ContinueIntake(m)
  \/ rule = "select_named" /\ SelectSources(m, m.id)
  \/ rule = "select_prior" /\ SelectSources(m, PriorId)
  \/ rule = "list" /\ ListIntakes(m)
  \/ rule = "confirm_known" /\ ConfirmIntake(m, Target(m))
  \/ rule = "detail" /\ UpdateDetails(m)
  \/ rule = "yes" /\ Agree(m)
  \/ rule = "slots" /\ ValidateForReply(m, Merged(PendingIntent, m), NextId)
  \/ rule = "digest_select" /\ OfferSources(m, Draft("digest", "threats", NamedSources(m) \cap on, {}))
  \/ rule = "digest_intent" /\ ValidateForReply(m, DigestIntent(m), NextId)
  \/ rule = "search" /\ SearchSources(m)
  \/ rule = "operation" /\ Operate(m)
  \/ rule = "build" /\ ValidateForReply(m, Built(m), NextId)
  \/ rule = "propose" /\ Say(m, NoId, "source_proposal") /\ Keep
  \/ rule \in {"catalog", "context"} /\ Say(m, NoId, "context") /\ Keep
  \/ rule \in {"boundary", "chat"} /\ Say(m, NoId, "chat") /\ Keep

-----------------------------------------------------------------------------
(* discord_channel_message *)

\* channel_allows
Blocked(m) == RequiredCapability(m) \notin Allowed

\* discord_admin_or_approval_request, a capability the channel lacks, or a
\* message that is handled.
Converse(m) ==
  IF Has(m, "admin") \/ Blocked(m) THEN Say(m, NoId, "none") /\ Keep ELSE Route(m, Routed(m))

\* The bridge sends the reminder of an intake to the channel.
Remind(i) ==
  /\ i \in Active
  /\ history' = LastTurns(Append(history, [Blank EXCEPT !.id = i]))
  /\ turn' = NoTurn
  /\ UNCHANGED <<intakes, on, tasks, asked, edits, faults>>

\* An intake expires, or the user deletes it elsewhere.
Close(i) ==
  /\ i \in Active
  /\ intakes' = [intakes EXCEPT ![i].status = "expired"]
  /\ turn' = NoTurn
  /\ UNCHANGED <<history, on, tasks, asked, edits, faults>>

\* An operator enables or disables an entry of a registry.
Toggle(x) ==
  /\ edits < MaxEdits /\ edits' = edits + 1
  /\ on' = IF x \in on THEN on \ {x} ELSE on \cup {x}
  /\ turn' = NoTurn
  /\ UNCHANGED <<history, intakes, tasks, asked, faults>>

Init ==
  /\ history = <<>>
  /\ intakes = [i \in Intakes |-> [status |-> "none", intent |-> NoIntent]]
  /\ on = Ids
  /\ tasks = [t \in {"brief"} |-> Brief]
  /\ turn = NoTurn
  /\ asked = {}
  /\ edits = 0 /\ faults = 0

Next ==
  \/ \E m \in Message : Converse(m) /\ UNCHANGED <<on, edits>>
  \/ \E i \in Intakes : Remind(i) \/ Close(i)
  \/ \E x \in Ids : Toggle(x)

Spec == Init /\ [][Next]_vars

-----------------------------------------------------------------------------
(* Properties *)

\* Every variable keeps its type; a turn is one of the rules of route_chat.
TypeOK ==
  /\ history \in Seq(Entry) /\ Len(history) <= Window
  /\ intakes \in [Intakes -> [intent : Intent, status : ActiveStatuses \cup
       {"none", "forwarded_to_yggdrasil", "cancelled", "expired", "failed"}]]
  /\ on \subseteq Ids
  /\ DOMAIN tasks \subseteq Task /\ \A t \in DOMAIN tasks : tasks[t] \subseteq Ids /\ tasks[t] # {}
  /\ turn.sent \in Intent
  /\ turn.sent # NoIntent => turn.called
  /\ asked \subseteq Intent
  /\ edits \in 0..MaxEdits /\ faults \in 0..MaxFaults

\* Whatever reaches Yggdrasil was put to the user for confirmation before, by
\* whichever of the ways to confirm (an intake named, an intake found in the
\* history, an intent found in the history) it was confirmed.  Excused: an
\* intent a diagnosis has shown, which a "yes" forwards just so.
AskedBeforeForwarded == turn.sent # NoIntent => turn.was_asked \/ turn.diagnosed

\* A confirmation that names no intake is for what the user was asked last, as
\* long as no intake was named since, by the user, a list or a reminder.
\* Excused: a diagnosis, and replies without their id or block.
ConfirmedLastAsked ==
  turn.sent # NoIntent /\ turn.last_asked # NoIntent =>
    turn.sent = turn.last_asked \/ turn.about \/ turn.diagnosed \/ faults > 0

\* What a message makes Bragi do needs a capability that the gate asked of the
\* channel, although the gate looks at diagnose_route and not at what
\* route_chat does.  Not so for an operation, a URL to propose or a question that
\* a message about an intake asks as well (AboutIntake): the gate stops at the
\* intake and asks for draft_task, route_chat goes on to the other request.
GateCovers ==
  \/ turn.ungated = "none"
  \/ turn.about /\ turn.ungated \in {"run_l1", "pause_l1", "task_read", "source_proposal", "context"}

\* Every call to Yggdrasil is in the audit trail as one.  Excused: an operation in
\* a message about an intake, a diagnosis, and a lost or cut reply, after which
\* the talk about a digest hides the confirmation.
ForwardedFlagged ==
  turn.called => turn.flagged \/ turn.ungated # "none" \/ turn.diagnosed \/ faults > 0

\* A confirmation that was asked for can be given: Heimdal accepts the intent of
\* every intake that waits for one, unless a registry has been edited.
AskedCanBeConfirmed ==
  \A i \in Intakes :
    intakes[i].status = "awaiting_confirmation" =>
      edits > 0 \/ Outcome(intakes[i].intent, on, TRUE) = "ACCEPT"

\* Heimdal and the task policy agree on the sources of a digest: a confirmed new
\* digest is refused only because its task id is taken.
RefusedForTask ==
  turn.sent.cap = "digest" /\ turn.sent # NoIntent /\ ~turn.served => turn.sent.task \in DOMAIN tasks

=============================================================================
