------------------------- MODULE ConversationProofs -------------------------
(***************************************************************************)
(* Theorems about Conversation, for any sentences, registries and bounds.  *)
(* Of a sentence only SentenceAssumption is known: which of the patterns   *)
(* match it is free.                                                       *)
(*                                                                         *)
(* AskedIsConfirmable and AcceptedIsDrafted follow from what a message may *)
(* do to an intake (Careful): the only way into awaiting_confirmation is   *)
(* an intent for which Heimdal asked, and the only intents that are passed *)
(* on are those it accepted.                                               *)
(*                                                                         *)
(* GateIsEnough compares the two orders in which a message is tested: for  *)
(* each rule of route_chat it bounds the place in the order of             *)
(* diagnose_route at which the same message is decided.  What is left are  *)
(* the messages about an intake that ask for something else as well.       *)
(*                                                                         *)
(* The others need to know what the history says (Remembered): a question  *)
(* in it was asked, one that nothing has hidden is that of the row the     *)
(* text names last, and an intent shown for lack of details is one that    *)
(* Heimdal will not accept.                                                *)
(***************************************************************************)
EXTENDS Conversation, FiniteSetTheorems, SequenceTheorems, TLAPS

-----------------------------------------------------------------------------
(* What a message may do to an intake *)

Shaped == intakes = [i \in Intakes |-> [status |-> intakes[i].status, intent |-> intakes[i].intent]]

ConversationInvariant == edits \in Nat /\ Shaped /\ AskedCanBeConfirmed

\* What every message keeps to.
Careful ==
  /\ Shaped'
  /\ \A i \in Intakes :
       intakes'[i].status = "awaiting_confirmation" =>
         intakes'[i] = intakes[i] \/ Outcome(intakes'[i].intent, on, TRUE) = "ACCEPT"
  /\ RefusedForTask'

\* Asking and accepting differ in the confirmation only.
LEMMA AskedIsAccepted ==
  ASSUME NEW i, NEW regs, Outcome(i, regs, FALSE) = "ASK_CONFIRMATION"
  PROVE  Outcome(i, regs, TRUE) = "ACCEPT"
BY DEF Outcome

\* A template is refused for its sources only if Heimdal would have refused them.
LEMMA AcceptedDigestRenders ==
  ASSUME NEW i, NEW regs, i.cap = "digest", Outcome(i, regs, TRUE) = "ACCEPT"
  PROVE  Renders(i, regs)
BY DEF Outcome, DetailsMissing, SlotsAllowed, AllowedIds, Renders, SourcesApproved

LEMMA ReplySendsNothing ==
  ASSUME NEW m, NEW id, NEW block, NEW intent, NEW used, Reply(m, id, block, intent, used)
  PROVE  RefusedForTask'
<1>1. turn'.sent = NoIntent
  BY DEF Reply, QuietTurn, NoTurn
<1>. QED
  BY <1>1 DEF RefusedForTask

LEMMA SaySendsNothing ==
  ASSUME NEW m, NEW id, NEW used, Say(m, id, used)
  PROVE  RefusedForTask'
BY ReplySendsNothing DEF Say

LEMMA KeepIsCareful ==
  ASSUME Shaped, Keep, RefusedForTask'
  PROVE  Careful
BY DEF Shaped, Keep, Careful

LEMMA SayAndKeep ==
  ASSUME Shaped, NEW m, NEW id, NEW used, Say(m, id, used), Keep
  PROVE  Careful
BY SaySendsNothing, KeepIsCareful

\* Storing a row is careful if it waits for nothing, or for what was accepted.
LEMMA StoredIsCareful ==
  ASSUME Shaped, NEW id, NEW row, RefusedForTask',
         row = [status |-> row.status, intent |-> row.intent],
         row.status = "awaiting_confirmation" => Outcome(row.intent, on, TRUE) = "ACCEPT",
         intakes' = intakes \/ intakes' = [intakes EXCEPT ![id] = row]
  PROVE  Careful
<1>1. CASE intakes' = intakes
  BY <1>1 DEF Shaped, Careful
<1>2. CASE intakes' = [intakes EXCEPT ![id] = row]
  <2>1. DOMAIN intakes = Intakes
    BY DEF Shaped
  <2>2. \A i \in Intakes : intakes'[i] = IF i = id THEN row ELSE intakes[i]
    BY <1>2, <2>1
  <2>3. \A i \in Intakes : intakes'[i] = [status |-> intakes'[i].status, intent |-> intakes'[i].intent]
    <3>. SUFFICES ASSUME NEW i \in Intakes
                  PROVE  intakes'[i] = [status |-> intakes'[i].status, intent |-> intakes'[i].intent]
      OBVIOUS
    <3>1. intakes[i] = [status |-> intakes[i].status, intent |-> intakes[i].intent]
      BY DEF Shaped
    <3>. QED
      BY <2>2, <3>1
  <2>4. Shaped'
    BY <1>2, <2>1, <2>3 DEF Shaped
  <2>. QED
    BY <2>2, <2>4 DEF Careful
<1>. QED
  BY <1>1, <1>2

LEMMA StoreAndSayIsCareful ==
  ASSUME Shaped, NEW m, NEW id, NEW status, NEW block, NEW intent,
         StoreAndSay(m, id, status, block, intent),
         status = "awaiting_confirmation" => Outcome(intent, on, TRUE) = "ACCEPT"
  PROVE  Careful
<1>1. RefusedForTask'
  BY ReplySendsNothing DEF StoreAndSay
<1>2. intakes' = intakes \/ intakes' = [intakes EXCEPT ![id] = [status |-> status, intent |-> intent]]
  BY DEF StoreAndSay
<1>. QED
  BY <1>1, <1>2, StoredIsCareful

LEMMA ValidateIsCareful ==
  ASSUME Shaped, NEW m, NEW intent, NEW id, ValidateForReply(m, intent, id)
  PROVE  Careful
<1>. DEFINE outcome == Outcome(intent, on, FALSE)
<1>1. CASE outcome = "ASK_CONFIRMATION"
  <2>1. StoreAndSay(m, id, "awaiting_confirmation", "confirm", intent)
    BY <1>1 DEF ValidateForReply
  <2>2. Outcome(intent, on, TRUE) = "ACCEPT"
    BY <1>1, AskedIsAccepted
  <2>. QED
    BY <2>1, <2>2, StoreAndSayIsCareful
<1>2. CASE outcome = "ASK_DETAILS"
  <2>1. StoreAndSay(m, id, "collecting_slots", "details", intent)
    BY <1>2 DEF ValidateForReply
  <2>. QED
    BY <2>1, StoreAndSayIsCareful
<1>3. CASE outcome \notin {"ASK_CONFIRMATION", "ASK_DETAILS"}
  <2>1. Say(m, NoId, "chat") /\ Keep
    BY <1>3 DEF ValidateForReply
  <2>. QED
    BY <2>1, SayAndKeep
<1>. QED
  BY <1>1, <1>2, <1>3

\* What Heimdal accepted is drafted unless the task id is taken.
LEMMA ForwardIsServed ==
  ASSUME NEW m, NEW intent, Forward(m, intent), Outcome(intent, on, TRUE) = "ACCEPT"
  PROVE  RefusedForTask'
<1>1. turn'.sent = intent /\ turn'.served = Served(intent, on, tasks)
  BY DEF Forward, PassOn
<1>2. ASSUME intent.cap = "digest", ~Served(intent, on, tasks)
      PROVE  intent.task \in DOMAIN tasks'
  <2>1. Renders(intent, on)
    BY <1>2, AcceptedDigestRenders
  <2>2. ~CanDraft(intent, on, tasks)
    BY <1>2 DEF Served
  <2>3. intent.task \in DOMAIN tasks
    BY <1>2, <2>1, <2>2 DEF CanDraft, DraftableByYggdrasil
  <2>4. tasks' = tasks
    BY <2>2 DEF Forward, TasksAfter
  <2>. QED
    BY <2>3, <2>4
<1>. QED
  BY <1>1, <1>2 DEF RefusedForTask

\* A row that changes its status alone, to one that waits for nothing.
LEMMA StatusChangeIsCareful ==
  ASSUME Shaped, RefusedForTask', NEW id, NEW status, status # "awaiting_confirmation",
         intakes' = [intakes EXCEPT ![id].status = status]
  PROVE  Careful
<1>1. ASSUME NEW row, NEW a, NEW b, row = [status |-> a, intent |-> b]
      PROVE  [row EXCEPT !.status = status] = [status |-> status, intent |-> b]
  BY <1>1
<1>2. CASE id \in Intakes
  <2>1. intakes[id] = [status |-> intakes[id].status, intent |-> intakes[id].intent]
    BY <1>2 DEF Shaped
  <2>2. [intakes[id] EXCEPT !.status = status] = [status |-> status, intent |-> intakes[id].intent]
    BY <1>1, <2>1
  <2>3. intakes' = [intakes EXCEPT ![id] = [status |-> status, intent |-> intakes[id].intent]]
    BY <2>2
  <2>. QED
    BY <2>3, StoredIsCareful
<1>3. CASE id \notin Intakes
  <2>1. intakes' = intakes
    BY <1>3 DEF Shaped
  <2>. QED
    BY <2>1 DEF Shaped, Careful
<1>. QED
  BY <1>2, <1>3

LEMMA ConfirmIsCareful ==
  ASSUME Shaped, NEW m, NEW id, ConfirmIntake(m, id)
  PROVE  Careful
<1>1. CASE Say(m, id, "draft_task") /\ Keep
  BY <1>1, SayAndKeep
<1>2. CASE /\ intakes' = [intakes EXCEPT ![id].status = "failed"]
           /\ Say(m, NoId, "draft_task")
  BY <1>2, StatusChangeIsCareful, SaySendsNothing
<1>3. CASE /\ Outcome(intakes[id].intent, on, TRUE) = "ACCEPT"
           /\ intakes' = [intakes EXCEPT ![id].status = "forwarded_to_yggdrasil"]
           /\ Forward(m, intakes[id].intent)
  BY <1>3, StatusChangeIsCareful, ForwardIsServed
<1>. QED
  BY <1>1, <1>2, <1>3 DEF ConfirmIntake

LEMMA SelectIsCareful ==
  ASSUME Shaped, NEW m, NEW id, SelectSources(m, id)
  PROVE  Careful
<1>1. CASE ~Selecting(id) \/ Has(m, "url")
  BY <1>1, SayAndKeep DEF SelectSources
<1>2. CASE ~(~Selecting(id) \/ Has(m, "url"))
  <2>1. PICK intent : ValidateForReply(m, intent, id)
    BY <1>2 DEF SelectSources
  <2>. QED
    BY <2>1, ValidateIsCareful
<1>. QED
  BY <1>1, <1>2

LEMMA OfferIsCareful ==
  ASSUME Shaped, NEW m, NEW intent, OfferSources(m, intent)
  PROVE  Careful
<1>1. CASE intent.ids = {}
  BY <1>1, SayAndKeep DEF OfferSources
<1>2. CASE intakes' = [intakes EXCEPT ![NextId] = [status |-> "awaiting_source_selection", intent |-> intent]]
           /\ Say(m, NextId, "draft_task")
  BY <1>2, SaySendsNothing, StoredIsCareful
<1>3. CASE /\ Reply(m, NoId, "selection", Change(intent.task, intent.ids, {}, TRUE), "draft_task")
           /\ intakes' = intakes
  <2>1. RefusedForTask'
    BY <1>3, ReplySendsNothing
  <2>. QED
    BY <1>3, <2>1 DEF Shaped, Careful
<1>. QED
  BY <1>1, <1>2, <1>3 DEF OfferSources

LEMMA CancelIsCareful ==
  ASSUME Shaped, NEW m, CancelIntake(m)
  PROVE  Careful
<1>1. RefusedForTask'
  BY SaySendsNothing DEF CancelIntake
<1>2. CASE intakes' = intakes
  BY <1>1, <1>2 DEF Shaped, Careful
<1>3. CASE intakes' = [intakes EXCEPT ![Target(m)].status = "cancelled"]
  BY <1>1, <1>3, StatusChangeIsCareful
<1>. QED
  BY <1>2, <1>3 DEF CancelIntake

LEMMA UpdateIsCareful ==
  ASSUME Shaped, NEW m, UpdateDetails(m)
  PROVE  Careful
<1>1. CASE Say(m, NoId, "draft_task") /\ Keep
  BY <1>1, SayAndKeep
<1>2. CASE SelectSources(m, m.id)
  BY <1>2, SelectIsCareful
<1>3. CASE ValidateForReply(m, Merged(intakes[m.id].intent, m), m.id)
  BY <1>3, ValidateIsCareful
<1>. QED
  BY <1>1, <1>2, <1>3 DEF UpdateDetails

LEMMA AgreeIsCareful ==
  ASSUME Shaped, NEW m, Agree(m)
  PROVE  Careful
<1>1. CASE SelectSources(m, PriorId)
  BY <1>1, SelectIsCareful
<1>2. CASE ConfirmIntake(m, PriorId)
  BY <1>2, ConfirmIsCareful
<1>3. CASE \E intent : ValidateForReply(m, intent, NextId)
  BY <1>3, ValidateIsCareful
<1>4. CASE Outcome(PendingIntent, on, TRUE) = "ACCEPT" /\ Forward(m, PendingIntent) /\ UNCHANGED intakes
  <2>1. RefusedForTask'
    BY <1>4, ForwardIsServed
  <2>. QED
    BY <1>4, <2>1 DEF Shaped, Careful
<1>5. CASE Reply(m, NoId, "details", PendingIntent, "draft_task") /\ Keep
  BY <1>5, ReplySendsNothing, KeepIsCareful
<1>6. CASE \E used : Say(m, NoId, used) /\ Keep
  BY <1>6, SayAndKeep
<1>. QED
  BY <1>1, <1>2, <1>3, <1>4, <1>5, <1>6 DEF Agree

LEMMA ListIsCareful ==
  ASSUME Shaped, NEW m, ListIntakes(m)
  PROVE  Careful
BY SayAndKeep DEF ListIntakes

LEMMA OperateIsCareful ==
  ASSUME Shaped, NEW m, Operate(m)
  PROVE  Careful
<1>1. turn'.sent = NoIntent
  BY DEF Operate, PassOn
<1>2. RefusedForTask'
  BY <1>1 DEF RefusedForTask
<1>. QED
  BY <1>2, KeepIsCareful DEF Operate

LEMMA ContinueIsCareful ==
  ASSUME Shaped, NEW m, ContinueIntake(m)
  PROVE  Careful
BY SayAndKeep, ListIsCareful DEF ContinueIntake

LEMMA ReplyAndKeep ==
  ASSUME Shaped, NEW m, NEW id, NEW block, NEW intent, NEW used, Reply(m, id, block, intent, used), Keep
  PROVE  Careful
BY ReplySendsNothing, KeepIsCareful

LEMMA ShowIsCareful ==
  ASSUME Shaped, NEW m, ShowIntake(m)
  PROVE  Careful
BY SayAndKeep, ReplyAndKeep DEF ShowIntake

LEMMA ConverseIsCareful ==
  ASSUME Shaped, NEW m, Converse(m)
  PROVE  Careful
<1>1. CASE Say(m, NoId, "none") /\ Keep
  BY <1>1, SayAndKeep
<1>2. ASSUME NEW rule, Route(m, rule)
      PROVE  Careful
  <2>1. CASE Diagnose(m) \/ ProposeMemory(m)
    BY <2>1, ReplyAndKeep DEF Diagnose, ProposeMemory
  <2>2. CASE UseMemory(m, rule)
    BY <2>2, SayAndKeep DEF UseMemory
  <2>3. CASE ShowIntake(m) \/ CancelIntake(m) \/ ContinueIntake(m) \/ ListIntakes(m)
    BY <2>3, ShowIsCareful, CancelIsCareful, ContinueIsCareful, ListIsCareful
  <2>4. CASE \E id : SelectSources(m, id) \/ ConfirmIntake(m, id)
    BY <2>4, SelectIsCareful, ConfirmIsCareful
  <2>5. CASE UpdateDetails(m) \/ Agree(m)
    BY <2>5, UpdateIsCareful, AgreeIsCareful
  <2>6. CASE \E intent : ValidateForReply(m, intent, NextId)
    BY <2>6, ValidateIsCareful
  <2>7. CASE \E intent : OfferSources(m, intent)
    BY <2>7, OfferIsCareful
  <2>8. CASE SearchSources(m)
    BY <2>8, OfferIsCareful DEF SearchSources
  <2>9. CASE Operate(m)
    BY <2>9, OperateIsCareful
  <2>10. CASE \E used : Say(m, NoId, used) /\ Keep
    BY <2>10, SayAndKeep
  <2>. QED
    BY <1>2, <2>1, <2>2, <2>3, <2>4, <2>5, <2>6, <2>7, <2>8, <2>9, <2>10 DEF Route
<1>. QED
  BY <1>1, <1>2 DEF Converse

\* The intakes keep their shape, and those that wait for a confirmation can be
\* confirmed (validate_intent_for_reply, confirm_intake_response).
THEOREM ConversationInvariantHolds == Spec => [](ConversationInvariant /\ RefusedForTask)
<1>1. Init => ConversationInvariant /\ RefusedForTask
  <2>. SUFFICES ASSUME Init PROVE ConversationInvariant /\ RefusedForTask
    OBVIOUS
  <2>1. edits \in Nat /\ Shaped
    BY DEF Init, Shaped
  <2>2. AskedCanBeConfirmed
    BY DEF Init, AskedCanBeConfirmed
  <2>3. RefusedForTask
    BY DEF Init, NoTurn, RefusedForTask
  <2>. QED
    BY <2>1, <2>2, <2>3 DEF ConversationInvariant
<1>2. ConversationInvariant /\ RefusedForTask /\ [Next]_vars => (ConversationInvariant /\ RefusedForTask)'
  <2>. SUFFICES ASSUME ConversationInvariant, RefusedForTask, [Next]_vars
                PROVE  (ConversationInvariant /\ RefusedForTask)'
    OBVIOUS
  <2>1. ASSUME NEW m \in Message, Converse(m), UNCHANGED <<on, edits>>
        PROVE  (ConversationInvariant /\ RefusedForTask)'
    <3>1. Careful
      BY <2>1, ConverseIsCareful DEF ConversationInvariant
    <3>2. AskedCanBeConfirmed'
      BY <2>1, <3>1 DEF Careful, ConversationInvariant, AskedCanBeConfirmed
    <3>. QED
      BY <2>1, <3>1, <3>2 DEF Careful, ConversationInvariant
  <2>2. ASSUME NEW i \in Intakes, Close(i)
        PROVE  (ConversationInvariant /\ RefusedForTask)'
    <3>1. turn'.sent = NoIntent
      BY <2>2 DEF Close, NoTurn
    <3>2. RefusedForTask'
      BY <3>1 DEF RefusedForTask
    <3>3. Careful
      BY <2>2, <3>2, StatusChangeIsCareful DEF Close, ConversationInvariant
    <3>4. AskedCanBeConfirmed'
      BY <2>2, <3>3 DEF Close, Careful, ConversationInvariant, AskedCanBeConfirmed
    <3>. QED
      BY <2>2, <3>2, <3>3, <3>4 DEF Close, Careful, ConversationInvariant
  <2>3. ASSUME NEW i \in Intakes, Remind(i)
        PROVE  (ConversationInvariant /\ RefusedForTask)'
    <3>1. turn'.sent = NoIntent
      BY <2>3 DEF Remind, NoTurn
    <3>. QED
      BY <2>3, <3>1 DEF Remind, ConversationInvariant, Shaped, AskedCanBeConfirmed, RefusedForTask
  <2>4. ASSUME NEW x \in Ids, Toggle(x)
        PROVE  (ConversationInvariant /\ RefusedForTask)'
    <3>1. turn'.sent = NoIntent
      BY <2>4 DEF Toggle, NoTurn
    <3>2. edits' \in Nat /\ edits' > 0
      BY <2>4 DEF Toggle, ConversationInvariant
    <3>. QED
      BY <2>4, <3>1, <3>2 DEF Toggle, ConversationInvariant, Shaped, AskedCanBeConfirmed, RefusedForTask
  <2>5. CASE UNCHANGED vars
    BY <2>5 DEF vars, ConversationInvariant, Shaped, AskedCanBeConfirmed, RefusedForTask
  <2>. QED
    BY <2>1, <2>2, <2>3, <2>4, <2>5 DEF Next
<1>. QED
  BY <1>1, <1>2, PTL DEF Spec

\* A confirmation that was asked for can be given, for any sentences and any
\* number of intakes.
THEOREM AskedIsConfirmable == Spec => []AskedCanBeConfirmed
<1>1. ConversationInvariant => AskedCanBeConfirmed
  BY DEF ConversationInvariant
<1>. QED
  BY <1>1, ConversationInvariantHolds, PTL

\* A confirmed digest is drafted unless its task exists: what Heimdal accepts the
\* template and the task policy accept as well.
THEOREM AcceptedIsDrafted == Spec => []RefusedForTask
BY ConversationInvariantHolds, PTL

-----------------------------------------------------------------------------
(* Numbers *)

\* Every set of naturals that is not empty has a least element, and Min finds it.
LEMMA LeastElement ==
  ASSUME NEW T \in SUBSET Nat, T # {}
  PROVE  Min(T) \in T /\ \A n \in T : Min(T) <= n
<1>1. PICK n \in T : \A k \in T : ~(<<k, n>> \in OpToRel(<, Nat))
  BY WFMin, NatLessThanWellFounded
<1>2. \A k \in T : ~(k < n)
  BY <1>1 DEF OpToRel
<1>3. \A k \in T : n <= k
  BY <1>2
<1>. QED
  BY <1>3 DEF Min

\* So has every set of naturals with a bound a greatest one.
LEMMA GreatestElement ==
  ASSUME NEW T \in SUBSET Nat, T # {}, NEW bound \in Nat, \A n \in T : n <= bound
  PROVE  Max(T) \in T /\ \A n \in T : n <= Max(T)
<1>. DEFINE Gaps == {d \in 0..bound : bound - d \in T}
<1>1. Gaps \in SUBSET Nat /\ Gaps # {}
  <2>1. PICK n \in T : n \in Nat /\ n <= bound
    OBVIOUS
  <2>2. bound - n \in 0..bound /\ bound - (bound - n) = n
    BY <2>1
  <2>3. bound - n \in Gaps
    BY <2>1, <2>2
  <2>4. Gaps \in SUBSET Nat
    OBVIOUS
  <2>. QED
    BY <2>3, <2>4
<1>2. \A n \in T : bound - n \in Gaps
  <2>1. ASSUME NEW n \in T PROVE bound - n \in 0..bound /\ bound - (bound - n) = n
    OBVIOUS
  <2>. QED
    BY <2>1
<1>3. \A d \in Gaps : d \in Nat /\ bound - d \in T
  OBVIOUS
<1>. HIDE DEF Gaps
<1>4. PICK d \in Gaps : \A e \in Gaps : d <= e
  BY <1>1, LeastElement
<1>5. bound - d \in T /\ \A n \in T : n <= bound - d
  <2>1. ASSUME NEW n \in T PROVE n <= bound - d
    <3>1. d <= bound - n /\ d \in Nat /\ n \in Nat
      BY <1>2, <1>3, <1>4
    <3>. QED
      BY <3>1
  <2>. QED
    BY <1>3, <1>4, <2>1
<1>. QED
  BY <1>5 DEF Max

-----------------------------------------------------------------------------
(* The gate: what diagnose_route finds of a message that route_chat handles. *)

\* The first of the rules that hold decides.
LEMMA FirstRule ==
  ASSUME NEW rules, NEW size \in Nat, DOMAIN rules = 1..size,
         NEW m, NEW last \in 1..size, When(rules[last], m)
  PROVE  \E k \in 1..last : /\ First(rules, m) = rules[k] /\ When(rules[k], m)
                            /\ \A j \in 1..(k - 1) : ~When(rules[j], m)
<1>. DEFINE holds == [k \in DOMAIN rules |-> When(rules[k], m)]
            first == CHOOSE k \in DOMAIN rules : holds[k] /\ \A j \in 1..(k - 1) : ~holds[j]
            hits == {k \in DOMAIN rules : When(rules[k], m)}
<1>1. hits \in SUBSET Nat /\ last \in hits /\ hits # {}
  OBVIOUS
<1>2. First(rules, m) = rules[first]
  BY DEF First
<1>3. /\ \A k \in hits : k \in 1..size /\ When(rules[k], m)
      /\ \A k \in 1..size : When(rules[k], m) => k \in hits
  OBVIOUS
<1>4. \A k \in 1..size : holds[k] = When(rules[k], m)
  OBVIOUS
<1>5. PICK k \in hits : \A j \in hits : k <= j
  <2>. HIDE DEF hits
  <2>. QED
    BY <1>1, LeastElement
<1>6. k \in 1..size /\ \A j \in 1..(k - 1) : j \in 1..size /\ ~When(rules[j], m)
  <2>. HIDE DEF hits
  <2>1. k \in 1..size
    BY <1>3
  <2>2. ASSUME NEW j \in 1..(k - 1) PROVE j \in 1..size /\ j \notin hits
    BY <1>5, <2>1
  <2>. QED
    BY <1>3, <2>1, <2>2
<1>. HIDE DEF hits, holds
<1>7. holds[k] /\ \A j \in 1..(k - 1) : ~holds[j]
  BY <1>3, <1>4, <1>6
<1>8. first \in 1..size /\ holds[first] /\ \A j \in 1..(first - 1) : ~holds[j]
  BY <1>6, <1>7
<1>. HIDE DEF first
<1>9. \A j \in 1..(first - 1) : j \in 1..size
  BY <1>8
<1>10. When(rules[first], m) /\ \A j \in 1..(first - 1) : ~When(rules[j], m)
  BY <1>4, <1>8, <1>9
<1>11. first <= last
  <2>1. CASE last < first
    <3>1. last \in 1..(first - 1)
      BY <1>8, <2>1
    <3>. QED
      BY <1>10, <3>1
  <2>. QED
    BY <1>8, <2>1
<1>12. first \in 1..last
  BY <1>8, <1>11
<1>. QED
  BY <1>2, <1>10, <1>12

\* The rule at place k is the one that decides.
Decides(order, k, m) == When(order[k], m) /\ \A j \in 1..(k - 1) : ~When(order[j], m)

LEMMA RoutedAt ==
  ASSUME NEW m
  PROVE  \E k \in 1..25 : Routed(m) = RoutedOrder[k] /\ Decides(RoutedOrder, k, m)
<1>1. 25 \in Nat /\ 25 \in 1..25 /\ DOMAIN RoutedOrder = 1..25 /\ RoutedOrder[25] = "chat"
  BY DEF RoutedOrder
<1>2. When(RoutedOrder[25], m)
  BY <1>1 DEF When, SentenceRules
<1>3. Routed(m) = First(RoutedOrder, m)
  BY DEF Routed
<1>. QED
  BY <1>1, <1>2, <1>3, FirstRule DEF Decides

\* A rule that holds bounds the place of the one that decides.
LEMMA DiagnosedAt ==
  ASSUME NEW m, NEW last \in 1..23, When(DiagnosedOrder[last], m)
  PROVE  \E k \in 1..last : Diagnosed(m) = DiagnosedOrder[k] /\ Decides(DiagnosedOrder, k, m)
<1>1. 23 \in Nat /\ DOMAIN DiagnosedOrder = 1..23
  BY DEF DiagnosedOrder
<1>2. Diagnosed(m) = First(DiagnosedOrder, m)
  BY DEF Diagnosed
<1>. QED
  BY <1>1, <1>2, FirstRule DEF Decides

LEMMA Meaning ==
  ASSUME NEW m
  PROVE  /\ When("diagnose", m) <=> Has(m, "diagnose")
         /\ When("save", m) <=> Has(m, "save")
         /\ When("remember", m) <=> Has(m, "remember")
         /\ When("forget", m) <=> Has(m, "forget")
         /\ When("recall", m) <=> Has(m, "recall")
         /\ When("resume", m) <=> Has(m, "resume")
         /\ When("list", m) <=> Has(m, "list")
         /\ When("confirm", m) <=> Has(m, "confirm")
         /\ When("yes", m) <=> Has(m, "yes")
         /\ When("propose", m) <=> Has(m, "propose")
         /\ When("catalog", m) <=> Has(m, "catalog")
         /\ When("context", m) <=> Has(m, "context")
         /\ When("operation", m) <=> Has(m, "operation")
         /\ When("search", m) <=> Has(m, "search")
         /\ When("wish", m) <=> Has(m, "wish")
         /\ When("build", m) <=> Has(m, "build")
         /\ When("named", m) <=> m.id # NoId /\ ~Has(m, "confirm") /\ ~Has(m, "resume")
         /\ When("show", m) <=> m.id # NoId /\ Has(m, "show")
         /\ When("delete", m) <=> Has(m, "delete") /\ Target(m) # NoId
         /\ When("select_named", m) <=> Has(m, "select") /\ Selecting(m.id)
         /\ When("select_prior", m) <=> Has(m, "select") /\ Selecting(PriorId)
         /\ When("confirm_known", m) <=> Has(m, "confirm") /\ Target(m) # NoId
         /\ When("detail", m) <=> Status(m.id) \in {"none", "awaiting_source_selection", "collecting_slots"}
         /\ When("digest_sources", m) <=> DigestTalk(m) /\ Has(m, "describes")
         /\ When("digest_select", m) <=> DigestTalk(m) /\ Has(m, "describes") /\ NamedSources(m) # {}
         /\ When("digest_intent", m) <=> DigestTalk(m)
         /\ When("chat", m) <=> TRUE
BY DEF When, SentenceRules

LEMMA RoutedPlaces ==
  ASSUME NEW k \in 1..25
  PROVE  /\ RoutedOrder[k] = "diagnose" <=> k = 1
         /\ RoutedOrder[k] = "save" <=> k = 2
         /\ RoutedOrder[k] = "remember" <=> k = 3
         /\ RoutedOrder[k] = "forget" <=> k = 4
         /\ RoutedOrder[k] = "recall" <=> k = 5
         /\ RoutedOrder[k] = "show" <=> k = 6
         /\ RoutedOrder[k] = "delete" <=> k = 7
         /\ RoutedOrder[k] = "resume" <=> k = 8
         /\ RoutedOrder[k] = "select_named" <=> k = 9
         /\ RoutedOrder[k] = "select_prior" <=> k = 10
         /\ RoutedOrder[k] = "list" <=> k = 11
         /\ RoutedOrder[k] = "confirm_known" <=> k = 12
         /\ RoutedOrder[k] = "detail" <=> k = 13
         /\ RoutedOrder[k] = "yes" <=> k = 14
         /\ RoutedOrder[k] = "slots" <=> k = 15
         /\ RoutedOrder[k] = "boundary" <=> k = 16
         /\ RoutedOrder[k] = "digest_select" <=> k = 17
         /\ RoutedOrder[k] = "digest_intent" <=> k = 18
         /\ RoutedOrder[k] = "propose" <=> k = 19
         /\ RoutedOrder[k] = "catalog" <=> k = 20
         /\ RoutedOrder[k] = "context" <=> k = 21
         /\ RoutedOrder[k] = "operation" <=> k = 22
         /\ RoutedOrder[k] = "search" <=> k = 23
         /\ RoutedOrder[k] = "build" <=> k = 24
         /\ RoutedOrder[k] = "chat" <=> k = 25
BY DEF RoutedOrder

LEMMA DiagnosedPlaces ==
  ASSUME NEW k \in 1..23
  PROVE  /\ DiagnosedOrder[k] = "save" <=> k = 1
         /\ DiagnosedOrder[k] = "remember" <=> k = 2
         /\ DiagnosedOrder[k] = "forget" <=> k = 3
         /\ DiagnosedOrder[k] = "recall" <=> k = 4
         /\ DiagnosedOrder[k] = "named" <=> k = 5
         /\ DiagnosedOrder[k] = "delete" <=> k = 6
         /\ DiagnosedOrder[k] = "resume" <=> k = 7
         /\ DiagnosedOrder[k] = "select_prior" <=> k = 8
         /\ DiagnosedOrder[k] = "list" <=> k = 9
         /\ DiagnosedOrder[k] = "confirm" <=> k = 10
         /\ DiagnosedOrder[k] = "yes" <=> k = 11
         /\ DiagnosedOrder[k] = "slots" <=> k = 12
         /\ DiagnosedOrder[k] = "boundary" <=> k = 13
         /\ DiagnosedOrder[k] = "digest_sources" <=> k = 14
         /\ DiagnosedOrder[k] = "digest_intent" <=> k = 15
         /\ DiagnosedOrder[k] = "propose" <=> k = 16
         /\ DiagnosedOrder[k] = "catalog" <=> k = 17
         /\ DiagnosedOrder[k] = "context" <=> k = 18
         /\ DiagnosedOrder[k] = "operation" <=> k = 19
         /\ DiagnosedOrder[k] = "search" <=> k = 20
         /\ DiagnosedOrder[k] = "wish" <=> k = 21
         /\ DiagnosedOrder[k] = "build" <=> k = 22
         /\ DiagnosedOrder[k] = "chat" <=> k = 23
BY DEF DiagnosedOrder

\* Rules that route_chat has passed over do not hold.
LEMMA PassedOver ==
  ASSUME NEW m, NEW n \in 1..25, \A j \in 1..n : Routed(m) # RoutedOrder[j]
  PROVE  ~When(RoutedOrder[n], m)
<1>1. PICK k \in 1..25 : Routed(m) = RoutedOrder[k] /\ Decides(RoutedOrder, k, m)
  BY RoutedAt
<1>2. n \in 1..(k - 1)
  BY <1>1
<1>. QED
  BY <1>1, <1>2 DEF Decides

First5 == {"diagnose", "save", "remember", "forget", "recall"}
First10 == First5 \cup {"show", "delete", "resume", "select_named", "select_prior"}
First14 == First10 \cup {"list", "confirm_known", "detail", "yes"}
First16 == First14 \cup {"slots", "boundary"}
First18 == First16 \cup {"digest_select", "digest_intent"}
First21 == First18 \cup {"propose", "catalog", "context"}

LEMMA RoutedTo ==
  ASSUME NEW m
  PROVE  LET r == Routed(m)
         IN  /\ When(r, m)
             /\ r \notin First5 => ~Has(m, "save") /\ ~Has(m, "remember") /\ ~Has(m, "forget") /\ ~Has(m, "recall")
             /\ r \notin First10 => /\ ~When("show", m) /\ ~When("delete", m) /\ ~When("resume", m)
                                   /\ ~When("select_prior", m)
             /\ r \notin First10 \cup {"list"} => ~When("list", m)
             /\ r \notin First14 => ~Has(m, "list") /\ ~When("confirm_known", m) /\ ~Has(m, "yes")
             /\ r \notin First14 \cup {"slots"} => ~When("slots", m)
             /\ r \notin First16 => ~When("boundary", m)
             /\ r \notin First18 => ~DigestTalk(m)
             /\ r \notin First18 \cup {"propose"} => ~Has(m, "propose")
             /\ r \notin First18 \cup {"propose", "catalog"} => ~Has(m, "catalog")
             /\ r \notin First21 => ~Has(m, "context")
             /\ r \notin First21 \cup {"operation"} => ~Has(m, "operation")
             /\ r \notin First21 \cup {"operation", "search"} => ~Has(m, "search")
<1>. DEFINE r == Routed(m)
<1>1. When(r, m)
  BY RoutedAt DEF Decides
<1>2. r \notin First5 => \A n \in 1..5 : ~When(RoutedOrder[n], m)
  <2>1. r \notin First5 => \A n \in 1..5 : r # RoutedOrder[n]
    BY DEF First5, First10, First14, First16, First18, First21, RoutedOrder
  <2>. QED
    BY <2>1, PassedOver
<1>3. r \notin First10 => \A n \in 1..10 : ~When(RoutedOrder[n], m)
  <2>1. r \notin First10 => \A n \in 1..10 : r # RoutedOrder[n]
    BY DEF First5, First10, First14, First16, First18, First21, RoutedOrder
  <2>. QED
    BY <2>1, PassedOver
<1>25. r \notin First10 \cup {"list"} => \A n \in 1..11 : ~When(RoutedOrder[n], m)
  <2>1. r \notin First10 \cup {"list"} => \A n \in 1..11 : r # RoutedOrder[n]
    BY DEF First5, First10, First14, First16, First18, First21, RoutedOrder
  <2>. QED
    BY <2>1, PassedOver
<1>4. r \notin First14 => \A n \in 1..14 : ~When(RoutedOrder[n], m)
  <2>1. r \notin First14 => \A n \in 1..14 : r # RoutedOrder[n]
    BY DEF First5, First10, First14, First16, First18, First21, RoutedOrder
  <2>. QED
    BY <2>1, PassedOver
<1>5. r \notin First14 \cup {"slots"} => \A n \in 1..15 : ~When(RoutedOrder[n], m)
  <2>1. r \notin First14 \cup {"slots"} => \A n \in 1..15 : r # RoutedOrder[n]
    BY DEF First5, First10, First14, First16, First18, First21, RoutedOrder
  <2>. QED
    BY <2>1, PassedOver
<1>6. r \notin First16 => \A n \in 1..16 : ~When(RoutedOrder[n], m)
  <2>1. r \notin First16 => \A n \in 1..16 : r # RoutedOrder[n]
    BY DEF First5, First10, First14, First16, First18, First21, RoutedOrder
  <2>. QED
    BY <2>1, PassedOver
<1>7. r \notin First18 => \A n \in 1..18 : ~When(RoutedOrder[n], m)
  <2>1. r \notin First18 => \A n \in 1..18 : r # RoutedOrder[n]
    BY DEF First5, First10, First14, First16, First18, First21, RoutedOrder
  <2>. QED
    BY <2>1, PassedOver
<1>8. r \notin First18 \cup {"propose"} => \A n \in 1..19 : ~When(RoutedOrder[n], m)
  <2>1. r \notin First18 \cup {"propose"} => \A n \in 1..19 : r # RoutedOrder[n]
    BY DEF First5, First10, First14, First16, First18, First21, RoutedOrder
  <2>. QED
    BY <2>1, PassedOver
<1>9. r \notin First18 \cup {"propose", "catalog"} => \A n \in 1..20 : ~When(RoutedOrder[n], m)
  <2>1. r \notin First18 \cup {"propose", "catalog"} => \A n \in 1..20 : r # RoutedOrder[n]
    BY DEF First5, First10, First14, First16, First18, First21, RoutedOrder
  <2>. QED
    BY <2>1, PassedOver
<1>10. r \notin First21 => \A n \in 1..21 : ~When(RoutedOrder[n], m)
  <2>1. r \notin First21 => \A n \in 1..21 : r # RoutedOrder[n]
    BY DEF First5, First10, First14, First16, First18, First21, RoutedOrder
  <2>. QED
    BY <2>1, PassedOver
<1>11. r \notin First21 \cup {"operation"} => \A n \in 1..22 : ~When(RoutedOrder[n], m)
  <2>1. r \notin First21 \cup {"operation"} => \A n \in 1..22 : r # RoutedOrder[n]
    BY DEF First5, First10, First14, First16, First18, First21, RoutedOrder
  <2>. QED
    BY <2>1, PassedOver
<1>12. r \notin First21 \cup {"operation", "search"} => \A n \in 1..23 : ~When(RoutedOrder[n], m)
  <2>1. r \notin First21 \cup {"operation", "search"} => \A n \in 1..23 : r # RoutedOrder[n]
    BY DEF First5, First10, First14, First16, First18, First21, RoutedOrder
  <2>. QED
    BY <2>1, PassedOver
<1>. HIDE DEF r
<1>13. /\ RoutedOrder[1] = "diagnose" /\ RoutedOrder[2] = "save" /\ RoutedOrder[3] = "remember"
       /\ RoutedOrder[4] = "forget" /\ RoutedOrder[5] = "recall" /\ RoutedOrder[6] = "show"
       /\ RoutedOrder[7] = "delete" /\ RoutedOrder[8] = "resume" /\ RoutedOrder[9] = "select_named"
       /\ RoutedOrder[10] = "select_prior" /\ RoutedOrder[11] = "list" /\ RoutedOrder[12] = "confirm_known"
       /\ RoutedOrder[13] = "detail" /\ RoutedOrder[14] = "yes" /\ RoutedOrder[15] = "slots"
       /\ RoutedOrder[16] = "boundary" /\ RoutedOrder[17] = "digest_select" /\ RoutedOrder[18] = "digest_intent"
       /\ RoutedOrder[19] = "propose" /\ RoutedOrder[20] = "catalog" /\ RoutedOrder[21] = "context"
       /\ RoutedOrder[22] = "operation" /\ RoutedOrder[23] = "search"
  BY DEF RoutedOrder
<1>14. r \notin First5 => ~Has(m, "save") /\ ~Has(m, "remember") /\ ~Has(m, "forget") /\ ~Has(m, "recall")
  BY <1>2, <1>13, Meaning
<1>15. r \notin First10 => /\ ~When("show", m) /\ ~When("delete", m) /\ ~When("resume", m)
                          /\ ~When("select_prior", m)
  BY <1>3, <1>13
<1>26. r \notin First10 \cup {"list"} => ~When("list", m)
  BY <1>13, <1>25
<1>16. r \notin First14 => ~Has(m, "list") /\ ~When("confirm_known", m) /\ ~Has(m, "yes")
  BY <1>4, <1>13, Meaning
<1>17. r \notin First14 \cup {"slots"} => ~When("slots", m)
  BY <1>5, <1>13, Meaning
<1>18. r \notin First16 => ~When("boundary", m)
  BY <1>6, <1>13, Meaning
<1>19. r \notin First18 => ~DigestTalk(m)
  BY <1>7, <1>13, Meaning
<1>20. r \notin First18 \cup {"propose"} => ~Has(m, "propose")
  BY <1>8, <1>13, Meaning
<1>21. r \notin First18 \cup {"propose", "catalog"} => ~Has(m, "catalog")
  BY <1>9, <1>13, Meaning
<1>22. r \notin First21 => ~Has(m, "context")
  BY <1>10, <1>13, Meaning
<1>23. r \notin First21 \cup {"operation"} => ~Has(m, "operation")
  BY <1>11, <1>13, Meaning
<1>24. r \notin First21 \cup {"operation", "search"} => ~Has(m, "search")
  BY <1>12, <1>13, Meaning
<1>. QED
  BY <1>1, <1>14, <1>15, <1>26, <1>16, <1>17, <1>18, <1>19, <1>20, <1>21, <1>22, <1>23, <1>24 DEF r

\* What is known of every sentence.
LEMMA Traits ==
  ASSUME NEW m \in Message
  PROVE  /\ m.kind \in Kinds /\ Said[m.kind] = Sentence[m.kind] /\ m.id \in 0..MaxIntakes
         /\ (m.id # NoId) <=> Has(m, "id")
         /\ Has(m, "yes") => ~Has(m, "id") /\ ~Has(m, "confirm")
         /\ Has(m, "build") /\ Has(m, "wish") => LooksNew(Built(m))
         /\ Has(m, "operation") => OperationCapability(m) \in {"run_l1", "pause_l1", "task_read"}
<1>1. /\ m.kind \in Kinds /\ m.id \in 0..MaxIntakes
      /\ (m.id # NoId) <=> "id" \in Sentence[m.kind].traits
  BY DEF Message
<1>2. Said[m.kind] = Sentence[m.kind]
  BY <1>1 DEF Said
<1>3. /\ "yes" \in Sentence[m.kind].traits => {"id", "confirm"} \cap Sentence[m.kind].traits = {}
      /\ {"build", "wish"} \subseteq Sentence[m.kind].traits => LooksNew(Sentence[m.kind].builds)
      /\ "operation" \in Sentence[m.kind].traits <=> Sentence[m.kind].action # "none"
      /\ Sentence[m.kind].action \in {"none", "run_l1", "pause_l1", "task_read"}
  BY <1>1, SentenceAssumption
<1>. QED
  BY <1>1, <1>2, <1>3 DEF Has, Built, OperationCapability

\* The rules by which diagnose_route asks for draft_task.
Drafting == {"named", "delete", "resume", "select_prior", "list", "confirm", "slots",
             "digest_sources", "digest_intent", "search", "build"}

\* If one of them holds and no other one may come first, the gate asks for it.
LEMMA DraftGated ==
  ASSUME NEW m, NEW last \in 1..22, When(DiagnosedOrder[last], m),
         ~Has(m, "save"), ~Has(m, "remember"), ~Has(m, "forget"), ~Has(m, "recall"),
         last > 10 => ~Has(m, "yes"),
         last > 12 => ~When("boundary", m),
         last > 15 => ~Has(m, "propose") /\ ~Has(m, "catalog") /\ ~Has(m, "context") /\ ~Has(m, "operation"),
         last > 20 => ~Has(m, "wish")
  PROVE  Diagnosed(m) \in Drafting /\ RequiredCapability(m) = "draft_task"
<1>1. PICK k \in 1..last : Diagnosed(m) = DiagnosedOrder[k] /\ Decides(DiagnosedOrder, k, m)
  BY DiagnosedAt
<1>2. k \in 1..23 /\ When(Diagnosed(m), m)
  BY <1>1 DEF Decides
<1>3. k \notin {1, 2, 3, 4}
  BY <1>1, <1>2, DiagnosedPlaces, Meaning
<1>4. k # 11 /\ k # 13
  BY <1>1, <1>2, DiagnosedPlaces, Meaning
<1>5. k \notin {16, 17, 18, 19} /\ k # 21 /\ k # 23
  BY <1>1, <1>2, DiagnosedPlaces, Meaning
<1>6. k \in {5, 6, 7, 8, 9, 10, 12, 14, 15, 20, 22}
  BY <1>2, <1>3, <1>4, <1>5
<1>7. Diagnosed(m) \in Drafting
  BY <1>1, <1>6 DEF Drafting, DiagnosedOrder
<1>. QED
  BY <1>7 DEF RequiredCapability, CapabilityFor, Drafting

LEMMA GateDrafts ==
  ASSUME NEW m \in Message,
         Routed(m) \in {"show", "delete", "resume", "select_named", "select_prior", "list", "confirm_known",
                        "detail", "slots", "digest_select", "digest_intent", "search"}
  PROVE  Diagnosed(m) \in Drafting /\ RequiredCapability(m) = "draft_task"
<1>. DEFINE r == Routed(m)
<1>1. ~Has(m, "save") /\ ~Has(m, "remember") /\ ~Has(m, "forget") /\ ~Has(m, "recall") /\ When(r, m)
  BY RoutedTo DEF First5
<1>2. ASSUME NEW k \in 1..11, When(DiagnosedOrder[k], m), k # 11
      PROVE  Diagnosed(m) \in Drafting /\ RequiredCapability(m) = "draft_task"
  <2>1. k \in 1..22 /\ ~(k > 10) /\ ~(k > 12) /\ ~(k > 15) /\ ~(k > 20)
    BY <1>2
  <2>. QED
    BY <1>1, <1>2, <2>1, DraftGated
<1>3. /\ DiagnosedOrder[5] = "named" /\ DiagnosedOrder[6] = "delete" /\ DiagnosedOrder[7] = "resume"
      /\ DiagnosedOrder[8] = "select_prior" /\ DiagnosedOrder[9] = "list" /\ DiagnosedOrder[10] = "confirm"
      /\ DiagnosedOrder[12] = "slots" /\ DiagnosedOrder[14] = "digest_sources"
      /\ DiagnosedOrder[15] = "digest_intent" /\ DiagnosedOrder[20] = "search"
  BY DEF DiagnosedOrder
<1>4. ASSUME m.id # NoId PROVE Diagnosed(m) \in Drafting /\ RequiredCapability(m) = "draft_task"
  <2>1. When("named", m) \/ When("resume", m) \/ When("confirm", m)
    BY <1>4, Meaning
  <2>. QED
    BY <1>2, <1>3, <2>1
<1>5. CASE r \in {"show", "select_named", "detail"}
  <2>1. m.id # NoId
    BY <1>1, <1>5, Meaning DEF Selecting, Status
  <2>. QED
    BY <1>4, <2>1
<1>6. CASE r \in {"delete", "resume", "select_prior", "list"}
  BY <1>1, <1>2, <1>3, <1>6
<1>7. CASE r = "confirm_known"
  <2>1. When("confirm", m)
    BY <1>1, <1>7, Meaning
  <2>. QED
    BY <1>2, <1>3, <2>1
<1>8. CASE r \in {"slots", "digest_select", "digest_intent", "search"}
  <2>1. ~Has(m, "yes")
    BY <1>8, RoutedTo DEF First5, First10, First14
  <2>2. CASE r = "slots"
    BY <1>1, <1>3, <2>1, <2>2, DraftGated
  <2>3. CASE r # "slots"
    <3>1. ~When("boundary", m)
      BY <1>8, <2>3, RoutedTo DEF First5, First10, First14, First16
    <3>2. CASE r = "digest_select"
      <4>1. When("digest_sources", m)
        BY <1>1, <3>2, Meaning
      <4>. QED
        BY <1>1, <1>3, <2>1, <3>1, <4>1, DraftGated
    <3>3. CASE r = "digest_intent"
      BY <1>1, <1>3, <2>1, <3>1, <3>3, DraftGated
    <3>4. CASE r = "search"
      <4>1. ~Has(m, "propose") /\ ~Has(m, "catalog") /\ ~Has(m, "context") /\ ~Has(m, "operation")
        BY <3>4, RoutedTo DEF First5, First10, First14, First16, First18, First21
      <4>. QED
        BY <1>1, <1>3, <2>1, <3>1, <3>4, <4>1, DraftGated
    <3>. QED
      BY <1>8, <2>3, <3>2, <3>3, <3>4
  <2>. QED
    BY <2>2, <2>3
<1>. QED
  BY <1>5, <1>6, <1>7, <1>8

\* A bare confirmation: the gate asks for draft_task if it confirms anything.
LEMMA GateYes ==
  ASSUME NEW m \in Message, Routed(m) = "yes"
  PROVE  /\ Diagnosed(m) = "yes" /\ m.id = NoId
         /\ YesRoute(m) # "none" => RequiredCapability(m) = "draft_task"
<1>1. /\ ~Has(m, "save") /\ ~Has(m, "remember") /\ ~Has(m, "forget") /\ ~Has(m, "recall") /\ Has(m, "yes")
      /\ ~When("select_prior", m) /\ DiagnosedOrder[11] = "yes" /\ When("yes", m)
  BY RoutedTo, Meaning DEF First5, First10, DiagnosedOrder
<1>2. /\ m.id = NoId /\ ~Has(m, "confirm")
      /\ ~When("resume", m) /\ ~When("delete", m) /\ ~When("list", m)
  BY <1>1, Traits, RoutedTo, Meaning DEF First5, First10, First14
<1>3. PICK k \in 1..11 : Diagnosed(m) = DiagnosedOrder[k] /\ Decides(DiagnosedOrder, k, m)
  <2>1. 11 \in 1..23 /\ When(DiagnosedOrder[11], m)
    BY <1>1
  <2>. QED
    BY <2>1, DiagnosedAt
<1>4. k \in 1..23 /\ When(Diagnosed(m), m)
  BY <1>3 DEF Decides
<1>5. k \notin {1, 2, 3, 4} /\ k \notin {5, 6, 7, 8, 9, 10}
  BY <1>1, <1>2, <1>3, <1>4, DiagnosedPlaces, Meaning
<1>6. k = 11 /\ Diagnosed(m) = "yes"
  BY <1>1, <1>3, <1>4, <1>5
<1>. QED
  BY <1>2, <1>6 DEF RequiredCapability, CapabilityFor

\* Sentences that ask for something else: they are decided alike, or the message is
\* about an intake as well and the gate stops there.
LEMMA GateOthers ==
  ASSUME NEW m \in Message, Routed(m) \in {"propose", "catalog", "context", "operation"}
  PROVE  IF AboutIntake(m) THEN RequiredCapability(m) = "draft_task" ELSE Diagnosed(m) = Routed(m)
<1>. DEFINE r == Routed(m)
<1>1. /\ ~Has(m, "save") /\ ~Has(m, "remember") /\ ~Has(m, "forget") /\ ~Has(m, "recall") /\ When(r, m)
      /\ ~When("delete", m) /\ ~When("resume", m) /\ ~When("select_prior", m)
      /\ ~When("list", m) /\ ~When("confirm_known", m) /\ ~Has(m, "yes")
      /\ ~When("slots", m) /\ ~When("boundary", m) /\ ~DigestTalk(m)
      /\ r # "propose" => ~Has(m, "propose")
      /\ r \in {"context", "operation"} => ~Has(m, "catalog")
      /\ r = "operation" => ~Has(m, "context")
  BY RoutedTo DEF First5, First10, First14, First16, First18, First21
<1>2. ASSUME AboutIntake(m) PROVE RequiredCapability(m) = "draft_task"
  <2>1. CASE Has(m, "confirm")
    <3>1. When("confirm", m) /\ DiagnosedOrder[10] = "confirm"
      BY <2>1, Meaning DEF DiagnosedOrder
    <3>. QED
      BY <1>1, <3>1, DraftGated
  <2>2. CASE ~Has(m, "confirm")
    <3>1. m.id # NoId
      BY <1>2, <2>2 DEF AboutIntake
    <3>2. When("named", m) /\ DiagnosedOrder[5] = "named"
      BY <1>1, <2>2, <3>1, Meaning DEF DiagnosedOrder
    <3>. QED
      BY <1>1, <3>2, DraftGated
  <2>. QED
    BY <2>1, <2>2
<1>3. ASSUME ~AboutIntake(m) PROVE Diagnosed(m) = r
  <2>0. m.id = NoId /\ ~Has(m, "confirm")
    BY <1>1, <1>3, Meaning DEF AboutIntake
  <2>1. PICK n \in 16..19 : DiagnosedOrder[n] = r
    BY DEF DiagnosedOrder
  <2>2. PICK k \in 1..n : Diagnosed(m) = DiagnosedOrder[k] /\ Decides(DiagnosedOrder, k, m)
    BY <1>1, <2>1, DiagnosedAt
  <2>3. k \in 1..23 /\ n \in 1..23 /\ When(Diagnosed(m), m)
    BY <2>2 DEF Decides
  <2>4. k \notin {1, 2, 3, 4} /\ k \notin {5, 6, 7, 8, 9, 10, 11}
    BY <1>1, <2>0, <2>2, <2>3, DiagnosedPlaces, Meaning
  <2>5. k \notin {12, 13, 14, 15}
    BY <1>1, <2>2, <2>3, DiagnosedPlaces, Meaning
  <2>6. /\ k = 16 => r = "propose"
        /\ k = 17 => r \notin {"context", "operation"}
        /\ k = 18 => r # "operation"
    BY <1>1, <2>2, <2>3, DiagnosedPlaces, Meaning
  <2>7. k = n
    BY <2>1, <2>3, <2>4, <2>5, <2>6, DiagnosedPlaces
  <2>. QED
    BY <2>1, <2>2, <2>7
<1>. QED
  BY <1>2, <1>3

LEMMA GateMemory ==
  ASSUME NEW m \in Message, Routed(m) \in {"save", "remember", "forget", "recall"}
  PROVE  RequiredCapability(m) = IF Routed(m) = "save" /\ ~PendingMemory THEN "chat" ELSE "memory"
<1>. DEFINE r == Routed(m)
<1>1. PICK n \in 1..4 : DiagnosedOrder[n] = r
  BY DEF DiagnosedOrder
<1>2. PICK k \in 1..25 : r = RoutedOrder[k] /\ Decides(RoutedOrder, k, m)
  BY RoutedAt
<1>3. When(r, m) /\ (r # "save" => ~When("save", m))
  <2>1. RoutedOrder[2] = "save" /\ (r # "save" => k \in {3, 4, 5})
    BY <1>2, RoutedPlaces
  <2>. QED
    BY <1>2, <2>1 DEF Decides
<1>4. PICK j \in 1..n : Diagnosed(m) = DiagnosedOrder[j] /\ Decides(DiagnosedOrder, j, m)
  <2>1. n \in 1..23 /\ When(DiagnosedOrder[n], m)
    BY <1>1, <1>3
  <2>. QED
    BY <2>1, DiagnosedAt
<1>5. j \in 1..4 /\ When(Diagnosed(m), m)
  BY <1>4 DEF Decides
<1>6. IF r = "save" THEN Diagnosed(m) = "save" ELSE Diagnosed(m) \in {"remember", "forget", "recall"}
  BY <1>1, <1>3, <1>4, <1>5 DEF DiagnosedOrder
<1>. QED
  BY <1>6 DEF RequiredCapability, CapabilityFor

\* A sentence that builds an intent and is diagnosed as a wish is not drafted.
LEMMA GateBuild ==
  ASSUME NEW m \in Message, Routed(m) = "build"
  PROVE  \/ Diagnosed(m) \in Drafting /\ RequiredCapability(m) = "draft_task"
         \/ LooksNew(Built(m))
<1>1. /\ ~Has(m, "save") /\ ~Has(m, "remember") /\ ~Has(m, "forget") /\ ~Has(m, "recall")
      /\ ~Has(m, "yes") /\ ~When("boundary", m) /\ ~Has(m, "propose") /\ ~Has(m, "catalog")
      /\ ~Has(m, "context") /\ ~Has(m, "operation") /\ When("build", m) /\ Has(m, "build")
  BY RoutedTo, Meaning DEF First5, First10, First14, First16, First18, First21
<1>2. DiagnosedOrder[22] = "build"
  BY DEF DiagnosedOrder
<1>3. CASE Has(m, "wish")
  BY <1>1, <1>3, Traits
<1>4. CASE ~Has(m, "wish")
  BY <1>1, <1>2, <1>4, DraftGated
<1>. QED
  BY <1>3, <1>4

-----------------------------------------------------------------------------
(* What the gate asked for and what was used *)

Covered(m, used) ==
  \/ used \in {"none", "chat", RequiredCapability(m)}
  \/ AboutIntake(m) /\ used \in {"run_l1", "pause_l1", "task_read", "source_proposal", "context"}

LEMMA ReplyCovered ==
  ASSUME NEW m, NEW id, NEW block, NEW intent, NEW used,
         Reply(m, id, block, intent, used), Covered(m, used)
  PROVE  GateCovers'
<1>1. turn'.ungated = Ungated(m, used) /\ turn'.about = (AboutIntake(m) /\ Ungated(m, used) # "none")
  BY DEF Reply, QuietTurn, NoTurn
<1>. QED
  BY <1>1 DEF GateCovers, Covered, Ungated

LEMMA SayCovered ==
  ASSUME NEW m, NEW id, NEW used, Say(m, id, used), Covered(m, used)
  PROVE  GateCovers'
BY ReplyCovered DEF Say

LEMMA PassOnCovered ==
  ASSUME NEW m, NEW used, NEW sent, NEW served, PassOn(m, used, sent, served), Covered(m, used)
  PROVE  GateCovers'
<1>1. turn'.ungated = Ungated(m, used) /\ turn'.about = AboutIntake(m)
  BY DEF PassOn
<1>. QED
  BY <1>1 DEF GateCovers, Covered, Ungated

LEMMA StoreCovered ==
  ASSUME NEW m, NEW id, NEW status, NEW block, NEW intent,
         StoreAndSay(m, id, status, block, intent), Covered(m, "draft_task")
  PROVE  GateCovers'
<1>1. PICK shownId, shownBlock, shownIntent : Reply(m, shownId, shownBlock, shownIntent, "draft_task")
  BY DEF StoreAndSay
<1>. QED
  BY <1>1, ReplyCovered

LEMMA ValidateCovered ==
  ASSUME NEW m, NEW intent, NEW id, ValidateForReply(m, intent, id),
         Covered(m, "draft_task") \/ Outcome(intent, on, FALSE) \notin {"ASK_CONFIRMATION", "ASK_DETAILS"}
  PROVE  GateCovers'
<1>1. Covered(m, "chat")
  BY DEF Covered
<1>. QED
  BY <1>1, StoreCovered, SayCovered DEF ValidateForReply

LEMMA ConfirmCovered ==
  ASSUME NEW m, NEW id, ConfirmIntake(m, id), Covered(m, "draft_task")
  PROVE  GateCovers'
BY SayCovered, PassOnCovered DEF ConfirmIntake, Forward

LEMMA SelectCovered ==
  ASSUME NEW m, NEW id, SelectSources(m, id), Covered(m, "draft_task")
  PROVE  GateCovers'
<1>1. Say(m, id, "draft_task") \/ \E intent : ValidateForReply(m, intent, id)
  BY DEF SelectSources
<1>. QED
  BY <1>1, SayCovered, ValidateCovered

LEMMA OfferCovered ==
  ASSUME NEW m, NEW intent, OfferSources(m, intent), Covered(m, "draft_task")
  PROVE  GateCovers'
BY SayCovered, ReplyCovered DEF OfferSources

LEMMA ListCovered ==
  ASSUME NEW m, ListIntakes(m), Covered(m, "draft_task")
  PROVE  GateCovers'
BY SayCovered DEF ListIntakes

\* A bare "yes" that confirms nothing is small talk.
LEMMA AgreeCovered ==
  ASSUME NEW m \in Message, Routed(m) = "yes", Agree(m)
  PROVE  GateCovers'
<1>1. CASE YesRoute(m) # "none"
  <2>1. Covered(m, "draft_task") /\ Covered(m, "chat")
    BY <1>1, GateYes DEF Covered
  <2>. QED
    BY <2>1, SelectCovered, ConfirmCovered, ValidateCovered, PassOnCovered, ReplyCovered, SayCovered
       DEF Agree, Forward
<1>2. CASE YesRoute(m) = "none"
  <2>1. Say(m, NoId, "chat")
    BY <1>2 DEF Agree, YesRoute
  <2>2. Covered(m, "chat")
    BY DEF Covered
  <2>. QED
    BY <2>1, <2>2, SayCovered
<1>. QED
  BY <1>1, <1>2

LEMMA RouteCovered ==
  ASSUME NEW m \in Message, Route(m, Routed(m))
  PROVE  GateCovers'
<1>. DEFINE r == Routed(m)
<1>0. Covered(m, "chat")
  BY DEF Covered
<1>1. CASE r \in {"diagnose", "boundary", "chat"}
  BY <1>0, <1>1, ReplyCovered, SayCovered DEF Route, Diagnose
<1>2. CASE r \in {"save", "remember", "forget", "recall"}
  <2>1. Covered(m, IF r = "save" /\ ~PendingMemory THEN "chat" ELSE "memory")
    BY <1>2, GateMemory DEF Covered
  <2>. QED
    BY <1>2, <2>1, ReplyCovered, SayCovered DEF Route, ProposeMemory, UseMemory
<1>3. CASE r \in {"show", "delete", "resume", "select_named", "select_prior", "list", "confirm_known",
                  "detail", "slots", "digest_select", "digest_intent", "search"}
  <2>1. Covered(m, "draft_task")
    BY <1>3, GateDrafts DEF Covered
  <2>2. CASE r = "show"
    BY <2>1, <2>2, ReplyCovered, SayCovered DEF Route, ShowIntake
  <2>3. CASE r = "delete"
    BY <2>1, <2>3, SayCovered DEF Route, CancelIntake
  <2>4. CASE r \in {"resume", "list"}
    BY <2>1, <2>4, SayCovered, ListCovered DEF Route, ContinueIntake
  <2>5. CASE r \in {"select_named", "select_prior"}
    BY <2>1, <2>5, SelectCovered DEF Route
  <2>6. CASE r = "confirm_known"
    BY <2>1, <2>6, ConfirmCovered DEF Route
  <2>7. CASE r = "detail"
    BY <2>1, <2>7, SayCovered, SelectCovered, ValidateCovered DEF Route, UpdateDetails
  <2>8. CASE r \in {"slots", "digest_intent"}
    BY <2>1, <2>8, ValidateCovered DEF Route
  <2>9. CASE r \in {"digest_select", "search"}
    BY <2>1, <2>9, OfferCovered DEF Route, SearchSources
  <2>. QED
    BY <1>3, <2>2, <2>3, <2>4, <2>5, <2>6, <2>7, <2>8, <2>9
<1>4. CASE r = "yes"
  BY <1>4, AgreeCovered DEF Route
<1>5. CASE r = "propose"
  <2>1. Covered(m, "source_proposal")
    BY <1>5, GateOthers DEF Covered, RequiredCapability, CapabilityFor
  <2>. QED
    BY <1>5, <2>1, SayCovered DEF Route
<1>6. CASE r \in {"catalog", "context"}
  <2>1. Covered(m, "context")
    BY <1>6, GateOthers DEF Covered, RequiredCapability, CapabilityFor
  <2>. QED
    BY <1>6, <2>1, SayCovered DEF Route
<1>7. CASE r = "operation"
  <2>1. OperationCapability(m) \in {"run_l1", "pause_l1", "task_read"}
    BY <1>7, Traits, RoutedTo, Meaning
  <2>2. Covered(m, OperationCapability(m))
    BY <1>7, <2>1, GateOthers DEF Covered, RequiredCapability, CapabilityFor
  <2>. QED
    BY <1>7, <2>2, PassOnCovered DEF Route, Operate
<1>8. CASE r = "build"
  <2>1. CASE RequiredCapability(m) = "draft_task"
    BY <1>8, <2>1, ValidateCovered DEF Route, Covered
  <2>2. CASE LooksNew(Built(m))
    <3>1. Outcome(Built(m), on, FALSE) = "PROPOSE_NEW_CAPABILITY"
      BY <2>2 DEF Outcome
    <3>. QED
      BY <1>8, <3>1, ValidateCovered DEF Route
  <2>. QED
    BY <1>8, <2>1, <2>2, GateBuild
<1>. QED
  BY <1>1, <1>2, <1>3, <1>4, <1>5, <1>6, <1>7, <1>8 DEF Route

\* The gate covers what a message does, whatever the patterns find in it: the
\* capability that the rule of route_chat uses is the one
\* channel_required_capability read off diagnose_route, in spite of their different
\* orders; but for the request beside an intake id, or beside the confirmation of an
\* intake that is not known, when it is for an operation, a proposal or context.
THEOREM GateIsEnough == Spec => []GateCovers
<1>1. Init => GateCovers
  BY DEF Init, NoTurn, GateCovers
<1>2. GateCovers /\ [Next]_vars => GateCovers'
  <2>. SUFFICES ASSUME GateCovers, [Next]_vars PROVE GateCovers'
    OBVIOUS
  <2>1. ASSUME NEW m \in Message, Converse(m) PROVE GateCovers'
    <3>1. CASE Say(m, NoId, "none")
      BY <3>1, SayCovered DEF Covered
    <3>2. CASE Route(m, Routed(m))
      BY <3>2, RouteCovered
    <3>. QED
      BY <2>1, <3>1, <3>2 DEF Converse
  <2>2. CASE turn' = NoTurn
    BY <2>2 DEF NoTurn, GateCovers
  <2>3. CASE UNCHANGED vars
    BY <2>3 DEF vars, GateCovers
  <2>. QED
    BY <2>1, <2>2, <2>3 DEF Next, Remind, Close, Toggle
<1>. QED
  BY <1>1, <1>2, PTL DEF Spec

-----------------------------------------------------------------------------
(* Types *)

HistoryTyped == history \in Seq(Entry) /\ Len(history) <= Window

RowStatus == ActiveStatuses \cup {"none", "forwarded_to_yggdrasil", "cancelled", "expired", "failed"}
Row == [intent : Intent, status : RowStatus]
RowsTyped == intakes \in [Intakes -> Row]
TasksTyped == DOMAIN tasks \subseteq Task /\ \A t \in DOMAIN tasks : tasks[t] \subseteq Ids /\ tasks[t] # {}

LEMMA Bounds ==
  /\ Window \in Nat /\ Window >= 1 /\ Recent \in Nat /\ MaxIntakes \in Nat /\ MaxIntakes >= 1
  /\ MaxEdits \in Nat /\ MaxFaults \in Nat
BY ConversationAssumption

LEMMA NoIntentTyped == NoIntent \in Intent /\ NoIntent.ids = {}
BY DEF NoIntent, Draft, Intent, Capabilities, Task

LEMMA DraftTyped ==
  ASSUME NEW cap \in Capabilities, NEW task \in Task, NEW ids \in SUBSET Ids,
         NEW words \in SUBSET {"printer", "unsafe"}
  PROVE  Draft(cap, task, ids, words) \in Intent
BY DEF Draft, Intent

LEMMA ChangeTyped ==
  ASSUME NEW task \in Task, NEW ids \in SUBSET Ids, NEW drop \in SUBSET Source, NEW terms \in BOOLEAN
  PROVE  Change(task, ids, drop, terms) \in Intent
BY DEF Change, Intent, Capabilities

LEMMA IntentFields ==
  ASSUME NEW i \in Intent
  PROVE  /\ i.cap \in Capabilities /\ i.task \in Task /\ i.ids \in SUBSET Ids /\ i.drop \in SUBSET Source
         /\ i.terms \in BOOLEAN /\ i.words \in SUBSET {"printer", "unsafe"}
BY DEF Intent

LEMMA IdsChanged ==
  ASSUME NEW i \in Intent, NEW ids \in SUBSET Ids
  PROVE  [i EXCEPT !.ids = ids] \in Intent /\ [i EXCEPT !.ids = ids].ids = ids
BY DEF Intent

LEMMA WordsDropped ==
  ASSUME NEW i \in Intent
  PROVE  [i EXCEPT !.words = {}] \in Intent
BY DEF Intent

LEMMA NamesTyped ==
  ASSUME NEW m \in Message
  PROVE  Names(m) \subseteq Ids
BY SentenceAssumption, Traits DEF Names

LEMMA BuiltTyped ==
  ASSUME NEW m \in Message
  PROVE  Built(m) \in Intent
BY SentenceAssumption, Traits DEF Built

LEMMA SlotIdsTyped ==
  ASSUME NEW cap \in Capabilities
  PROVE  SlotIds(cap) \subseteq Ids
BY DEF SlotIds, Capabilities, Ids

LEMMA MergedTyped ==
  ASSUME NEW i \in Intent, NEW m \in Message
  PROVE  Merged(i, m) \in Intent
<1>1. Names(m) \cap SlotIds(i.cap) \in SUBSET Ids
  BY NamesTyped
<1>. QED
  BY <1>1, IdsChanged DEF Merged

LEMMA DigestIntentTyped ==
  ASSUME NEW m
  PROVE  DigestIntent(m) \in Intent
<1>1. NamedSources(m) \in SUBSET Ids
  BY DEF NamedSources, Ids
<1>2. "digest" \in Capabilities /\ "threats" \in Task
  BY DEF Capabilities, Task
<1>. QED
  BY <1>1, <1>2, DraftTyped DEF DigestIntent

\* The next id, where there is one, is that of a free row.
LEMMA NextIdTyped ==
  /\ NextId \in 0..MaxIntakes
  /\ NextId # NoId => NextId \in Intakes /\ NextId \in Free
<1>1. Free \in SUBSET Nat /\ \A i \in Free : i \in 1..MaxIntakes
  BY Bounds DEF Free, Intakes
<1>2. CASE Free = {}
  BY <1>2, Bounds DEF NextId, NoId
<1>3. CASE Free # {}
  <2>1. Min(Free) \in Free
    BY <1>1, <1>3, LeastElement
  <2>2. \A i \in 1..MaxIntakes : i \in 0..MaxIntakes
    BY Bounds
  <2>3. NextId = Min(Free) /\ Min(Free) \in Intakes
    BY <1>1, <1>3, <2>1 DEF NextId, Intakes
  <2>. QED
    BY <2>1, <2>2, <2>3 DEF Intakes
<1>. QED
  BY <1>2, <1>3

-----------------------------------------------------------------------------
(* The history *)

LEMMA BlankTyped == Blank \in Entry
BY NoIntentTyped, Bounds DEF Blank, Entry, NoId

LEMMA Places ==
  ASSUME HistoryTyped
  PROVE  /\ Len(history) \in Nat /\ DOMAIN history = 1..Len(history)
         /\ \A k \in DOMAIN history : history[k] \in Entry
BY DEF HistoryTyped

LEMMA Newest ==
  ASSUME HistoryTyped, NEW hits \in SUBSET DOMAIN history, hits # {}
  PROVE  Max(hits) \in hits /\ \A k \in hits : k <= Max(hits)
<1>1. hits \in SUBSET Nat /\ Len(history) \in Nat /\ \A k \in hits : k <= Len(history)
  BY Places
<1>. QED
  BY <1>1, GreatestElement

\* The id in the text is that of the latest turn that has one.
LEMMA PriorIdIs ==
  ASSUME HistoryTyped
  PROVE  \/ PriorId = NoId /\ \A k \in DOMAIN history : history[k].id = NoId
         \/ \E k \in DOMAIN history : /\ PriorId = history[k].id /\ history[k].id # NoId
                                      /\ \A j \in DOMAIN history : j > k => history[j].id = NoId
<1>. DEFINE hits == {k \in DOMAIN history : history[k].id # NoId}
<1>1. PriorId = IF hits = {} THEN NoId ELSE history[Max(hits)].id
  BY DEF PriorId, Latest, WithId, Blank
<1>2. CASE hits = {}
  BY <1>1, <1>2
<1>3. CASE hits # {}
  <2>1. hits \in SUBSET DOMAIN history
    OBVIOUS
  <2>2. PICK k \in hits : k = Max(hits) /\ \A j \in hits : j <= k
    BY <1>3, <2>1, Newest
  <2>3. \A j \in DOMAIN history : j \in Nat
    BY Places
  <2>4. ASSUME NEW j \in DOMAIN history, j > k PROVE history[j].id = NoId
    <3>1. j \in Nat /\ k \in Nat /\ ~(j <= k)
      BY <2>3, <2>4
    <3>. QED
      BY <2>2, <3>1
  <2>. QED
    BY <1>1, <1>3, <2>2, <2>4
<1>. QED
  BY <1>2, <1>3

LEMMA PendingIntentIs ==
  ASSUME HistoryTyped
  PROVE  \/ PendingIntent = NoIntent
         \/ \E k \in WithIntent : Latest(WithIntent) = history[k]
<1>1. Latest(WithIntent) = IF WithIntent = {} THEN Blank ELSE history[Max(WithIntent)]
  BY DEF Latest
<1>2. CASE WithIntent = {}
  BY <1>1, <1>2 DEF PendingIntent, Blank
<1>3. CASE WithIntent # {}
  <2>1. WithIntent \in SUBSET DOMAIN history
    BY DEF WithIntent
  <2>2. Max(WithIntent) \in WithIntent
    BY <1>3, <2>1, Newest
  <2>. QED
    BY <1>1, <1>3, <2>2
<1>. QED
  BY <1>2, <1>3

LEMMA PendingTyped ==
  ASSUME HistoryTyped
  PROVE  PendingIntent \in Intent /\ PendingSelection \in Intent /\ PriorId \in 0..MaxIntakes
<1>1. \A k \in DOMAIN history : history[k].intent \in Intent /\ history[k].id \in 0..MaxIntakes
  BY Places DEF Entry
<1>2. PendingIntent \in Intent
  BY <1>1, PendingIntentIs, NoIntentTyped DEF PendingIntent, WithIntent
<1>3. PendingSelection \in Intent
  <2>1. Latest(WithSelection) = IF WithSelection = {} THEN Blank ELSE history[Max(WithSelection)]
    BY DEF Latest
  <2>2. WithSelection \in SUBSET DOMAIN history
    BY DEF WithSelection
  <2>3. WithSelection # {} => Max(WithSelection) \in DOMAIN history
    BY <2>2, Newest
  <2>. QED
    BY <1>1, <2>1, <2>3, BlankTyped DEF PendingSelection, Entry
<1>4. PriorId \in 0..MaxIntakes
  BY <1>1, PriorIdIs, Bounds DEF NoId
<1>. QED
  BY <1>2, <1>3, <1>4

LEMMA LargerOfTwo ==
  ASSUME NEW n \in Int
  PROVE  Max({1, n}) = IF n >= 1 THEN n ELSE 1
BY DEF Max

\* The oldest turn goes when the window is full.
LEMMA WindowMoves ==
  ASSUME HistoryTyped, NEW e \in Entry, history' = LastTurns(Append(history, e))
  PROVE  /\ HistoryTyped' /\ history'[Len(history')] = e
         /\ \E gone \in 0..1 : /\ gone <= Len(history) /\ Len(history') = Len(history) + 1 - gone
                               /\ \A k \in 1..(Len(history) - gone) : history'[k] = history[k + gone]
<1>. DEFINE old == Len(history)
            all == Append(history, e)
            first == IF old + 1 - Window + 1 >= 1 THEN old + 1 - Window + 1 ELSE 1
<1>1. /\ old \in Nat /\ old <= Window /\ all \in Seq(Entry) /\ Len(all) = old + 1
      /\ all[old + 1] = e /\ \A k \in 1..old : all[k] = history[k]
  BY Places DEF HistoryTyped
<1>2. first \in 1..2 /\ first <= old + 1 /\ old + 1 - first + 1 <= Window
  BY <1>1, Bounds
<1>3. Max({1, Len(all) - Window + 1}) = first
  <2>1. Len(all) - Window + 1 \in Int /\ Len(all) - Window + 1 = old + 1 - Window + 1
    BY <1>1, Bounds
  <2>2. Max({1, Len(all) - Window + 1}) = IF Len(all) - Window + 1 >= 1 THEN Len(all) - Window + 1 ELSE 1
    BY <2>1, LargerOfTwo
  <2>. QED
    BY <2>1, <2>2
<1>4. history' = SubSeq(all, first, old + 1)
  BY <1>1, <1>3 DEF LastTurns
<1>. HIDE DEF first
<1>5. \A i \in first..(old + 1) : all[i] \in Entry
  BY <1>1, <1>2
<1>6. /\ history' \in Seq(Entry) /\ Len(history') = old + 1 - first + 1
      /\ \A k \in 1..(old + 1 - first + 1) : history'[k] = all[first + k - 1]
  BY <1>1, <1>2, <1>4, <1>5, SubSeqProperties
<1>7. HistoryTyped'
  BY <1>2, <1>6 DEF HistoryTyped
<1>8. history'[Len(history')] = e
  <2>1. old + 1 - first + 1 \in 1..(old + 1 - first + 1) /\ first + (old + 1 - first + 1) - 1 = old + 1
    BY <1>1, <1>2
  <2>. QED
    BY <1>1, <1>6, <2>1
<1>9. ASSUME NEW k \in 1..(old - (first - 1)) PROVE history'[k] = history[k + (first - 1)]
  <2>1. k \in 1..(old + 1 - first + 1) /\ first + k - 1 = k + (first - 1) /\ k + (first - 1) \in 1..old
    BY <1>1, <1>2
  <2>. QED
    BY <1>1, <1>6, <2>1
<1>10. first - 1 \in 0..1 /\ first - 1 <= old /\ old + 1 - first + 1 = old + 1 - (first - 1)
  BY <1>1, <1>2
<1>. QED
  BY <1>6, <1>7, <1>8, <1>9, <1>10

-----------------------------------------------------------------------------
(* What a message leaves behind *)

Asks == {"confirm", "summary"}
Blocks == {"none", "confirm", "summary", "details", "show", "diagnosis", "selection", "memory"}

SentTyped == turn.sent \in Intent /\ (turn.sent # NoIntent => turn.called)
FaultsTyped == faults \in 0..MaxFaults
Typed == HistoryTyped /\ RowsTyped /\ TasksTyped /\ on \subseteq Ids /\ FaultsTyped

\* The turn e is added to the history.
Turned(e) ==
  /\ history' = LastTurns(Append(history, e))
  /\ asked' = (asked \cap ({intakes[i].intent : i \in Intakes}
                             \cup {history'[k].intent : k \in DOMAIN history'}))
              \cup (IF e.block \in Asks THEN {e.intent} ELSE {})

IntentsKept == \A i \in Intakes : intakes'[i].intent = intakes[i].intent

\* A question shown to the user is that of a row, as long as no write fails, and
\* a row changes its intent only if the reply names a row.
Sound(e) ==
  /\ e.block = "details" => DetailsMissing(e.intent)
  /\ e.block = "show" => e.id # NoId
  /\ faults' = 0 =>
       /\ faults = 0
       /\ e.block \in Asks => e.id # NoId /\ intakes'[e.id].intent = e.intent
       /\ e.id # NoId \/ IntentsKept
  /\ \A i \in Intakes :
       intakes'[i].status = "awaiting_confirmation" =>
         intakes'[i] = intakes[i] \/ (e.block \in Asks /\ intakes'[i].intent = e.intent)

Recorded == RowsTyped' /\ TasksTyped' /\ FaultsTyped' /\ SentTyped' /\ \E e \in Entry : Turned(e) /\ Sound(e)

LEMMA MessageId ==
  ASSUME NEW m \in Message
  PROVE  m.id \in 0..MaxIntakes
BY DEF Message

LEMMA AnswerTurned ==
  ASSUME NEW m \in Message, NEW id \in 0..MaxIntakes, NEW block \in Blocks, NEW intent \in Intent,
         Answer(m, id, block, intent)
  PROVE  \E e \in Entry : /\ Turned(e) /\ e.block = block /\ e.intent = intent
                          /\ e.id = IF id = NoId THEN m.id ELSE id
<1>. DEFINE new == [id |-> IF id = NoId THEN m.id ELSE id, block |-> block, intent |-> intent,
                    words |-> Words(m), names |-> Names(m), by_user |-> TRUE]
<1>1. new \in Entry
  <2>1. (IF id = NoId THEN m.id ELSE id) \in 0..MaxIntakes
    BY MessageId
  <2>2. Words(m) \in SUBSET {"auto", "sec"} /\ Names(m) \in SUBSET Ids
    BY NamesTyped DEF Words
  <2>. QED
    BY <2>1, <2>2 DEF Entry, Blocks
<1>2. Turned(new)
  BY DEF Answer, Turned, Asks
<1>. QED
  BY <1>1, <1>2

LEMMA IdInRow ==
  ASSUME NEW id \in 0..MaxIntakes, id # NoId
  PROVE  id \in Intakes
BY Bounds DEF Intakes, NoId

\* Nothing is stored.
LEMMA NothingStored ==
  ASSUME Typed, NEW m \in Message, NEW id \in 0..MaxIntakes, NEW block \in Blocks, NEW intent \in Intent,
         Answer(m, id, block, intent), Keep, SentTyped', block \notin Asks,
         block = "details" => DetailsMissing(intent), block = "show" => id # NoId
  PROVE  Recorded
<1>1. RowsTyped' /\ TasksTyped' /\ FaultsTyped' /\ intakes' = intakes /\ faults' = faults
  BY DEF Typed, Keep, RowsTyped, TasksTyped, FaultsTyped
<1>2. PICK e \in Entry : /\ Turned(e) /\ e.block = block /\ e.intent = intent
                         /\ e.id = IF id = NoId THEN m.id ELSE id
  BY AnswerTurned
<1>3. Sound(e)
  BY <1>1, <1>2 DEF Sound, IntentsKept
<1>. QED
  BY <1>1, <1>2, <1>3 DEF Recorded

LEMMA ReplySent ==
  ASSUME NEW m, NEW id, NEW block, NEW intent, NEW used, Reply(m, id, block, intent, used)
  PROVE  SentTyped' /\ Answer(m, id, block, intent)
<1>1. turn'.sent = NoIntent
  BY DEF Reply, QuietTurn, NoTurn
<1>. QED
  BY <1>1, NoIntentTyped DEF SentTyped, Reply, QuietTurn

LEMMA ReplyKept ==
  ASSUME Typed, NEW m \in Message, NEW id \in 0..MaxIntakes, NEW block \in Blocks, NEW intent \in Intent,
         NEW used, Reply(m, id, block, intent, used), Keep, block \notin Asks,
         block = "details" => DetailsMissing(intent), block = "show" => id # NoId
  PROVE  Recorded
BY ReplySent, NothingStored

LEMMA SayKept ==
  ASSUME Typed, NEW m \in Message, NEW id \in 0..MaxIntakes, NEW used, Say(m, id, used), Keep
  PROVE  Recorded
<1>1. "none" \in Blocks /\ "none" \notin Asks /\ "none" \notin {"details", "show"}
  BY DEF Blocks, Asks
<1>2. Reply(m, id, "none", NoIntent, used)
  BY DEF Say
<1>. QED
  BY <1>1, <1>2, NoIntentTyped, ReplyKept

LEMMA NoIdTyped == NoId \in 0..MaxIntakes
BY Bounds DEF NoId

LEMMA RowChange ==
  ASSUME RowsTyped, NEW id \in Intakes, NEW row \in Row, intakes' = [intakes EXCEPT ![id] = row]
  PROVE  RowsTyped' /\ intakes'[id] = row /\ \A i \in Intakes : i # id => intakes'[i] = intakes[i]
BY DEF RowsTyped

\* A row changes its status alone, to one that waits for nothing.
LEMMA StatusChange ==
  ASSUME RowsTyped, NEW id \in 0..MaxIntakes, NEW status \in RowStatus, status # "awaiting_confirmation",
         intakes' = [intakes EXCEPT ![id].status = status]
  PROVE  /\ RowsTyped' /\ IntentsKept
         /\ \A i \in Intakes : intakes'[i].status = "awaiting_confirmation" => intakes'[i] = intakes[i]
<1>1. CASE id \in Intakes
  <2>. DEFINE row == [intakes[id] EXCEPT !.status = status]
  <2>1. intakes[id] \in Row
    BY <1>1 DEF RowsTyped
  <2>2. row \in Row /\ row.status = status /\ row.intent = intakes[id].intent
    BY <2>1 DEF Row
  <2>3. intakes' = [intakes EXCEPT ![id] = row]
    OBVIOUS
  <2>. HIDE DEF row
  <2>4. RowsTyped' /\ intakes'[id] = row /\ \A i \in Intakes : i # id => intakes'[i] = intakes[i]
    BY <1>1, <2>2, <2>3, RowChange
  <2>. QED
    BY <2>2, <2>4 DEF IntentsKept
<1>2. CASE id \notin Intakes
  <2>1. intakes' = intakes
    BY <1>2 DEF RowsTyped
  <2>. QED
    BY <2>1 DEF RowsTyped, IntentsKept
<1>. QED
  BY <1>1, <1>2

LEMMA StatusRecorded ==
  ASSUME Typed, NEW m \in Message, NEW id \in 0..MaxIntakes, NEW said \in 0..MaxIntakes,
         NEW status \in RowStatus, status # "awaiting_confirmation",
         intakes' = [intakes EXCEPT ![id].status = status],
         Answer(m, said, "none", NoIntent), SentTyped', TasksTyped', UNCHANGED faults
  PROVE  Recorded
<1>1. /\ RowsTyped' /\ IntentsKept /\ FaultsTyped'
      /\ \A i \in Intakes : intakes'[i].status = "awaiting_confirmation" => intakes'[i] = intakes[i]
  BY StatusChange DEF Typed, FaultsTyped
<1>2. "none" \in Blocks /\ "none" \notin Asks
  BY DEF Blocks, Asks
<1>3. PICK e \in Entry : Turned(e) /\ e.block = "none"
  BY <1>2, NoIntentTyped, AnswerTurned
<1>4. Sound(e)
  BY <1>1, <1>2, <1>3 DEF Sound
<1>. QED
  BY <1>1, <1>3, <1>4 DEF Recorded

LEMMA FaultsGrow ==
  ASSUME FaultsTyped, faults < MaxFaults, faults' = faults + 1
  PROVE  FaultsTyped' /\ faults' # 0
BY Bounds DEF FaultsTyped

LEMMA StoreRecorded ==
  ASSUME Typed, NEW m \in Message, NEW id \in 0..MaxIntakes, NEW status \in RowStatus,
         NEW block \in {"confirm", "details"}, NEW intent \in Intent,
         StoreAndSay(m, id, status, block, intent),
         status = "awaiting_confirmation" => block = "confirm",
         block = "details" => DetailsMissing(intent)
  PROVE  Recorded
<1>. DEFINE row == [status |-> status, intent |-> intent]
<1>1. id \in Intakes /\ id # NoId
  BY IdInRow DEF StoreAndSay
<1>2. row \in Row
  BY DEF Row
<1>3. TasksTyped'
  BY DEF StoreAndSay, Typed, TasksTyped
<1>4. PICK how \in Stored :
        /\ intakes' = IF how = "lost" THEN intakes ELSE [intakes EXCEPT ![id] = row]
        /\ faults' = IF how = "stored" THEN faults ELSE faults + 1
        /\ LET shown_block == IF how # "cut" THEN block ELSE IF block = "confirm" THEN "summary" ELSE "none"
           IN  Reply(m, IF how = "lost" THEN NoId ELSE id, shown_block,
                     IF shown_block = "none" THEN NoIntent ELSE intent, "draft_task")
  BY DEF StoreAndSay
<1>. HIDE DEF row
<1>5. /\ RowsTyped'
      /\ how # "lost" => intakes'[id] = row /\ \A i \in Intakes : i # id => intakes'[i] = intakes[i]
  BY <1>1, <1>2, <1>4, RowChange DEF Typed, RowsTyped
<1>6. FaultsTyped' /\ (how # "stored" => faults' # 0)
  <2>1. how # "stored" => faults < MaxFaults
    BY DEF Stored
  <2>2. FaultsTyped
    BY DEF Typed
  <2>. QED
    BY <1>4, <2>1, <2>2, FaultsGrow DEF FaultsTyped
<1>7. how \in {"stored", "lost", "cut"}
  BY DEF Stored
<1>8. row.status = status /\ row.intent = intent
  BY DEF row
<1>9. CASE how = "stored"
  <2>1. Reply(m, id, block, intent, "draft_task") /\ faults' = faults
    BY <1>4, <1>9
  <2>2. SentTyped' /\ Answer(m, id, block, intent)
    BY <2>1, ReplySent
  <2>3. PICK e \in Entry : Turned(e) /\ e.block = block /\ e.intent = intent /\ e.id = id
    BY <1>1, <2>2, AnswerTurned DEF Blocks
  <2>4. Sound(e)
    BY <1>1, <1>5, <1>8, <1>9, <2>1, <2>3 DEF Sound, Asks
  <2>. QED
    BY <1>3, <1>5, <1>6, <2>2, <2>3, <2>4 DEF Recorded
<1>10. CASE how = "lost"
  <2>1. Reply(m, NoId, block, intent, "draft_task") /\ intakes' = intakes
    BY <1>4, <1>10
  <2>2. SentTyped' /\ Answer(m, NoId, block, intent)
    BY <2>1, ReplySent
  <2>3. PICK e \in Entry : Turned(e) /\ e.block = block /\ e.intent = intent
    BY <2>2, NoIdTyped, AnswerTurned DEF Blocks
  <2>4. Sound(e)
    BY <1>6, <1>10, <2>1, <2>3 DEF Sound, Asks
  <2>. QED
    BY <1>3, <1>5, <1>6, <2>2, <2>3, <2>4 DEF Recorded
<1>11. CASE how = "cut"
  <2>. DEFINE shown == IF block = "confirm" THEN "summary" ELSE "none"
              seen == IF shown = "none" THEN NoIntent ELSE intent
  <2>1. Reply(m, id, shown, seen, "draft_task")
    BY <1>4, <1>11
  <2>2. SentTyped' /\ Answer(m, id, shown, seen)
    BY <2>1, ReplySent
  <2>3. shown \in Blocks /\ seen \in Intent
    BY NoIntentTyped DEF Blocks
  <2>4. PICK e \in Entry : Turned(e) /\ e.block = shown /\ e.intent = seen
    BY <2>2, <2>3, AnswerTurned
  <2>5. \A i \in Intakes :
          intakes'[i].status = "awaiting_confirmation" =>
            intakes'[i] = intakes[i] \/ (e.block \in Asks /\ intakes'[i].intent = e.intent)
    BY <1>5, <1>8, <1>11, <2>4 DEF Asks
  <2>6. Sound(e)
    BY <1>6, <1>11, <2>4, <2>5 DEF Sound
  <2>. QED
    BY <1>3, <1>5, <1>6, <2>2, <2>4, <2>6 DEF Recorded
<1>. QED
  BY <1>7, <1>9, <1>10, <1>11

LEMMA ValidateRecorded ==
  ASSUME Typed, NEW m \in Message, NEW intent \in Intent, NEW id \in 0..MaxIntakes,
         ValidateForReply(m, intent, id)
  PROVE  Recorded
<1>. DEFINE outcome == Outcome(intent, on, FALSE)
<1>0. {"awaiting_confirmation", "collecting_slots"} \subseteq RowStatus
  BY DEF RowStatus, ActiveStatuses
<1>1. CASE outcome = "ASK_CONFIRMATION"
  <2>1. StoreAndSay(m, id, "awaiting_confirmation", "confirm", intent)
    BY <1>1 DEF ValidateForReply
  <2>. QED
    BY <1>0, <2>1, StoreRecorded
<1>2. CASE outcome = "ASK_DETAILS"
  <2>1. StoreAndSay(m, id, "collecting_slots", "details", intent)
    BY <1>2 DEF ValidateForReply
  <2>2. DetailsMissing(intent)
    BY <1>2 DEF Outcome
  <2>. QED
    BY <1>0, <2>1, <2>2, StoreRecorded
<1>3. CASE outcome \notin {"ASK_CONFIRMATION", "ASK_DETAILS"}
  <2>1. Say(m, NoId, "chat") /\ Keep
    BY <1>3 DEF ValidateForReply
  <2>. QED
    BY <2>1, NoIdTyped, SayKept
<1>. QED
  BY <1>1, <1>2, <1>3

LEMMA PassOnSent ==
  ASSUME NEW m, NEW used, NEW sent \in Intent, NEW served, PassOn(m, used, sent, served)
  PROVE  SentTyped' /\ Answer(m, NoId, "none", NoIntent)
<1>1. turn'.sent = sent /\ turn'.called = TRUE
  BY DEF PassOn
<1>. QED
  BY <1>1 DEF PassOn, SentTyped

\* A task that is drafted uses something that is enabled.
LEMMA RenderedUses ==
  ASSUME NEW intent \in Intent, on \subseteq Ids, Renders(intent, on)
  PROVE  intent.ids \subseteq Ids /\ intent.ids # {}
<1>1. intent.ids \subseteq Ids /\ intent.cap \in Capabilities
  BY IntentFields
<1>2. CASE intent.cap \in {"digest", "health"}
  BY <1>2, <1>1 DEF Renders, SourcesApproved, ChecksEnabled
<1>3. CASE intent.cap = "n8n"
  <2>1. Cardinality(intent.ids) = 1
    BY <1>3 DEF Renders, WebhookEnabled
  <2>2. intent.ids # {}
    BY <2>1, FS_EmptySet
  <2>. QED
    BY <1>1, <2>2
<1>4. CASE intent.cap \in {"change", "printer"}
  BY <1>4 DEF Renders
<1>. QED
  BY <1>1, <1>2, <1>3, <1>4 DEF Capabilities

LEMMA ForwardTasks ==
  ASSUME Typed, NEW m, NEW intent \in Intent, Forward(m, intent)
  PROVE  TasksTyped' /\ SentTyped' /\ Answer(m, NoId, "none", NoIntent)
<1>1. SentTyped' /\ Answer(m, NoId, "none", NoIntent)
  BY PassOnSent DEF Forward
<1>2. tasks' = TasksAfter(intent, on, tasks)
  BY DEF Forward
<1>3. ASSUME ~CanDraft(intent, on, tasks) PROVE TasksTyped'
  <2>1. tasks' = tasks
    BY <1>2, <1>3 DEF TasksAfter
  <2>. QED
    BY <2>1 DEF Typed, TasksTyped
<1>4. ASSUME CanDraft(intent, on, tasks) PROVE TasksTyped'
  <2>1. intent.ids \subseteq Ids /\ intent.ids # {} /\ intent.task \in Task
    BY <1>4, RenderedUses, IntentFields DEF CanDraft, Typed
  <2>2. tasks' = [t \in DOMAIN tasks \cup {intent.task} |-> IF t = intent.task THEN intent.ids ELSE tasks[t]]
    BY <1>2, <1>4 DEF TasksAfter
  <2>3. /\ DOMAIN tasks' = DOMAIN tasks \cup {intent.task}
        /\ \A t \in DOMAIN tasks' : tasks'[t] = IF t = intent.task THEN intent.ids ELSE tasks[t]
    BY <2>2
  <2>. QED
    BY <2>1, <2>3 DEF Typed, TasksTyped
<1>5. TasksTyped'
  BY <1>3, <1>4
<1>. QED
  BY <1>1, <1>5

LEMMA RowIntent ==
  ASSUME RowsTyped, NEW id \in Intakes
  PROVE  intakes[id].intent \in Intent /\ intakes[id].status \in RowStatus
BY DEF RowsTyped, Row

LEMMA ConfirmRecorded ==
  ASSUME Typed, NEW m \in Message, NEW id \in 0..MaxIntakes, ConfirmIntake(m, id)
  PROVE  Recorded
<1>. DEFINE intent == intakes[id].intent
<1>0. {"failed", "forwarded_to_yggdrasil"} \subseteq RowStatus
  BY DEF RowStatus
<1>1. CASE Say(m, id, "draft_task") /\ Keep
  BY <1>1, SayKept
<1>2. CASE /\ intakes' = [intakes EXCEPT ![id].status = "failed"]
           /\ Say(m, NoId, "draft_task") /\ UNCHANGED <<tasks, faults>>
  <2>1. TasksTyped' /\ UNCHANGED faults
    BY <1>2 DEF Typed, TasksTyped
  <2>2. SentTyped' /\ Answer(m, NoId, "none", NoIntent)
    BY <1>2, ReplySent DEF Say
  <2>. QED
    BY <1>0, <1>2, <2>1, <2>2, NoIdTyped, StatusRecorded
<1>3. CASE /\ Status(id) = "awaiting_confirmation"
           /\ intakes' = [intakes EXCEPT ![id].status = "forwarded_to_yggdrasil"]
           /\ Forward(m, intent) /\ UNCHANGED faults
  <2>1. id \in Intakes
    BY <1>3, IdInRow DEF Status
  <2>2. intent \in Intent
    BY <2>1, RowIntent DEF Typed
  <2>3. TasksTyped' /\ SentTyped' /\ Answer(m, NoId, "none", NoIntent)
    BY <1>3, <2>2, ForwardTasks
  <2>. QED
    BY <1>0, <1>3, <2>3, NoIdTyped, StatusRecorded
<1>. QED
  BY <1>1, <1>2, <1>3 DEF ConfirmIntake

LEMMA SelectRecorded ==
  ASSUME Typed, NEW m \in Message, NEW id \in 0..MaxIntakes, SelectSources(m, id)
  PROVE  Recorded
<1>1. CASE ~Selecting(id) \/ Has(m, "url")
  BY <1>1, SayKept DEF SelectSources
<1>2. CASE ~(~Selecting(id) \/ Has(m, "url"))
  <2>1. PICK chosen \in {{}, Names(m) \cap Source} :
          LET intent == intakes[id].intent
          IN  ValidateForReply(m, IF chosen = {} THEN intent ELSE [intent EXCEPT !.ids = chosen], id)
    BY <1>2 DEF SelectSources
  <2>2. id \in Intakes
    BY <1>2, IdInRow DEF Selecting, Status
  <2>3. intakes[id].intent \in Intent
    BY <2>2, RowIntent DEF Typed
  <2>4. chosen \in SUBSET Ids
    BY <2>1, NamesTyped
  <2>5. [intakes[id].intent EXCEPT !.ids = chosen] \in Intent
    BY <2>3, <2>4, IdsChanged
  <2>. QED
    BY <2>1, <2>3, <2>5, ValidateRecorded
<1>. QED
  BY <1>1, <1>2

\* Only a change of subjects or a digest is offered sources.
LEMMA OfferRecorded ==
  ASSUME Typed, NEW m \in Message, NEW intent \in Intent, OfferSources(m, intent)
  PROVE  Recorded
<1>1. CASE Say(m, NoId, "draft_task") /\ Keep
  BY <1>1, NoIdTyped, SayKept
<1>2. CASE /\ NextId # NoId
           /\ intakes' = [intakes EXCEPT ![NextId] = [status |-> "awaiting_source_selection", intent |-> intent]]
           /\ Say(m, NextId, "draft_task")
           /\ UNCHANGED <<tasks, faults>>
  <2>. DEFINE row == [status |-> "awaiting_source_selection", intent |-> intent]
  <2>1. row \in Row /\ row.status # "awaiting_confirmation"
    BY DEF Row, RowStatus, ActiveStatuses
  <2>2. intakes' = [intakes EXCEPT ![NextId] = row]
    BY <1>2
  <2>. HIDE DEF row
  <2>3. /\ RowsTyped' /\ intakes'[NextId] = row
        /\ \A i \in Intakes : i # NextId => intakes'[i] = intakes[i]
    BY <1>2, <2>1, <2>2, NextIdTyped, RowChange DEF Typed
  <2>4. SentTyped' /\ Answer(m, NextId, "none", NoIntent)
    BY <1>2, ReplySent DEF Say
  <2>5. PICK e \in Entry : Turned(e) /\ e.block = "none" /\ e.id = NextId
    BY <1>2, <2>4, NextIdTyped, NoIntentTyped, AnswerTurned DEF Blocks
  <2>6. Sound(e)
    BY <1>2, <2>1, <2>3, <2>5 DEF Sound, Asks
  <2>7. TasksTyped' /\ FaultsTyped'
    BY <1>2 DEF Typed, TasksTyped, FaultsTyped
  <2>. QED
    BY <2>3, <2>4, <2>5, <2>6, <2>7 DEF Recorded
<1>3. CASE /\ faults < MaxFaults /\ faults' = faults + 1
           /\ Reply(m, NoId, "selection", Change(intent.task, intent.ids, {}, TRUE), "draft_task")
           /\ UNCHANGED <<intakes, tasks>>
  <2>. DEFINE shown == Change(intent.task, intent.ids, {}, TRUE)
  <2>1. shown \in Intent
    BY IntentFields, ChangeTyped
  <2>2. SentTyped' /\ Answer(m, NoId, "selection", shown)
    BY <1>3, ReplySent
  <2>. HIDE DEF shown
  <2>3. PICK e \in Entry : Turned(e) /\ e.block = "selection"
    BY <2>1, <2>2, NoIdTyped, AnswerTurned DEF Blocks
  <2>4. FaultsTyped' /\ faults' # 0
    BY <1>3, FaultsGrow DEF Typed
  <2>5. Sound(e)
    BY <1>3, <2>3, <2>4 DEF Sound
  <2>6. TasksTyped' /\ RowsTyped'
    BY <1>3 DEF Typed, TasksTyped, RowsTyped
  <2>. QED
    BY <2>2, <2>3, <2>4, <2>5, <2>6 DEF Recorded
<1>. QED
  BY <1>1, <1>2, <1>3 DEF OfferSources

LEMMA TargetTyped ==
  ASSUME Typed, NEW m \in Message
  PROVE  Target(m) \in 0..MaxIntakes
BY PendingTyped, MessageId DEF Target, Typed

LEMMA CancelRecorded ==
  ASSUME Typed, NEW m \in Message, CancelIntake(m)
  PROVE  Recorded
<1>1. Target(m) \in 0..MaxIntakes /\ Say(m, Target(m), "draft_task") /\ UNCHANGED <<tasks, faults>>
  BY TargetTyped DEF CancelIntake
<1>2. CASE intakes' = intakes
  BY <1>1, <1>2, SayKept DEF Keep
<1>3. CASE intakes' = [intakes EXCEPT ![Target(m)].status = "cancelled"]
  <2>1. SentTyped' /\ Answer(m, Target(m), "none", NoIntent)
    BY <1>1, ReplySent DEF Say
  <2>2. TasksTyped' /\ UNCHANGED faults
    BY <1>1 DEF Typed, TasksTyped
  <2>3. "cancelled" \in RowStatus
    BY DEF RowStatus
  <2>. QED
    BY <1>1, <1>3, <2>1, <2>2, <2>3, StatusRecorded
<1>. QED
  BY <1>2, <1>3 DEF CancelIntake

LEMMA ListRecorded ==
  ASSUME Typed, NEW m \in Message, ListIntakes(m)
  PROVE  Recorded
<1>1. \A i \in Active : i \in 0..MaxIntakes
  BY Bounds DEF Active, Intakes
<1>2. PICK last : (last = NoId \/ last \in Active) /\ Say(m, last, "draft_task") /\ Keep
  BY DEF ListIntakes
<1>3. last \in 0..MaxIntakes
  BY <1>1, <1>2, NoIdTyped
<1>. QED
  BY <1>2, <1>3, SayKept

LEMMA ShowRecorded ==
  ASSUME Typed, NEW m \in Message, m.id # NoId, ShowIntake(m)
  PROVE  Recorded
<1>1. m.id \in 0..MaxIntakes /\ m.id \in Intakes
  BY MessageId, IdInRow
<1>2. intakes[m.id].intent \in Intent
  BY <1>1, RowIntent DEF Typed
<1>3. "show" \in Blocks /\ "show" \notin Asks
  BY DEF Blocks, Asks
<1>. QED
  BY <1>1, <1>2, <1>3, SayKept, ReplyKept DEF ShowIntake

LEMMA UpdateRecorded ==
  ASSUME Typed, NEW m \in Message, UpdateDetails(m)
  PROVE  Recorded
<1>0. m.id \in 0..MaxIntakes
  BY MessageId
<1>1. CASE Say(m, NoId, "draft_task") /\ Keep
  BY <1>1, NoIdTyped, SayKept
<1>2. CASE SelectSources(m, m.id)
  BY <1>0, <1>2, SelectRecorded
<1>3. CASE Status(m.id) = "collecting_slots" /\ ValidateForReply(m, Merged(intakes[m.id].intent, m), m.id)
  <2>1. m.id \in Intakes
    BY <1>0, <1>3, IdInRow DEF Status
  <2>2. Merged(intakes[m.id].intent, m) \in Intent
    BY <2>1, RowIntent, MergedTyped DEF Typed
  <2>. QED
    BY <1>0, <1>3, <2>2, ValidateRecorded
<1>. QED
  BY <1>1, <1>2, <1>3 DEF UpdateDetails

LEMMA ForwardRecorded ==
  ASSUME Typed, NEW m \in Message, NEW intent \in Intent, Forward(m, intent), UNCHANGED <<intakes, faults>>
  PROVE  Recorded
<1>1. TasksTyped' /\ SentTyped' /\ Answer(m, NoId, "none", NoIntent)
  BY ForwardTasks
<1>2. PICK e \in Entry : Turned(e) /\ e.block = "none"
  BY <1>1, NoIdTyped, NoIntentTyped, AnswerTurned DEF Blocks
<1>3. Sound(e)
  BY <1>2 DEF Sound, Asks, IntentsKept
<1>4. RowsTyped' /\ FaultsTyped'
  BY DEF Typed, RowsTyped, FaultsTyped
<1>. QED
  BY <1>1, <1>2, <1>3, <1>4 DEF Recorded

LEMMA AgreeRecorded ==
  ASSUME Typed, NEW m \in Message, Agree(m)
  PROVE  Recorded
<1>0. PendingIntent \in Intent /\ PendingSelection \in Intent /\ PriorId \in 0..MaxIntakes
  BY PendingTyped DEF Typed
<1>1. CASE SelectSources(m, PriorId)
  BY <1>0, <1>1, SelectRecorded
<1>2. CASE ConfirmIntake(m, PriorId)
  BY <1>0, <1>2, ConfirmRecorded
<1>3. CASE ValidateForReply(m, PendingSelection, NextId)
  BY <1>0, <1>3, NextIdTyped, ValidateRecorded
<1>4. CASE Forward(m, PendingIntent) /\ UNCHANGED <<intakes, faults>>
  BY <1>0, <1>4, ForwardRecorded
<1>5. CASE /\ Outcome(PendingIntent, on, TRUE) = "ASK_DETAILS"
           /\ Reply(m, NoId, "details", PendingIntent, "draft_task") /\ Keep
  <2>1. DetailsMissing(PendingIntent)
    BY <1>5 DEF Outcome
  <2>2. "details" \in Blocks /\ "details" \notin Asks
    BY DEF Blocks, Asks
  <2>. QED
    BY <1>0, <1>5, <2>1, <2>2, NoIdTyped, ReplyKept
<1>6. CASE ValidateForReply(m, DigestIntent(m), NextId)
  BY <1>6, DigestIntentTyped, NextIdTyped, ValidateRecorded
<1>7. CASE \E used : Say(m, NoId, used) /\ Keep
  BY <1>7, NoIdTyped, SayKept
<1>. QED
  BY <1>1, <1>2, <1>3, <1>4, <1>5, <1>6, <1>7 DEF Agree

LEMMA OperateRecorded ==
  ASSUME Typed, NEW m \in Message, Operate(m)
  PROVE  Recorded
<1>1. SentTyped' /\ Answer(m, NoId, "none", NoIntent) /\ Keep
  BY PassOnSent, NoIntentTyped DEF Operate
<1>2. "none" \in Blocks /\ "none" \notin Asks
  BY DEF Blocks, Asks
<1>. QED
  BY <1>1, <1>2, NoIdTyped, NoIntentTyped, NothingStored

LEMMA ProbeTyped ==
  ASSUME NEW m \in Message, Has(m, "diagnose")
  PROVE  Probe(m) \in Message
<1>1. /\ Sentence[m.kind].behind \in Kinds
      /\ "id" \in Sentence[m.kind].traits <=> "id" \in Sentence[Sentence[m.kind].behind].traits
  BY SentenceAssumption, Traits DEF Has
<1>2. Probe(m) = [kind |-> Sentence[m.kind].behind, id |-> m.id]
  BY Traits DEF Probe
<1>. QED
  BY <1>1, <1>2 DEF Message

LEMMA DiagnoseRecorded ==
  ASSUME Typed, NEW m \in Message, Has(m, "diagnose"), Diagnose(m)
  PROVE  Recorded
<1>. DEFINE probe == Probe(m)
<1>1. Candidate(probe) \in Intent
  <2>1. PendingIntent \in Intent
    BY PendingTyped DEF Typed
  <2>2. /\ Merged(PendingIntent, probe) \in Intent /\ DigestIntent(probe) \in Intent
        /\ Built(probe) \in Intent /\ NoIntent \in Intent
    BY <2>1, ProbeTyped, MergedTyped, DigestIntentTyped, BuiltTyped, NoIntentTyped
  <2>. HIDE DEF probe
  <2>3. PICK intent \in Intent : Candidate(probe) = [intent EXCEPT !.words = {}]
    BY <2>1, <2>2 DEF Candidate
  <2>. QED
    BY <2>3, WordsDropped
<1>2. "diagnosis" \in Blocks /\ "diagnosis" \notin Asks
  BY DEF Blocks, Asks
<1>. QED
  BY <1>1, <1>2, NoIdTyped, ReplyKept DEF Diagnose

LEMMA RouteRecorded ==
  ASSUME Typed, NEW m \in Message, NEW rule, Route(m, rule),
         rule = "show" => m.id # NoId, rule = "diagnose" => Has(m, "diagnose")
  PROVE  Recorded
<1>0. /\ PendingIntent \in Intent /\ PriorId \in 0..MaxIntakes /\ m.id \in 0..MaxIntakes
      /\ Target(m) \in 0..MaxIntakes /\ NextId \in 0..MaxIntakes
  BY PendingTyped, MessageId, TargetTyped, NextIdTyped DEF Typed
<1>1. CASE rule = "diagnose" /\ Diagnose(m)
  BY <1>1, DiagnoseRecorded
<1>2. CASE ProposeMemory(m)
  <2>1. "memory" \in Blocks /\ "memory" \notin Asks
    BY DEF Blocks, Asks
  <2>. QED
    BY <1>2, <2>1, NoIdTyped, NoIntentTyped, ReplyKept DEF ProposeMemory
<1>3. CASE UseMemory(m, rule)
  BY <1>3, NoIdTyped, SayKept DEF UseMemory
<1>4. CASE rule = "show" /\ ShowIntake(m)
  BY <1>4, ShowRecorded
<1>5. CASE CancelIntake(m)
  BY <1>5, CancelRecorded
<1>6. CASE ContinueIntake(m) \/ ListIntakes(m)
  BY <1>0, <1>6, SayKept, ListRecorded DEF ContinueIntake
<1>7. CASE SelectSources(m, m.id) \/ SelectSources(m, PriorId)
  BY <1>0, <1>7, SelectRecorded
<1>8. CASE ConfirmIntake(m, Target(m))
  BY <1>0, <1>8, ConfirmRecorded
<1>9. CASE UpdateDetails(m) \/ Agree(m)
  BY <1>9, UpdateRecorded, AgreeRecorded
<1>10. CASE ValidateForReply(m, Merged(PendingIntent, m), NextId)
  BY <1>0, <1>10, MergedTyped, ValidateRecorded
<1>11. CASE OfferSources(m, Draft("digest", "threats", NamedSources(m) \cap on, {}))
  <2>1. "digest" \in Capabilities /\ "threats" \in Task /\ NamedSources(m) \cap on \in SUBSET Ids
    BY DEF Capabilities, Task, Typed
  <2>. QED
    BY <1>11, <2>1, DraftTyped, OfferRecorded
<1>12. CASE ValidateForReply(m, DigestIntent(m), NextId)
  BY <1>0, <1>12, DigestIntentTyped, ValidateRecorded
<1>13. CASE SearchSources(m)
  <2>1. PICK found \in SUBSET (on \cap Source) : OfferSources(m, Change("brief", found, {}, TRUE))
    BY <1>13 DEF SearchSources
  <2>2. "brief" \in Task /\ found \in SUBSET Ids
    BY DEF Task, Typed
  <2>. QED
    BY <2>1, <2>2, ChangeTyped, OfferRecorded
<1>14. CASE Operate(m)
  BY <1>14, OperateRecorded
<1>15. CASE ValidateForReply(m, Built(m), NextId)
  BY <1>0, <1>15, BuiltTyped, ValidateRecorded
<1>16. CASE \E used : Say(m, NoId, used) /\ Keep
  BY <1>16, NoIdTyped, SayKept
<1>. QED
  BY <1>1, <1>2, <1>3, <1>4, <1>5, <1>6, <1>7, <1>8, <1>9, <1>10, <1>11, <1>12, <1>13, <1>14, <1>15, <1>16
     DEF Route

\* The rule that is carried out holds: an intake is shown to a message that names
\* one, and what is diagnosed is a sentence behind "diagnose route:".
LEMMA ConverseRecorded ==
  ASSUME Typed, NEW m \in Message, Converse(m)
  PROVE  Recorded
<1>1. CASE Say(m, NoId, "none") /\ Keep
  BY <1>1, NoIdTyped, SayKept
<1>2. CASE Route(m, Routed(m))
  <2>1. /\ Routed(m) = "show" => m.id # NoId
        /\ Routed(m) = "diagnose" => Has(m, "diagnose")
    BY RoutedTo, Meaning
  <2>. QED
    BY <1>2, <2>1, RouteRecorded
<1>. QED
  BY <1>1, <1>2 DEF Converse

-----------------------------------------------------------------------------
(* What the history says is so *)

\* A question that nothing has hidden is that of the row the history names.
Remembered ==
  /\ \A k \in DOMAIN history :
       /\ history[k].block = "details" => DetailsMissing(history[k].intent)
       /\ history[k].block = "show" => history[k].id # NoId
       /\ history[k].block \in Asks => history[k].intent \in asked
       /\ history[k].block \in Asks /\ faults = 0
            /\ (\A j \in DOMAIN history : j > k => history[j].id = NoId)
          => history[k].id # NoId /\ intakes[history[k].id].intent = history[k].intent
  /\ \A i \in Intakes : intakes[i].status = "awaiting_confirmation" => intakes[i].intent \in asked

LEMMA TurnRemembered ==
  ASSUME Typed, Remembered, NEW e \in Entry, history' = LastTurns(Append(history, e)), Sound(e), FaultsTyped',
         e.block \in Asks => e.intent \in asked',
         \A k \in DOMAIN history' : history'[k].intent \in asked => history'[k].intent \in asked',
         \A i \in Intakes : intakes[i].intent \in asked => intakes[i].intent \in asked'
  PROVE  Remembered'
<1>. DEFINE n == Len(history')
            old == Len(history)
<1>1. PICK gone \in 0..1 : /\ gone <= old /\ n = old + 1 - gone
                           /\ \A k \in 1..(old - gone) : history'[k] = history[k + gone]
  BY WindowMoves DEF Typed
<1>2. /\ history'[n] = e /\ old \in Nat /\ DOMAIN history = 1..old /\ DOMAIN history' = 1..n
      /\ \A k \in 1..old : history[k] \in Entry
  BY WindowMoves, Places DEF Typed, HistoryTyped
<1>3. ASSUME NEW i \in Intakes, intakes'[i].status = "awaiting_confirmation"
      PROVE  intakes'[i].intent \in asked'
  <2>1. CASE intakes'[i] = intakes[i]
    BY <1>3, <2>1 DEF Remembered
  <2>2. CASE e.block \in Asks /\ intakes'[i].intent = e.intent
    BY <2>2
  <2>. QED
    BY <1>3, <2>1, <2>2 DEF Sound
<1>4. ASSUME NEW k \in DOMAIN history'
      PROVE  /\ history'[k].block = "details" => DetailsMissing(history'[k].intent)
             /\ history'[k].block = "show" => history'[k].id # NoId
             /\ history'[k].block \in Asks => history'[k].intent \in asked'
             /\ history'[k].block \in Asks /\ faults' = 0
                  /\ (\A j \in DOMAIN history' : j > k => history'[j].id = NoId)
                => history'[k].id # NoId /\ intakes'[history'[k].id].intent = history'[k].intent
  <2>1. CASE k = n
    BY <1>2, <2>1 DEF Sound
  <2>2. CASE k # n
    <3>1. k \in 1..(old - gone) /\ k + gone \in 1..old /\ n > k /\ n \in 1..n
      BY <1>1, <1>2, <2>2
    <3>2. history'[k] = history[k + gone] /\ k + gone \in DOMAIN history
      BY <1>1, <1>2, <3>1
    <3>3. /\ history'[k].block = "details" => DetailsMissing(history'[k].intent)
          /\ history'[k].block = "show" => history'[k].id # NoId
          /\ history'[k].block \in Asks => history'[k].intent \in asked'
      BY <3>2 DEF Remembered
    <3>4. ASSUME history'[k].block \in Asks, faults' = 0,
                 \A j \in DOMAIN history' : j > k => history'[j].id = NoId
          PROVE  history'[k].id # NoId /\ intakes'[history'[k].id].intent = history'[k].intent
      <4>1. e.id = NoId
        BY <1>2, <3>1, <3>4
      <4>2. faults = 0 /\ IntentsKept
        BY <3>4, <4>1 DEF Sound
      <4>3. ASSUME NEW j \in DOMAIN history, j > k + gone PROVE history[j].id = NoId
        <5>1. j - gone \in 1..(old - gone) /\ j - gone \in 1..n /\ j - gone > k /\ (j - gone) + gone = j
          BY <1>1, <1>2, <3>1, <4>3
        <5>. QED
          BY <1>1, <1>2, <3>4, <5>1
      <4>4. history[k + gone].id # NoId /\ intakes[history[k + gone].id].intent = history[k + gone].intent
        BY <3>2, <3>4, <4>2, <4>3 DEF Remembered
      <4>5. history[k + gone].id \in Intakes
        BY <1>2, <3>1, <4>4, IdInRow DEF Entry
      <4>. QED
        BY <3>2, <4>2, <4>4, <4>5 DEF IntentsKept
    <3>. QED
      BY <3>3, <3>4
  <2>. QED
    BY <2>1, <2>2
<1>. QED
  BY <1>3, <1>4 DEF Remembered

LEMMA RecordedRemembered ==
  ASSUME Typed, Remembered, Recorded
  PROVE  Remembered'
<1>1. PICK e \in Entry : Turned(e) /\ Sound(e)
  BY DEF Recorded
<1>2. /\ history' = LastTurns(Append(history, e)) /\ FaultsTyped'
      /\ e.block \in Asks => e.intent \in asked'
      /\ \A k \in DOMAIN history' : history'[k].intent \in asked => history'[k].intent \in asked'
      /\ \A i \in Intakes : intakes[i].intent \in asked => intakes[i].intent \in asked'
  BY <1>1 DEF Turned, Recorded
<1>. QED
  BY <1>1, <1>2, TurnRemembered

LEMMA RemindRemembered ==
  ASSUME Typed, Remembered, NEW i \in Intakes, Remind(i)
  PROVE  Remembered' /\ HistoryTyped'
<1>. DEFINE e == [Blank EXCEPT !.id = i]
<1>1. e \in Entry /\ e.id = i /\ e.block = "none"
  <2>1. i \in 0..MaxIntakes
    BY Bounds DEF Intakes
  <2>. QED
    BY <2>1, BlankTyped DEF Entry, Blank
<1>2. history' = LastTurns(Append(history, e)) /\ UNCHANGED <<intakes, asked, faults>>
  BY DEF Remind
<1>. HIDE DEF e
<1>3. Sound(e) /\ FaultsTyped'
  BY <1>1, <1>2 DEF Sound, Asks, IntentsKept, Typed, FaultsTyped
<1>4. e.block \notin Asks
  BY <1>1 DEF Asks
<1>5. HistoryTyped'
  BY <1>1, <1>2, WindowMoves DEF Typed
<1>6. Remembered'
  BY <1>1, <1>2, <1>3, <1>4, TurnRemembered
<1>. QED
  BY <1>5, <1>6

LEMMA CloseRemembered ==
  ASSUME Typed, Remembered, NEW i \in Intakes, Close(i)
  PROVE  Remembered' /\ RowsTyped'
<1>1. i \in 0..MaxIntakes /\ "expired" \in RowStatus
  BY Bounds DEF Intakes, RowStatus
<1>2. /\ intakes' = [intakes EXCEPT ![i].status = "expired"]
      /\ UNCHANGED <<history, asked, faults>>
  BY DEF Close
<1>3. /\ RowsTyped' /\ IntentsKept
      /\ \A j \in Intakes : intakes'[j].status = "awaiting_confirmation" => intakes'[j] = intakes[j]
  BY <1>1, <1>2, StatusChange DEF Typed
<1>4. \A k \in DOMAIN history :
        history[k].id # NoId => intakes'[history[k].id].intent = intakes[history[k].id].intent
  <2>1. \A k \in DOMAIN history : history[k].id \in 0..MaxIntakes
    BY Places DEF Typed, Entry
  <2>. QED
    BY <1>3, <2>1, IdInRow DEF IntentsKept
<1>5. Remembered'
  <2>1. \A j \in Intakes : intakes'[j].status = "awaiting_confirmation" => intakes'[j].intent \in asked'
    BY <1>2, <1>3 DEF Remembered
  <2>2. ASSUME NEW k \in DOMAIN history', history'[k].block \in Asks, faults' = 0,
               \A j \in DOMAIN history' : j > k => history'[j].id = NoId
        PROVE  history'[k].id # NoId /\ intakes'[history'[k].id].intent = history'[k].intent
    <3>1. history[k].id # NoId /\ intakes[history[k].id].intent = history[k].intent
      BY <1>2, <2>2 DEF Remembered
    <3>. QED
      BY <1>2, <1>4, <2>2, <3>1
  <2>3. \A k \in DOMAIN history' :
          /\ history'[k].block = "details" => DetailsMissing(history'[k].intent)
          /\ history'[k].block = "show" => history'[k].id # NoId
          /\ history'[k].block \in Asks => history'[k].intent \in asked'
    BY <1>2 DEF Remembered
  <2>. QED
    BY <2>1, <2>2, <2>3 DEF Remembered
<1>. QED
  BY <1>3, <1>5

-----------------------------------------------------------------------------
(* What is passed on *)

Truthful == AskedBeforeForwarded /\ ConfirmedLastAsked /\ ForwardedFlagged

\* What was asked last, and nothing named since, is the intent of the intake that
\* the text names last.
LEMMA LastAskedIs ==
  ASSUME Typed, Remembered, faults = 0, LastAsked # NoIntent
  PROVE  PriorId # NoId /\ intakes[PriorId].intent = LastAsked
<1>. DEFINE asks == {k \in DOMAIN history : history[k].block \in {"confirm", "summary"}}
<1>1. /\ LastAsked = IF asks = {} \/ \E k \in DOMAIN history : k > Max(asks) /\ history[k].id # NoId
                     THEN NoIntent ELSE history[Max(asks)].intent
  BY DEF LastAsked
<1>2. asks # {} /\ \A k \in DOMAIN history : k > Max(asks) => history[k].id = NoId
  BY <1>1
<1>3. Max(asks) \in asks
  <2>1. asks \in SUBSET DOMAIN history
    OBVIOUS
  <2>. QED
    BY <1>2, <2>1, Newest DEF Typed
<1>4. PICK last \in DOMAIN history : last = Max(asks) /\ history[last].block \in Asks
  BY <1>3 DEF Asks
<1>5. history[last].id # NoId /\ intakes[history[last].id].intent = history[last].intent
  BY <1>2, <1>4 DEF Remembered
<1>6. PICK k \in DOMAIN history : /\ PriorId = history[k].id /\ history[k].id # NoId
                                  /\ \A j \in DOMAIN history : j > k => history[j].id = NoId
  BY <1>5, PriorIdIs DEF Typed
<1>7. k = last
  <2>1. k \in Nat /\ last \in Nat
    BY Places DEF Typed
  <2>2. ~(k > last) /\ ~(last > k)
    BY <1>2, <1>4, <1>5, <1>6
  <2>. QED
    BY <2>1, <2>2
<1>. QED
  BY <1>1, <1>2, <1>4, <1>5, <1>6, <1>7

LEMMA NotCalled ==
  ASSUME turn'.sent = NoIntent, ~turn'.called
  PROVE  Truthful'
BY DEF Truthful, AskedBeforeForwarded, ConfirmedLastAsked, ForwardedFlagged

LEMMA ReplyTruthful ==
  ASSUME NEW m, NEW id, NEW block, NEW intent, NEW used, Reply(m, id, block, intent, used)
  PROVE  Truthful'
<1>1. turn'.sent = NoIntent /\ ~turn'.called
  BY DEF Reply, QuietTurn, NoTurn
<1>. QED
  BY <1>1, NotCalled

LEMMA SayTruthful ==
  ASSUME NEW m, NEW id, NEW used, Say(m, id, used)
  PROVE  Truthful'
BY ReplyTruthful DEF Say

LEMMA StoreTruthful ==
  ASSUME NEW m, NEW id, NEW status, NEW block, NEW intent, StoreAndSay(m, id, status, block, intent)
  PROVE  Truthful'
<1>1. \E shownId, shownBlock, shownIntent : Reply(m, shownId, shownBlock, shownIntent, "draft_task")
  BY DEF StoreAndSay
<1>. QED
  BY <1>1, ReplyTruthful

LEMMA ValidateTruthful ==
  ASSUME NEW m, NEW intent, NEW id, ValidateForReply(m, intent, id)
  PROVE  Truthful'
BY StoreTruthful, SayTruthful DEF ValidateForReply

LEMMA SelectTruthful ==
  ASSUME NEW m, NEW id, SelectSources(m, id)
  PROVE  Truthful'
<1>1. Say(m, id, "draft_task") \/ \E intent : ValidateForReply(m, intent, id)
  BY DEF SelectSources
<1>. QED
  BY <1>1, SayTruthful, ValidateTruthful

LEMMA OfferTruthful ==
  ASSUME NEW m, NEW intent, OfferSources(m, intent)
  PROVE  Truthful'
BY SayTruthful, ReplyTruthful DEF OfferSources

LEMMA ForwardTurn ==
  ASSUME NEW m, NEW intent, Forward(m, intent)
  PROVE  /\ turn'.sent = intent /\ turn'.flagged = FlaggedForwarded(m) /\ turn'.was_asked = (intent \in asked)
         /\ turn'.last_asked = LastAsked /\ (m.id # NoId => turn'.about)
         /\ turn'.diagnosed = (Latest(WithIntent).block = "diagnosis")
BY DEF Forward, PassOn, AboutIntake

\* The intake that is confirmed is the one the message names or the last one
\* that the text names.
LEMMA ConfirmTruthful ==
  ASSUME Typed, Remembered, NEW m \in Message, NEW id \in 0..MaxIntakes, ConfirmIntake(m, id),
         FlaggedForwarded(m), m.id # NoId \/ id = PriorId
  PROVE  Truthful'
<1>. DEFINE intent == intakes[id].intent
<1>1. CASE Say(m, id, "draft_task") \/ Say(m, NoId, "draft_task")
  BY <1>1, SayTruthful
<1>2. CASE Status(id) = "awaiting_confirmation" /\ Forward(m, intent) /\ UNCHANGED faults
  <2>1. id \in Intakes /\ intakes[id].status = "awaiting_confirmation"
    BY <1>2, IdInRow DEF Status
  <2>2. intent \in asked
    BY <2>1 DEF Remembered
  <2>3. /\ turn'.sent = intent /\ turn'.flagged = FlaggedForwarded(m) /\ turn'.was_asked = (intent \in asked)
        /\ turn'.last_asked = LastAsked /\ (m.id # NoId => turn'.about)
    BY <1>2, ForwardTurn
  <2>4. AskedBeforeForwarded'
    BY <2>2, <2>3 DEF AskedBeforeForwarded
  <2>5. ForwardedFlagged'
    BY <2>3 DEF ForwardedFlagged
  <2>6. ASSUME LastAsked # NoIntent, m.id = NoId, ~(faults > 0) PROVE LastAsked = intent
    <3>1. faults = 0
      BY <2>6, Bounds DEF Typed, FaultsTyped
    <3>. QED
      BY <2>6, <3>1, LastAskedIs
  <2>7. ConfirmedLastAsked'
    BY <1>2, <2>3, <2>6 DEF ConfirmedLastAsked
  <2>. QED
    BY <2>4, <2>5, <2>7 DEF Truthful
<1>. QED
  BY <1>1, <1>2 DEF ConfirmIntake

\* An intent read off the text counts when the text names no intake: then it was
\* asked for in a reply that lost its id, or is that of a diagnosis.
LEMMA PendingTruthful ==
  ASSUME Typed, Remembered, NEW m \in Message, PriorId = NoId, PendingIntent # NoIntent,
         PendingSelection = NoIntent, Outcome(PendingIntent, on, TRUE) = "ACCEPT",
         Forward(m, PendingIntent), UNCHANGED faults
  PROVE  Truthful'
<1>1. PICK k \in DOMAIN history : k \in WithIntent /\ Latest(WithIntent) = history[k]
  BY PendingIntentIs DEF Typed, WithIntent
<1>2. PendingIntent = history[k].intent /\ history[k].id = NoId
  BY <1>1, PriorIdIs DEF PendingIntent, Typed
<1>3. ~DetailsMissing(PendingIntent)
  BY DEF Outcome
<1>4. history[k].block = "diagnosis" \/ (history[k].block = "confirm" /\ PendingIntent \in asked)
  BY <1>1, <1>2, <1>3 DEF WithIntent, Remembered, Asks
<1>5. history[k].block = "confirm" => faults > 0
  <2>1. ASSUME history[k].block = "confirm" PROVE faults # 0
    BY <1>2, <2>1, PriorIdIs DEF Remembered, Asks, Typed
  <2>2. faults \in Nat
    BY Bounds DEF Typed, FaultsTyped
  <2>. QED
    BY <2>1, <2>2
<1>6. /\ turn'.sent = PendingIntent /\ turn'.was_asked = (PendingIntent \in asked)
      /\ turn'.diagnosed = (history[k].block = "diagnosis")
  BY <1>1, ForwardTurn
<1>. QED
  BY <1>4, <1>5, <1>6 DEF Truthful, AskedBeforeForwarded, ConfirmedLastAsked, ForwardedFlagged

\* The confirmation of an intake is diagnosed as one.
LEMMA ConfirmFlagged ==
  ASSUME NEW m \in Message, Routed(m) = "confirm_known"
  PROVE  FlaggedForwarded(m)
<1>1. /\ ~Has(m, "save") /\ ~Has(m, "remember") /\ ~Has(m, "forget") /\ ~Has(m, "recall") /\ Has(m, "confirm")
      /\ ~When("select_prior", m) /\ DiagnosedOrder[10] = "confirm" /\ When("confirm", m)
  BY RoutedTo, Meaning DEF First5, First10, DiagnosedOrder
<1>2. ~When("resume", m) /\ ~When("delete", m) /\ ~When("list", m)
  BY RoutedTo DEF First5, First10
<1>3. PICK k \in 1..10 : Diagnosed(m) = DiagnosedOrder[k] /\ Decides(DiagnosedOrder, k, m)
  <2>1. 10 \in 1..23 /\ When(DiagnosedOrder[10], m)
    BY <1>1
  <2>. QED
    BY <2>1, DiagnosedAt
<1>4. k \in 1..23 /\ When(Diagnosed(m), m)
  BY <1>3 DEF Decides
<1>5. k \notin {1, 2, 3, 4} /\ k \notin {5, 6, 7, 8, 9}
  BY <1>1, <1>2, <1>3, <1>4, DiagnosedPlaces, Meaning
<1>6. Diagnosed(m) = "confirm"
  BY <1>1, <1>3, <1>4, <1>5
<1>. QED
  BY <1>6 DEF FlaggedForwarded, ForwardsBy

LEMMA AgreeTruthful ==
  ASSUME Typed, Remembered, NEW m \in Message, Routed(m) = "yes", Agree(m)
  PROVE  Truthful'
<1>0. Diagnosed(m) = "yes" /\ PriorId \in 0..MaxIntakes
  BY GateYes, PendingTyped DEF Typed
<1>1. CASE SelectSources(m, PriorId)
  BY <1>1, SelectTruthful
<1>2. CASE PriorId # NoId /\ PendingSelection = NoIntent /\ ConfirmIntake(m, PriorId)
  <2>1. FlaggedForwarded(m)
    BY <1>0, <1>2 DEF FlaggedForwarded, ForwardsBy, YesRoute
  <2>. QED
    BY <1>0, <1>2, <2>1, ConfirmTruthful
<1>3. CASE \E intent : ValidateForReply(m, intent, NextId)
  BY <1>3, ValidateTruthful
<1>4. CASE /\ PriorId = NoId /\ PendingSelection = NoIntent /\ PendingIntent # NoIntent
           /\ Outcome(PendingIntent, on, TRUE) = "ACCEPT"
           /\ Forward(m, PendingIntent) /\ UNCHANGED <<intakes, faults>>
  BY <1>4, PendingTruthful
<1>5. CASE \E block, intent : Reply(m, NoId, block, intent, "draft_task")
  BY <1>5, ReplyTruthful
<1>6. CASE \E used : Say(m, NoId, used)
  BY <1>6, SayTruthful
<1>. QED
  BY <1>1, <1>2, <1>3, <1>4, <1>5, <1>6 DEF Agree

\* An operation is diagnosed as one, or the gate took the message for one about an
\* intake.
LEMMA OperateTruthful ==
  ASSUME NEW m \in Message, Routed(m) = "operation", Operate(m)
  PROVE  Truthful'
<1>1. /\ turn'.sent = NoIntent /\ turn'.flagged = FlaggedForwarded(m)
      /\ turn'.ungated = Ungated(m, OperationCapability(m))
  BY DEF Operate, PassOn
<1>2. CASE ~AboutIntake(m)
  <2>1. FlaggedForwarded(m)
    BY <1>2, GateOthers DEF FlaggedForwarded, ForwardsBy
  <2>. QED
    BY <1>1, <2>1 DEF Truthful, AskedBeforeForwarded, ConfirmedLastAsked, ForwardedFlagged
<1>3. CASE AboutIntake(m)
  <2>1. RequiredCapability(m) = "draft_task"
    BY <1>3, GateOthers
  <2>2. OperationCapability(m) \in {"run_l1", "pause_l1", "task_read"}
    BY Traits, RoutedTo, Meaning
  <2>3. turn'.ungated # "none"
    BY <1>1, <2>1, <2>2 DEF Ungated
  <2>. QED
    BY <1>1, <2>3 DEF Truthful, AskedBeforeForwarded, ConfirmedLastAsked, ForwardedFlagged
<1>. QED
  BY <1>2, <1>3

LEMMA RouteTruthful ==
  ASSUME Typed, Remembered, NEW m \in Message, Route(m, Routed(m))
  PROVE  Truthful'
<1>. DEFINE r == Routed(m)
<1>1. CASE r = "confirm_known"
  <2>1. Target(m) \in 0..MaxIntakes /\ (m.id # NoId \/ Target(m) = PriorId)
    BY TargetTyped DEF Target
  <2>. QED
    BY <1>1, <2>1, ConfirmFlagged, ConfirmTruthful DEF Route
<1>2. CASE r = "yes"
  BY <1>2, AgreeTruthful DEF Route
<1>3. CASE r = "operation"
  BY <1>3, OperateTruthful DEF Route
<1>4. CASE r \notin {"confirm_known", "yes", "operation"}
  <2>1. CASE Diagnose(m) \/ ProposeMemory(m)
    BY <2>1, ReplyTruthful DEF Diagnose, ProposeMemory
  <2>2. CASE UseMemory(m, r)
    BY <2>2, SayTruthful DEF UseMemory
  <2>3. CASE ShowIntake(m) \/ CancelIntake(m)
    BY <2>3, SayTruthful, ReplyTruthful DEF ShowIntake, CancelIntake
  <2>4. CASE ContinueIntake(m) \/ ListIntakes(m)
    BY <2>4, SayTruthful DEF ContinueIntake, ListIntakes
  <2>5. CASE \E id : SelectSources(m, id)
    BY <2>5, SelectTruthful
  <2>6. CASE UpdateDetails(m)
    BY <2>6, SayTruthful, SelectTruthful, ValidateTruthful DEF UpdateDetails
  <2>7. CASE \E intent : ValidateForReply(m, intent, NextId)
    BY <2>7, ValidateTruthful
  <2>8. CASE \E intent : OfferSources(m, intent)
    BY <2>8, OfferTruthful
  <2>9. CASE SearchSources(m)
    BY <2>9, OfferTruthful DEF SearchSources
  <2>10. CASE \E used : Say(m, NoId, used)
    BY <2>10, SayTruthful
  <2>. QED
    BY <1>4, <2>1, <2>2, <2>3, <2>4, <2>5, <2>6, <2>7, <2>8, <2>9, <2>10 DEF Route
<1>. QED
  BY <1>1, <1>2, <1>3, <1>4

-----------------------------------------------------------------------------
(* Theorems *)

LEMMA TypeOKIs ==
  TypeOK <=> Typed /\ SentTyped /\ asked \subseteq Intent /\ edits \in 0..MaxEdits
BY DEF TypeOK, Typed, HistoryTyped, RowsTyped, Row, RowStatus, TasksTyped, FaultsTyped, SentTyped

LEMMA RecordedTyped ==
  ASSUME TypeOK, Recorded, UNCHANGED <<on, edits>>
  PROVE  TypeOK'
<1>1. PICK e \in Entry : Turned(e)
  BY DEF Recorded
<1>2. HistoryTyped'
  BY <1>1, WindowMoves, TypeOKIs DEF Turned, Typed
<1>3. asked' \subseteq Intent
  BY <1>1, TypeOKIs DEF Turned, Entry
<1>4. (on \subseteq Ids)' /\ (edits \in 0..MaxEdits)'
  BY TypeOKIs DEF Typed
<1>5. (Typed /\ SentTyped /\ asked \subseteq Intent /\ edits \in 0..MaxEdits)'
  BY <1>2, <1>3, <1>4 DEF Recorded, Typed
<1>. QED
  BY <1>5, TypeOKIs, PTL

\* What the history tells Bragi is right, and what it passes on was asked for.
HistoryInvariant == TypeOK /\ Remembered /\ Truthful

\* The intent Bragi reads off the history, or off the intake it finds there, is
\* one that the user was asked to confirm (pending_intent_from_prior,
\* pending_intake_id_from_prior, route_chat).
THEOREM HistoryInvariantHolds == Spec => []HistoryInvariant
<1>1. Init => HistoryInvariant
  <2>. SUFFICES ASSUME Init PROVE HistoryInvariant
    OBVIOUS
  <2>1. HistoryTyped /\ history = <<>>
    BY Bounds DEF Init, HistoryTyped
  <2>2. RowsTyped /\ \A i \in Intakes : intakes[i].status = "none"
    BY NoIntentTyped DEF Init, RowsTyped, Row, RowStatus
  <2>3. TasksTyped /\ on \subseteq Ids
    BY ConversationAssumption DEF Init, TasksTyped, Task, Ids
  <2>4. FaultsTyped /\ edits \in 0..MaxEdits /\ asked \subseteq Intent /\ faults = 0
    BY Bounds DEF Init, FaultsTyped
  <2>5. turn.sent = NoIntent /\ ~turn.called
    BY DEF Init, NoTurn
  <2>6. SentTyped
    BY <2>5, NoIntentTyped DEF SentTyped
  <2>7. TypeOK
    BY <2>1, <2>2, <2>3, <2>4, <2>6, TypeOKIs DEF Typed
  <2>8. Remembered
    BY <2>1, <2>2 DEF Remembered
  <2>9. Truthful
    BY <2>5 DEF Truthful, AskedBeforeForwarded, ConfirmedLastAsked, ForwardedFlagged
  <2>. QED
    BY <2>7, <2>8, <2>9 DEF HistoryInvariant
<1>2. HistoryInvariant /\ [Next]_vars => HistoryInvariant'
  <2>. SUFFICES ASSUME HistoryInvariant, [Next]_vars PROVE HistoryInvariant'
    OBVIOUS
  <2>0. TypeOK /\ Remembered /\ Typed /\ SentTyped /\ asked \subseteq Intent /\ edits \in 0..MaxEdits
    BY TypeOKIs DEF HistoryInvariant
  <2>1. ASSUME NEW m \in Message, Converse(m), UNCHANGED <<on, edits>> PROVE HistoryInvariant'
    <3>1. Recorded
      BY <2>0, <2>1, ConverseRecorded
    <3>2. TypeOK' /\ Remembered'
      BY <2>0, <2>1, <3>1, RecordedTyped, RecordedRemembered
    <3>3. Truthful'
      BY <2>0, <2>1, SayTruthful, RouteTruthful DEF Converse
    <3>. QED
      BY <3>2, <3>3 DEF HistoryInvariant
  <2>2. ASSUME turn' = NoTurn PROVE SentTyped' /\ Truthful'
    <3>1. turn'.sent = NoIntent /\ ~turn'.called
      BY <2>2 DEF NoTurn
    <3>. QED
      BY <3>1, NoIntentTyped, NotCalled DEF SentTyped
  <2>3. ASSUME NEW i \in Intakes, Remind(i) PROVE HistoryInvariant'
    <3>1. SentTyped' /\ Truthful' /\ Remembered' /\ HistoryTyped'
      BY <2>0, <2>2, <2>3, RemindRemembered DEF Remind
    <3>2. (Typed /\ SentTyped /\ asked \subseteq Intent /\ edits \in 0..MaxEdits)'
      BY <2>0, <2>3, <3>1 DEF Remind, Typed, RowsTyped, TasksTyped, FaultsTyped
    <3>3. TypeOK'
      BY <3>2, TypeOKIs, PTL
    <3>. QED
      BY <3>1, <3>3 DEF HistoryInvariant
  <2>4. ASSUME NEW i \in Intakes, Close(i) PROVE HistoryInvariant'
    <3>1. SentTyped' /\ Truthful' /\ Remembered' /\ RowsTyped'
      BY <2>0, <2>2, <2>4, CloseRemembered DEF Close
    <3>2. (Typed /\ SentTyped /\ asked \subseteq Intent /\ edits \in 0..MaxEdits)'
      BY <2>0, <2>4, <3>1 DEF Close, Typed, HistoryTyped, TasksTyped, FaultsTyped
    <3>3. TypeOK'
      BY <3>2, TypeOKIs, PTL
    <3>. QED
      BY <3>1, <3>3 DEF HistoryInvariant
  <2>5. ASSUME NEW x \in Ids, Toggle(x) PROVE HistoryInvariant'
    <3>1. SentTyped' /\ Truthful'
      BY <2>2, <2>5 DEF Toggle
    <3>2. on' \subseteq Ids /\ edits' \in 0..MaxEdits
      BY <2>0, <2>5, Bounds DEF Toggle, Typed
    <3>3. (Typed /\ SentTyped /\ asked \subseteq Intent /\ edits \in 0..MaxEdits)'
      BY <2>0, <2>5, <3>1, <3>2 DEF Toggle, Typed, HistoryTyped, RowsTyped, TasksTyped, FaultsTyped
    <3>4. TypeOK'
      BY <3>3, TypeOKIs, PTL
    <3>5. Remembered'
      BY <2>0, <2>5 DEF Toggle, Remembered
    <3>. QED
      BY <3>1, <3>4, <3>5 DEF HistoryInvariant
  <2>6. ASSUME UNCHANGED vars PROVE HistoryInvariant'
    <3>1. (Typed /\ SentTyped /\ asked \subseteq Intent /\ edits \in 0..MaxEdits)'
      BY <2>0, <2>6 DEF vars, Typed, HistoryTyped, RowsTyped, TasksTyped, FaultsTyped, SentTyped
    <3>2. TypeOK'
      BY <3>1, TypeOKIs, PTL
    <3>3. Remembered'
      BY <2>0, <2>6 DEF vars, Remembered
    <3>4. Truthful'
      BY <2>6 DEF vars, HistoryInvariant, Truthful, AskedBeforeForwarded, ConfirmedLastAsked, ForwardedFlagged
    <3>. QED
      BY <3>2, <3>3, <3>4 DEF HistoryInvariant
  <2>. QED
    BY <2>1, <2>3, <2>4, <2>5, <2>6 DEF Next
<1>. QED
  BY <1>1, <1>2, PTL DEF Spec

\* Every variable keeps its type.
THEOREM ConversationTyped == Spec => []TypeOK
<1>1. HistoryInvariant => TypeOK
  BY DEF HistoryInvariant
<1>. QED
  BY <1>1, HistoryInvariantHolds, PTL

\* Nothing reaches Yggdrasil that the user was not asked to confirm, whichever
\* way it was confirmed (confirm_intake_response, route_chat).
THEOREM ForwardedWasAsked == Spec => []AskedBeforeForwarded
<1>1. HistoryInvariant => AskedBeforeForwarded
  BY DEF HistoryInvariant, Truthful
<1>. QED
  BY <1>1, HistoryInvariantHolds, PTL

\* A "yes" confirms what was asked last (pending_intake_id_from_prior).
THEOREM YesConfirmsTheLast == Spec => []ConfirmedLastAsked
<1>1. HistoryInvariant => ConfirmedLastAsked
  BY DEF HistoryInvariant, Truthful
<1>. QED
  BY <1>1, HistoryInvariantHolds, PTL

\* The audit record of a message says whether Yggdrasil is called
\* (diagnose_route, route_chat).
THEOREM ForwardedIsFlagged == Spec => []ForwardedFlagged
<1>1. HistoryInvariant => ForwardedFlagged
  BY DEF HistoryInvariant, Truthful
<1>. QED
  BY <1>1, HistoryInvariantHolds, PTL

=============================================================================
