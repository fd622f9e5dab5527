# A formal model of Yggy

Yggy automates local chores: a person talks to Bragi or to a dashboard, tasks
are drafted, reviewed and enabled through an automation API, and a worker runs
them on a schedule and reports to Discord.  This directory holds TLA+ modules
of the system, model-checking runs, and machine-checked proofs.

## The system

| Part | State it keeps | Operations | How it interacts |
|---|---|---|---|
| Run lifecycle (`automation-api/app/routers/tasks.py`, `runs.py`, `maintenance.py`, `services/run_state_service.py`, `retention_service.py`) | table `runs`: status, log with lease, created and completed times | queue, claim, report, recover stale, delete old | called by people, tools, the dashboard and the worker; handlers run concurrently in FastAPI's thread pool, one database session each |
| Worker (`automation-worker/worker`) | two interval timestamps in memory | poll: recover, retain, list tasks, execute queued runs, execute due tasks; per run: handler, notification decision, sends, report | HTTP calls to the API, one transaction each; handlers call feeds, services, printers, n8n, the file system |
| Discord delivery (`services/discord_service.py`) | none | send to a target in chunks | called by the worker through the API |
| Task governance (`routers/tasks.py`, `approvals.py`, `task_change_proposals.py`, `ops.py`, `services/task_*`, `approval_service.py`) | tables `tasks`, `approvals`, `task_config_versions`, `task_change_proposals` | draft, update, request approval, approve, reject, pause, resume, archive, revert, propose, apply | people and tools; the worker reads `enabled` |
| Source and capability proposals | their tables | propose, approve, reject, apply; plan states | Bragi proposes, API and dashboard decide, an operator edits the registry files |
| Research gateway (`services/research_service.py`) | table `research_items` | query: select, fetch, store, answer | Bragi asks; sources are fetched |
| Capability gateway (Heimdal), policy, templates | registries in files | validate an intent or a config | Bragi asks, drafting and updating call policy |
| Bragi (`bragi/bragi`) | intakes, follow-ups, memories | converse, ask, confirm, forward, expire, remember | calls gateway and Yggdrasil, is called by the bridge |
| Yggdrasil (`yggdrasil_action_api.py`) | none | canonical actions | calls the automation API |
| Channel bridge (`channel-bridge/bridge`) | none | relay messages with their history, send due follow-ups | Discord, Bragi |
| Exporters, scripts, n8n, configuration | none of interest | | |

What is hard here: concurrent handlers that read, decide and write without
common locks; the isolation level of the database; workers that die, are
restarted, or lose an answer after the server has committed; leases that run
out while work goes on; retention that deletes what others are about to read;
approvals that outlive what they approved; a conversation whose state is read
back from the text of its last turns; alarms that are suppressed because of
earlier alarms.  `PROJECT.json` lists these hazards line by line with the
properties that watch over them.

What makes each part correct:

- *runs*: one active run per task; claims are exclusive; the policy limits and
  the dedupe window hold; a claimed run is released at last;
- *worker*: a handler is started once per run; every queued run is served;
  only enabled tasks run live;
- *delivery*: repeated failures are announced once per window, and no failure
  stays silent without one on record before it;
- *digest*: a brief holds approved items, each once, and complains with a cause;
- *governance*: columns, status, config and history agree; no decision is
  overwritten unseen; a proposal is applied to the config it was reviewed on;
- *proposals*: a plan and its proposal agree; decisions stand; the registry
  stays loadable;
- *research*: what is stored never makes a query fail, and an empty answer
  means empty sources;
- *conversation and intakes*: only what the user was asked is forwarded, once,
  as shown; what was asked can be confirmed and carried out.

## Modules

| Module | Models | Its state |
|---|---|---|
| `RunSlots` | the promise of the run queue: one slot per task | `waiting`, `executing` |
| `RunTable` | rows of `runs` and every condition and update the handlers apply to them; no variables | |
| `RunQueue` | the API's run handlers, `queue_task_run` step by step | `task`, `runs`, per request `pc`, `req`, `view`, `expired`, and the audit trail `recovered`; `overtaken` and `blind` are history |
| `Worker` | `run_once`, `process_queued_runs`, `execute_task` up to the handler's end, one action per HTTP call | `task`, `runs`, per worker `wpc`, `known`, `todo`, `due`, `done`, `job`; `started` and `faults` are bookkeeping |
| `Digest` | the topic digest and the worker's source registry as functions | |
| `Handlers` | the other handlers as functions, and `classify_result` | |
| `Delivery` | `execute_task` from the handler's result to the report, with the notification decision, the quality alert and the failure message | `config`, `rows`, `step`, `ending`, `found`, `breaks` |
| `TaskGovernance` | every handler that writes a task, its approvals, versions or change proposals, as a snapshot transaction | `task`, `versions`, `approvals`, `proposals`, per handler `open`, `view` |
| `Proposals` | source proposals, capability proposals with plans, memories; the same kind of transactions | `status`, `draft`, `plan`, `deployed`, `registered`, `session`; `known` and `excused` are bookkeeping |
| `Research` | research queries as transactions over stored items | `stored`, `query`, `hour` |
| `Intake` | the life cycle of intakes under concurrent requests, the forward to Yggdrasil, follow-ups and the bridge's pass over them | rows of intakes, one position per request thread and one of the bridge |
| `Heimdal` | the gateway's decision, the templates' and the policy's rules, and what Yggdrasil makes of an intent, as functions of the registries | |
| `Conversation` | what Bragi makes of a message: both orders of rules (`diagnose_route`, `route_chat`), the history, asking, confirming, selecting, forwarding, the channel's gate and its audit record | `turns`, the intakes, memories, registries; what was asked and forwarded is bookkeeping |
| `RunTableProofs` | lemmas about rows, for the two modules that share them | |
| `RunQueueProofs`, `WorkerProofs`, `DeliveryProofs`, `TaskGovernanceProofs`, `ProposalsResearchProofs`, `IntakeProofs`, `ConversationProofs` | theorems and proofs | |
| `MC...` | constants and symmetry for TLC; `MCParts` lets one run explore three parts that share no state, one per behaviour, chosen by `part` | |

`RunTable` is shared: `RunQueue` applies its operators to the committed table
or to what a transaction sees, `Worker` to the table directly.  `Worker` takes
each API call as one step; for queueing, the only handler of several
statements, `RunQueue` is what justifies this.  Both take what governance does
to a task as `SetTask`, the reduction of `TaskGovernance` to the enabled flag.
`Delivery` takes up where `Worker` leaves a run: `Worker` says which runs
overlap, `Delivery` what the runs of one task, executed in turn, say to whom.
`Intake` says what happens when requests overlap, `Conversation` what each of
them means; in `Conversation` a message is handled in one step.

Correspondences worth knowing:

- *Time.*  Every comparison of timestamps in the code is of an age with a
  span.  Rows hold ages, in ticks, capped at a horizon that exceeds every
  span; time then advances for ever in a finite model.  `Research` has a
  bounded clock instead, because a row's time and the time of writing differ.
- *Reads.*  `SnapshotReads` tells the two readings of a plain SELECT apart:
  REPEATABLE READ (the default of MySQL, which `database.py` does not change)
  answers it from the snapshot opened by the first read, READ COMMITTED from the latest
  rows.  FOR UPDATE reads the latest rows in both.  Of a snapshot `AsRead` keeps what
  `queue_task_run` can tell by its SELECTs.  Two history variables of `RunQueue` say
  what the default costs: a request is `overtaken` when a run of its task is
  committed between its first read and its lock, and a run it inserts is `blind`.
- *Writes.*  The ORM writes the columns it finds changed.  `Written`,
  `Decide` and `Flushed` are that rule; it is why a stale handler does not undo
  everything, and why columns that repeat each other could drift apart.
  Sessions do not flush on their own (`autoflush=False`), so a query does not
  find what it has added.
- *Version numbers.*  `record_task_config_version` takes the maximum of its
  snapshot plus one, and the unique key refuses it when another handler was
  faster: `VersionFree`.
- *Stored texts.*  `_json_safe` cuts every string of a stored version after 1200
  characters, and `config_hash` is a hash of what is left.  A config is a body with the
  fields the handlers test; `Truncated` says what the cut makes of a body, and
  `Kept` what a version keeps of a config and what its hash can tell.
- *Messages.*  What the user may say is a parameter, `Sentence`: for each kind of
  sentence the set of patterns of `main.py` that match it (its traits), the
  source ids in it, the intent it asks for, the operation it is, and what stands behind
  "diagnose route:".  `SentenceAssumption` says what holds of every text, for instance
  that a bare confirmation has no intake id; the proofs are for any such table,
  `MCSentence` is the one TLC uses.  A turn of the history is the record of what the
  code reads back out of Bragi's reply (an id, an intent block, a selection).
- *Results.*  A handler's result keeps the fields its caller looks at.  Feed
  entries and pages are items with a dedupe key, whether the filters pass them
  and a score per section.
- *Outcomes not chosen by the code*: which of several running rows of equal age
  are recovered first, which task is due, what a handler finds, what Discord or
  a source answers, which temporary tasks are old enough.

## Runs

| Run | Shows | Bounds |
|---|---|---|
| `runqueue` | `OneActiveUnlessBlind`, `RunLimitsHeld`, `NoRepeatWithinWindow`, and `ImplementsRunSlots`, the refinement of `RunSlots`, under the default snapshot reads | one task (handlers of different tasks share no row), two runs, two requests, spans of 1 tick, horizon 2 |
| `runqueue_snapshot` | the counterexample to `AtMostOneActive` under the same reads | the same, with a retention of 2 ticks and horizon 3 |
| `worker` | `StartedOnce`, `OverlapOnlyAfterRelease` | two workers, one task, two runs, one fault |
| `worker_liveness` | `RunningReleased`, `QueuedRunsServed` | one worker, two tasks (one live, one dry), two runs, one fault |
| `worker_orphan` | the counterexample to `QueuedRunsServed` once a task can be deleted | the same, with a temporary task |
| `worker_paused` | the counterexample to `LiveRunsOnlyWhenEnabled` | one worker, two tasks |
| `governance` | `ColumnsMirrorConfig`, `StatusFollowsFlag`, `HistoryComplete`, `NoLostUpdate`, `ApplyFromBase` | two handlers at a time, levels 0 and 1, two bodies, one of which is what the cut leaves of the other, one approval, one proposal, three versions |
| `governance_decided` | the counterexample to `DecidedOnce` | two approvals |
| `governance_resume` | the counterexample to `ResumedWithoutPending` | two approvals, four versions |
| `intake` | `ForwardedOnce`, `ShownAsForwarded`, `RemindersBounded`, `RemindersServed` | two intakes, one of them never answered, two request threads, one edit, one fault, two reminders per intake, one per pass, a life of three ticks |
| `parts` | proposals: `PlanAgrees`, `OpenPlanCanFinish`, `CollisionsAreTwins`, `DecisionsStand`; queries of research items: `FailsOnlyByRepetition`, `EmptyOnlyWithoutItems`; the ends of runs: `AlertsCollapsed`, `SilentOnlyAfterFailure`, `DigestSound` | three requests, two source proposals, one capability proposal, two memories, each kind by itself (`OneKind`: they share no row); two research queries, five sources, a clock of two values; three runs of each of seven task configurations, one fault, the last two runs looked at, a window of one tick |
| `conversation` | `AskedBeforeForwarded`, `ConfirmedLastAsked`, `GateCovers`, `ForwardedFlagged`, `AskedCanBeConfirmed`, `RefusedForTask` | one digest source, two intakes, 35 kinds of sentences, a history of two turns, one edit, one fault, and at most two things stored, closed, edited or broken in all (`TwoThings`) |

Each run also checks the type invariants of its modules.

Why the bounds are enough: a lock or version conflict needs two requests, of which
one waits while the other commits; a limit of one run
per window and a gap of one tick are met and broken by two runs; a free key is
reused after retention, so histories are longer than the number of keys.  Two
workers cover a restart beside a process that still runs.  In `governance` two
overlapping handlers suffice for a conflict, their snapshots may lie
versions apart, and an approval is requested, decided and overtaken by a later
version with one key; the proofs remove the bounds.  Collapsing relates two runs, and
the third lets one lie between them, beyond the two that are looked at; the
seven configurations turn each preference the code tests off and on, and their handlers
meet each kind of result.  The webs and registries of the digest hold a feed
that is down, empty, filtered or repeats a story, a disabled source, table
rows with equal titles in both orders, and a brief that is full before its last
source.  Two intakes are what it takes for a yes to be ambiguous,
and two turns of history for a list or a reminder to stand between a question
and its answer.  The sentences reach every rule, every way to confirm, every
outcome of Heimdal, and each request that may stand in one message with an intake.  Deadlock is checked in every run.

The list of due follow-ups reads the first `10 * Limit` active rows, as the code
does for the bridge's limit; no run has as many, the theorems hold for any number.

`RequestRun` fails when no key is free: that is the bound of the model and not
of the program.  In the liveness runs `MaxFaults` means that the environment
stops misbehaving; `ListLimit` is as large as the number of rows, so the window
of 50 runs of `list_runs` never hides a queued run there.

### What properties excuse

Some properties hold only beside a hazard the code does have, and say so in
their statement.  Those of `runqueue` excuse blind runs: a request that was overtaken
decides on rows that are no longer the latest, and its run comes on top of whatever is
promised.  `HistoryComplete` and `ApplyFromBase` speak of a config as far as a version
keeps it.  `GateCovers` excuses a message about an intake that also asks for an
operation, a proposal or context: the gate stops at the intake.  `ForwardedOnce`, `ShownAsForwarded` and `RemindersBounded`
excuse intakes on which requests overlapped or a fault hit; `PlanAgrees` excuses
nothing, but `OpenPlanCanFinish` and `DecisionsStand` excuse rows on which two
requests worked at once.  `AlertsCollapsed` excuses runs that something
disturbed, and runs more than `RecentLimit` apart, which is the limit of the
code.  `FailsOnlyByRepetition` excuses queries beside another one and feeds that
repeat an entry.  `ConfirmedLastAsked` and `AskedBeforeForwarded` excuse what
`diagnose route:` put into the history.  Each excuse is a behaviour TLC finds
when it is removed, and is described below.

### Fairness

`Worker`: `FairSpec` lets each worker's own steps be weakly fair: calls have timeouts and
the container restarts (`restart: unless-stopped`), so a poll always moves on.
Recovery is strongly fair because its interval elapses again and again although
single polls skip it.  Ticks are weakly fair: time passes.  People, tools,
governance and faults are not fair.  `Intake`: only the bridge's own step is
weakly fair, since its loop never ends; users, requests and time are not.
Everything else is safety only.

### What disagrees with the documents

1. *Two active runs.*  `run_task` reads the task before `queue_task_run` locks
   it, which opens the snapshot before the lock is held.  The request that
   waited then decides on old rows.  `docs/OPERATIONS.md:394` promises the
   opposite.  `OneActiveUnlessBlind` says that this is the only way to a second run.
   Reading the task only through `_locked_task` repairs it, and so does READ
   COMMITTED (theorem `ReadCommittedSuffices`), but see below.
2. *A queued run of a deleted temporary task* stops every poll: `get_task`
   raises before the run is claimed (`worker/main.py:491`).
3. *A task paused during a poll* may still be executed live in it, because
   `execute_task` tests the flag as listed (`docs/OPERATIONS.md:11`).
4. *Approve and reject* of one approval may both be answered with success.
5. *Resume* looks at the status and not at the approvals; a task can be
   resumed while a request for its present config is pending
   (`docs/OPERATIONS.md:612`).

The two halves of the API want different databases: the queue is correct when a
SELECT sees the latest rows, while governance relies on the snapshot, because
a handler whose config and version number came from different moments
would pass the unique key with an old config.  Changing the isolation level
globally to repair the first finding would trade it for lost updates; the
queue's own transaction is the place to change.

### Found while modelling

These have no run of their own.

- *Governance.*  An approve of a change proposal that loaded it while it was
  pending can commit after it has been applied, so that an applied proposal is
  approved again and may be applied a second time when the config has returned
  to its base.  Updating a task leaves its approvals pending, so an approval
  can enable a config requested later.  Since versions keep only the first 1200 characters
  of a text, a revert restores a text that ends in `...<truncated>`; a proposal that changes
  only what lies beyond is refused as no change; and one made before such an
  edit is applied over it, because the hashes agree.
- *Delivery.*  The collapse window slides: a task that keeps failing is
  announced once.  Failures nobody heard of (dry runs, collapsed ones, refused
  sends) collapse later alarms all the same.  A degraded brief after a recent failure is itself classified as
  a failure and not sent, although `docs/OPERATIONS.md` says that the normal brief still
  goes to its output.  A run whose report is lost after its message was sent
  announces a failure too.  Runs recovered as stale announce nothing.  The
  worker names the mode of every send, so `DISCORD_DRY_RUN` does not silence a live task.
- *Handlers.*  A health check whose body cannot be read counts as healthy; a
  printer level of 0.5 % reads 50 %; a backup being written is the newest and
  alarms; a brief that is full before its last source may complain of too few
  successful sources; a failing webhook after a digest prevents the brief.
  Sources of a table are numbered by their order where titles agree: moving a
  row blocks the tasks that name it.
- *Research.*  A feed that lists a new entry twice, or two first queries at
  once, end in a duplicate key and fail the whole query.  One recent item of
  one selected source keeps all the others from being fetched.
- *Proposals.*  Two proposals for one id or URL can both be applied, after which the registry
  no longer loads and every request that needs the policy fails.  A stale
  accept or reject leaves an open plan that can neither be finished nor
  replaced.  A commit that read a memory before it was forgotten revives it.
- *Conversation.*  `diagnose route: ...` followed by yes forwards an intent
  nobody was asked about (`docs/BRAGI_HEIMDAL_INTEGRATION.md:224`).  A message about an intake is gated as a draft whatever else
  it asks: "pause local_ai_brief for intake X" pauses the task, and "run local_ai_brief and
  confirm the intake" runs it when no intake is known, because `route_chat` finds
  nothing to confirm and goes on; the same holds for a proposal or a context
  question (`docs/BRAGI_HEIMDAL_INTEGRATION.md:677` promises "only configured safe
  capabilities for that channel").  A deleted incomplete request captures the next messages.  A
  bare yes after a list or a reminder means the intake mentioned last.  A brief
  that holds a disabled source cannot be changed by chat.

## Proofs

`tlapm` checks the eight proof modules.  They hold for all values of the
constants that satisfy the ASSUMEs of the modules they extend: bounds and spans
are numbers, sentences match what patterns can match together, and
the sets the code walks through are finite.

`RunQueueProofs`: nothing is assumed about the isolation level; every theorem
holds for both values of `SnapshotReads`.  `OneActiveUnlessBlind` is not inductive
alone.  `QueueInv` adds that at most one request per task is past the lock
(`LockExclusion`), that what an open request has marked stale is still running
(`ExpiredStillRunning`, by the row locks), that recoveries are on record
(`RowsRecorded`), and what ties a snapshot to the rows of the moment
(`SnapshotsShow`): as long as a request is not overtaken, every run of its task is in
its snapshot with the same age, is active there if it is active now, and is seen as
active or as recently completed if it has completed recently (`Shows`).  So whatever
the latest rows would make a request decline, its snapshot makes it decline too; the
snapshot may only show more.  Once it has decided to insert, its task has no active run
other than those it is about to retire (`DecisionStands`) and none that it would repeat
(`NothingToRepeat`), and nobody but a holder of the lock can change that: a claim, a
report, a recovery and retention are calm steps (`Calm`), which add no row, wake none up,
and date none anew.  `OneActiveRun` follows.  `ReadCommittedSuffices` adds that
without snapshots nobody is overtaken, no run is blind, and `AtMostOneActive` holds as it stands.

On top of it stand three more theorems.  `LimitsAlwaysHeld`: its invariant
`LimitInv` says that there are finitely many rows, that those which are not blind hold
the limits and gaps, and that what a request was admitted by is still true when it commits
(`Admitted`).  Rows only grow older and only a holder of the task's lock adds
one, so a limit checked before the commit can only become looser.
`NothingIsRepeated` is the step from `NothingToRepeat` to the insert.
`QueueImplementsSlots`: a commit is an `Enqueue` (by
`DecisionStands` nobody waits, and what executes is what the commit retires), a
claim is a `Claim`, and reports, recovery and retention are a `Finish`, as is the
commit of a blind run for what it recovers; all other steps leave the slots alone (`Leaves`).

`WorkerProofs`: any number of workers poll one table.  The invariant says that
no two requests of the API leave a task with two active runs (`SingleActive`), that
a run a worker executes has been claimed for the task it says (`ExecutedTaken`,
`JobMatches`) and by nobody else (`ExecutedOnce`), that a started run is never
queued again (`StartedTaken`) and that a run is decided about before it is
started (`DecidingUnstarted`).  `OverlapNeedsRelease` needs the first four: if
neither run were released, one task would have two active runs or two workers
one run.  `HandlersStartOnce` needs the last two.  Beyond the
kinds of the constants the proofs use only that there are a task and a possible run.

`DeliveryProofs`: lemmas first, about what handlers return (`Proper`: an alarm
is a failure, and nothing done is no failure).  Then two invariants follow the
executed run from call to call.  `SilenceInv` says at each step that a failure nobody
was told of so far has a reason on record; the delicate steps are a skipped
send and a result that becomes a failure because its send was refused.
`AlertInv` says that a failure message is only being sent when no recent
failure was found, and that whatever was announced will be reported as failed,
or was disturbed.  Time passes for all rows together, which is why ages keep
their distance (`AgesTogether`, `AgesApart`).

`DigestsAreSound` is about a computation: `run_topic_digest` is three nested
loops.  In `Digest` a loop is a function of the number of turns taken.  That such a
function exists (`LoopEnds`) and that it keeps what every turn keeps (`LoopKeeps`) follow
from a least counterexample (`LeastElement`), which needs no induction schema.
What `collect_items` keeps is `Collected`: every item is of an approved source,
no two share a dedupe key, there are never more than asked for, and either each
source looked at has its line in the health report or the brief is full.  What
the sections keep is that no later one uses an item of an earlier one.
`DigestInputAssumption` says what the inputs look like: sources, rows and entries are lists, limits
are numbers, and every address that is fetched gives an answer, if only a failure.

`TaskGovernanceProofs`: the argument is optimistic locking.  Its invariant says
that versions are only appended (`SnapshotsBehind`) and that an open handler
which has seen all versions has also seen the current config
(`SnapshotsCurrent`); the rows and the snapshots are coherent.  Lemma
`StepKinds` reduces the fifteen handlers to three kinds of step: opening a
transaction, recording a version over the config that was read, or a quiet end.
From it follow `GovernanceTypes`, `ColumnsInStep`, `StatusInStep`,
`FullHistory` and the action properties `UpdatesNotLost` and `AppliedFromBase`.
Of the cut of long texts they use only that cutting twice is cutting once.

`ProposalsResearchProofs`: `PlansAgree` needs that the unique key on plans and the
column a handler changes come in one commit.  The strengthening for
`OpenPlansCanFinish` and `DecisionsStandAlone` is `SoleReader`: as long as a
row is not excused, only one open request has read it, and what that request
read is still the row.  `OnlyTwinsCollide` rests on `Compared`: an entry was
compared with everything deployed when it was proposed.

The second half of the module is about research queries, which share nothing with
proposals.  `QueriesFit` is the invariant `ResearchInv`: a query that no other one ran
beside is the only one open, and its snapshot is still what is stored.  `FetchFits`
follows the query through its sources: none comes twice, what waits to be
written belongs to sources already visited, and is a new row exactly where
the snapshot has none.  So an insert can only meet its key in the table if another query put
it there, or twice in one flush if a feed repeated an entry, which is
`FlushFailsOnlyByRepetition`.  `EmptyMeansNoItems` follows from what the set of outcomes
says of the items fetched.  Two assumptions come from the code: the validator of a request
drops repeated ids (`RequestAssumption`); sources and entries are lists, entries are
numbered, and a page that was read is an item (`SourceAssumption`).

`IntakeProofs`: `Orderly` speaks of an intake that is not excused.  One thread
at most works on it; before Yggdrasil is told of it, whoever reads the row finds
it settled (`SettledRow`: after the expiry a reader would apply, so a commit
that is refused because the intake has just expired counts as well); and the
forwarding thread holds the version the row shows.  A settled row takes no edit and no
second confirmation, from which `IntakesForwardedOnce` and `ForwardedIsShown`
follow.  The clock, the bridge and readers never unsettle a row.

`RemindersAreBounded` and `IntakeTyped` share the invariant `Reminding`.  The number
of reminders sent is that of the row's summary, which the bridge writes after
it has sent: so an intake at the bridge's hand may be one ahead (`Counted`), and
what the bridge has still to send was listed with room for one more.  The room
can only shrink by the bridge's own hand, because all other steps leave the
count of an active row alone (`Quiet`).  `IntakeTypes` adds what threads and the
bridge hold: no intake is listed twice in a pass.

`ConversationProofs`: `Careful` says of one message that it leaves the intakes
in shape, lets only intents wait that Heimdal answered with ASK_CONFIRMATION,
and forwards only intents it accepted.  A lemma per handler shows it, and every
message is one of them.  The invariant joins the shape of intakes
(`Shaped`) with `AskedCanBeConfirmed`, neither of which is inductive alone.  `AcceptedIsDrafted` adds that what
Heimdal accepts for a new digest is what the template renders and the task
policy allows, for any registries.

The theorems about earlier turns need to know what the history says.
`HistoryInvariantHolds` proves `Remembered`: a question in the history was
asked; as long as no row has been broken, one that no later reply has hidden is
that of the row the text names last, with the intent this row still holds; a
reply that lists missing details shows an intent Heimdal will not accept; and a
row that waits for a yes was asked about.  `ForwardedWasAsked` and
`YesConfirmsTheLast` follow: a yes is either read off such a reply or off the
row, and both name what was asked.  `Remembered` survives a turn that pushes the
oldest one out, since each of its parts looks from a turn forwards only.

`GateIsEnough` is about the two orders of rules.  The channel's gate trusts
`diagnose_route`, the message is then handled by `route_chat`, and neither
order is a part of the other.  For each rule of `route_chat` that changes
something a lemma bounds the place at which `diagnose_route` stops, and either no rule
up to there is one the gate would let pass as harmless, or the message is about an
intake (`AboutIntake`).  The theorem is for any table of sentences, so the exceptions
`GateCovers` names are all there are.

Every invariant and every safety property of a step that a passing run checks has a
theorem.  Only model-checked are `RunningReleased`, `QueuedRunsServed` and
`RemindersServed`, since ENABLED and fairness are beyond the prover, and the five
disagreements, which are counterexamples.  Of the functions in `Handlers` and `Heimdal` the
theorems use what they promise their callers, not each result.  The library's
induction theorems cannot be instantiated by the provers.  Where a proof goes
along a sequence (the loops of a digest, the rules in `Conversation`, the order of due follow-ups in
`Intake`), it looks at the least position at which the claim fails.

## Not modelled

- Audit events (except that a recovery happened and that a message was
  forwarded), redaction (the policy refuses configs in which it would find anything),
  nonces (a wrong one is a refusal), the tool's check of
  `created_by`, retention as seen by `TaskGovernance`.  `Worker` counts archived
  tasks as disabled and recovers all expired runs at once; `RunQueue` has the
  row limit of the maintenance call.
- Cron matching: due tasks are a choice in `Worker`.  The missed minute of a
  poll that takes too long needs wall-clock time and is listed as a hazard.
- Texts: answers, briefs, messages, risk notes and diffs; the chunks of a
  Discord message; the language models, which only word what rules decided.
- A registry edit between Heimdal's ACCEPT and the drafting call of one message:
  `Forward` takes the two calls of `confirm_intake_response` as one step.
- Bragi's general chat, its auxiliary prompts and the enrichment of an intent
  by research; Yggdrasil's own free-text chat.  Channel events, topics and
  heartbeats are rows nothing reads back.
- The dashboard's pages: they only read.
- Exporters and scripts keep no state; n8n and the configuration are data.

## Plan

Done: the run queue, the worker with its handlers and deliveries, task
governance, proposals, research, intakes and the conversation.  What is left:

1. Proofs: what the counterexamples leave true, for instance that an approval
   decided twice was decided in overlapping requests, and that the worker's
   steps keep the promise of `RunSlots` as long as no run is released.
2. Retention of temporary tasks in `TaskGovernance` (the foreign key of change
   proposals), and approvals bound to configs.
3. The dashboard's eligibility of actions against the guards of the handlers.
4. The enrichment of intents by research, as a step of `Conversation`.
