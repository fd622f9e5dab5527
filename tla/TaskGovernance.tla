--------------------------- MODULE TaskGovernance ---------------------------
(***************************************************************************)
(* The life of one automation task in the automation API: drafting,        *)
(* updating, approving, pausing, resuming, archiving and reverting it, and *)
(* the change proposals made about it.  Rows of tables tasks, approvals,   *)
(* task_config_versions and task_change_proposals.                         *)
(*                                                                         *)
(* A handler is a transaction in two steps.  Its first SELECT opens the    *)
(* snapshot (InnoDB REPEATABLE READ) that answers every later SELECT; its  *)
(* commit writes what the ORM finds changed, column by column, over the    *)
(* rows as they are by then.  No handler here locks a row.  What keeps     *)
(* them apart is the unique key (task_id, version): a handler that records *)
(* a config version numbers it from its snapshot, and its commit fails     *)
(* when another handler has used the number.                               *)
(*                                                                         *)
(* A config is its body (a value of Body), its approval level and its      *)
(* enabled flag.  A version does not keep all of it: _json_safe cuts every *)
(* string after 1200 characters, and a hash of a config is a hash of what  *)
(* a version would keep.  Truncated says what the cut makes of a body; two *)
(* bodies that differ only beyond it are kept alike.  validate_task_policy *)
(* refuses configs with secret-like values: redaction changes nothing.     *)
(***************************************************************************)
EXTENDS Integers, Sequences, FiniteSets

CONSTANTS
  Caller,      \* request threads of the API
  Body,        \* what a config says besides level and flag
  Truncated,   \* Truncated[b]: body b with its long strings cut
  Levels,      \* approval levels in use, a subset of 0..4
  Approval,    \* primary keys of approvals
  Proposal,    \* primary keys of task_change_proposals
  Nobody,      \* approval_id IS NULL
  MaxVersions  \* bound on the config versions of the task

ASSUME GovernanceAssumption ==
  /\ Body # {}
  /\ Truncated \in [Body -> Body] /\ \A b \in Body : Truncated[Truncated[b]] = Truncated[b]
  /\ Levels # {} /\ Levels \subseteq 0..4
  /\ Approval \cap Proposal = {}
  /\ Nobody \notin Approval \cup Proposal
  /\ MaxVersions \in Nat \ {0}

VARIABLES
  task,       \* the row of table tasks
  versions,   \* its config versions, version n at index n
  approvals,  \* rows of approvals
  proposals,  \* rows of task_change_proposals
  open,       \* open[c]: thread c is in a transaction
  view        \* view[c]: its snapshot

tables == <<task, versions, approvals, proposals>>
vars == <<tables, open, view>>

Statuses == {"none", "draft", "pending_approval", "enabled", "paused", "rejected", "archived"}
Decided == {"approved", "rejected"}

Config == [body : Body, level : Levels, enabled : BOOLEAN]
Task == [status : Statuses, enabled : BOOLEAN, level : Levels, config : Config]
Version == [config : Config, approval : Approval \cup Proposal \cup {Nobody}]
ApprovalRow == [status : {"none", "pending"} \cup Decided, level : Levels]
ProposalRow == [status : {"none", "pending", "applied"} \cup Decided, base : Config, proposed : Config]

NoConfig == [body |-> CHOOSE b \in Body : TRUE, level |-> CHOOSE l \in Levels : TRUE,
             enabled |-> FALSE]
NoTask == [status |-> "none", enabled |-> FALSE, level |-> NoConfig.level, config |-> NoConfig]
Empty == [task |-> NoTask, versions |-> <<>>,
          approvals |-> [a \in Approval |-> [status |-> "none", level |-> NoConfig.level]],
          proposals |-> [p \in Proposal |-> [status |-> "none", base |-> NoConfig,
                                             proposed |-> NoConfig]]]
Snapshot == [task : Task, versions : Seq(Version), approvals : [Approval -> ApprovalRow],
             proposals : [Proposal -> ProposalRow]]
Store == [task |-> task, versions |-> versions, approvals |-> approvals, proposals |-> proposals]

TypeOK ==
  /\ Store \in Snapshot
  /\ open \in [Caller -> BOOLEAN]
  /\ view \in [Caller -> Snapshot]

Init ==
  /\ task = Empty.task
  /\ versions = Empty.versions
  /\ approvals = Empty.approvals
  /\ proposals = Empty.proposals
  /\ open = [c \in Caller |-> FALSE]
  /\ view = [c \in Caller |-> Empty]

-----------------------------------------------------------------------------
(* Transactions *)

OpenSession(c) ==
  /\ ~open[c]
  /\ open' = [open EXCEPT ![c] = TRUE]
  /\ view' = [view EXCEPT ![c] = Store]
  /\ UNCHANGED tables

CloseSession(c) ==
  /\ open[c]
  /\ open' = [open EXCEPT ![c] = FALSE]
  /\ view' = [view EXCEPT ![c] = Empty]

\* A refusal (403, 404, 409, 422), an error of the database or a crash.
Abandon(c) == CloseSession(c) /\ UNCHANGED tables

\* Mutant of Written: the whole row is written back.
WholeRow(old, new, now) == new

\* UPDATE: the columns (or rows, by key) that differ from what was loaded.
Written(old, new, now) == [x \in DOMAIN now |-> IF new[x] # old[x] THEN new[x] ELSE now[x]]

\* Mutant of VersionFree: table task_config_versions has no unique key.
AnyVersion(c) == Len(versions) < MaxVersions

\* Version max + 1 of the snapshot is not in the table.
VersionFree(c) == /\ Len(versions) = Len(view[c].versions)
                  /\ Len(versions) < MaxVersions

\* What a version keeps of a config, and what its hash depends on.
Kept(config) == [config EXCEPT !.body = Truncated[@]]

\* Commit with a new config version of the task as it is in new.
CommitVersion(c, new, approval) ==
  /\ VersionFree(c)
  /\ task' = Written(view[c].task, new.task, task)
  /\ versions' = Append(versions, [config |-> Kept(new.task.config), approval |-> approval])
  /\ approvals' = Written(view[c].approvals, new.approvals, approvals)
  /\ proposals' = Written(view[c].proposals, new.proposals, proposals)
  /\ CloseSession(c)

Exists(v) == v.task.status # "none"
FreeApproval(a) == approvals[a].status = "none"
Requested(v, a, level) == [v EXCEPT !.approvals[a] = [status |-> "pending", level |-> level]]
PendingIn(v) == {a \in Approval : v.approvals[a].status = "pending"}

\* Mutant of Flagged: a status no other handler knows.
FlaggedDisabled(row, status, enabled) ==
  [row EXCEPT !.status = IF enabled THEN status ELSE "disabled", !.enabled = enabled,
              !.config.enabled = enabled]

\* enabled, status and the flag in the config, as handlers set them together
Flagged(row, status, enabled) ==
  [row EXCEPT !.status = status, !.enabled = enabled, !.config.enabled = enabled]

-----------------------------------------------------------------------------
(* routers/tasks.py *)

\* POST /tasks/draft: disabled; all levels but L0 get a pending approval.
DraftTask(c) ==
  \E b \in Body, l \in Levels :
    LET config == [body |-> b, level |-> l, enabled |-> FALSE]
        row(status) == [status |-> status, enabled |-> FALSE, level |-> l, config |-> config]
    IN  /\ open[c] /\ ~Exists(view[c]) /\ task.status = "none"
        /\ \/ /\ l = 0
              /\ CommitVersion(c, [view[c] EXCEPT !.task = row("draft")], Nobody)
           \/ /\ l # 0
              /\ \E a \in Approval :
                   /\ FreeApproval(a)
                   /\ CommitVersion(c, [Requested(view[c], a, l) EXCEPT
                                          !.task = row("pending_approval")], a)

\* Mutant of Updated: the status is not set for an enabled payload.
UpdatedAsDraft(row, config, admin) ==
  [status |-> "draft", enabled |-> admin /\ config.enabled, level |-> config.level, config |-> config]

Updated(row, config, admin) ==
  [status |-> IF admin /\ config.enabled THEN "enabled" ELSE "draft",
   enabled |-> admin /\ config.enabled, level |-> config.level, config |-> config]

\* The tool role may update a disabled task below L2 and keep it so.
ToolMayUpdate(v, config) ==
  ~v.task.enabled /\ ~config.enabled /\ v.task.level < 2 /\ config.level < 2

\* PUT /tasks/{id}.  Pending approvals of the task stay pending.
UpdateTask(c) ==
  \E config \in Config, admin \in BOOLEAN :
    /\ open[c] /\ Exists(view[c])
    /\ admin \/ ToolMayUpdate(view[c], config)
    /\ CommitVersion(c, [view[c] EXCEPT !.task = Updated(@, config, admin)], Nobody)

\* The newest version, when it has no approval yet and the hash of the task's config.
Linkable(v) ==
  LET last == v.versions[Len(v.versions)]
  IN  v.versions # <<>> /\ last.approval = Nobody /\ last.config = Kept(v.task.config)

\* POST /tasks/{id}/request-approval, whatever the task's status.  The newest
\* version is linked to the approval, and only if it cannot be a new one is
\* recorded: a commit that links does not compete for a version number.
RequestApproval(c) ==
  \E a \in Approval :
    LET new == [Requested(view[c], a, view[c].task.level) EXCEPT !.task.status = "pending_approval"]
    IN  /\ open[c] /\ Exists(view[c]) /\ FreeApproval(a)
        /\ \/ /\ ~Linkable(view[c])
              /\ CommitVersion(c, new, a)
           \/ /\ Linkable(view[c])
              /\ task' = Written(view[c].task, new.task, task)
              /\ versions' = [versions EXCEPT ![Len(view[c].versions)].approval = a]
              /\ approvals' = Written(view[c].approvals, new.approvals, approvals)
              /\ CloseSession(c)
              /\ UNCHANGED proposals

\* Mutant of PauseTask: the pause is not recorded as a version.
PauseWithoutVersion(c) ==
  /\ open[c] /\ Exists(view[c])
  /\ task' = Written(view[c].task, Flagged(view[c].task, "paused", FALSE), task)
  /\ CloseSession(c)
  /\ UNCHANGED <<versions, approvals, proposals>>

\* POST /tasks/{id}/pause, by the admin at any level, from any status.
PauseTask(c) ==
  /\ open[c] /\ Exists(view[c])
  /\ CommitVersion(c, [view[c] EXCEPT !.task = Flagged(@, "paused", FALSE)], Nobody)

\* POST /tasks/{id}/archive: the pending approvals it sees are rejected.
ArchiveTask(c) ==
  /\ open[c]
  /\ view[c].task.status \in {"draft", "pending_approval", "rejected", "paused"}
  /\ ~view[c].task.enabled
  /\ CommitVersion(c, [view[c] EXCEPT
                         !.task = Flagged(@, "archived", FALSE),
                         !.approvals = [a \in Approval |->
                            IF a \in PendingIn(view[c]) THEN [@[a] EXCEPT !.status = "rejected"]
                            ELSE @[a]]], Nobody)

-----------------------------------------------------------------------------
(* routers/approvals.py and the dashboard's approvals in routers/ops.py *)

\* POST .../approvals/{id}/approve with the right nonce: the task is enabled
\* with the config it has now.
ApproveRequest(c, a) ==
  /\ open[c]
  /\ view[c].approvals[a].status = "pending"
  /\ view[c].approvals[a].level # 4
  /\ CommitVersion(c, [view[c] EXCEPT !.approvals[a].status = "approved",
                                      !.task = Flagged(@, "enabled", TRUE)], a)

\* POST /approvals/{id}/reject: the approval alone.
RejectRequest(c, a) ==
  /\ open[c]
  /\ view[c].approvals[a].status = "pending"
  /\ approvals' = [approvals EXCEPT ![a].status = "rejected"]
  /\ CloseSession(c)
  /\ UNCHANGED <<task, versions, proposals>>

\* POST /ops/approvals/{id}/reject: the task is disabled as well.
RejectAndDisable(c, a) ==
  /\ open[c]
  /\ view[c].approvals[a].status = "pending"
  /\ CommitVersion(c, [view[c] EXCEPT !.approvals[a].status = "rejected",
                                      !.task = Flagged(@, "rejected", FALSE)], a)

-----------------------------------------------------------------------------
(* The dashboard's task actions in routers/ops.py *)

\* _has_approved_task_approval
ApprovedBefore(v) ==
  \E a \in Approval : v.approvals[a] = [status |-> "approved", level |-> v.task.level]

\* POST /ops/tasks/{id}/resume
ResumeTask(c) ==
  /\ open[c] /\ Exists(view[c])
  /\ view[c].task.level < 2
  /\ view[c].task.status \notin {"rejected", "pending_approval"}
  /\ view[c].task.level = 1 => ApprovedBefore(view[c])
  /\ CommitVersion(c, [view[c] EXCEPT !.task = Flagged(@, "enabled", TRUE)], Nobody)

\* POST /ops/tasks/{id}/versions/{n}/revert: a disabled draft of what an older
\* version kept, with a fresh approval request.
RevertTask(c) ==
  \E n \in 1..Len(view[c].versions) - 1, a \in Approval :
    LET config == [view[c].versions[n].config EXCEPT !.enabled = FALSE]
    IN  /\ open[c] /\ Exists(view[c])
        /\ PendingIn(view[c]) = {}
        /\ FreeApproval(a)
        /\ CommitVersion(c, [Requested(view[c], a, config.level) EXCEPT
                               !.task = [status |-> "pending_approval", enabled |-> FALSE,
                                         level |-> config.level, config |-> config]], a)

-----------------------------------------------------------------------------
(* services/task_change_service.py *)

\* POST /tasks/{id}/propose-change: a change no version would show is refused;
\* base and proposed config are stored whole.
ProposeChange(c) ==
  \E p \in Proposal, config \in Config :
    /\ open[c] /\ Exists(view[c])
    /\ proposals[p].status = "none"
    /\ Kept(config) # Kept(view[c].task.config)
    /\ proposals' = [proposals EXCEPT ![p] = [status |-> "pending", proposed |-> config,
                                              base |-> view[c].task.config]]
    /\ CloseSession(c)
    /\ UNCHANGED <<task, versions, approvals>>

DecideChange(c, p, status) ==
  /\ proposals' = [proposals EXCEPT ![p].status = status]
  /\ CloseSession(c)
  /\ UNCHANGED <<task, versions, approvals>>

ApproveChange(c, p) ==
  /\ open[c]
  /\ view[c].proposals[p].status = "pending"
  /\ view[c].proposals[p].proposed.level # 4
  /\ DecideChange(c, p, "approved")

RejectChange(c, p) ==
  /\ open[c]
  /\ view[c].proposals[p].status \in {"pending", "approved"}
  /\ DecideChange(c, p, "rejected")

\* Mutant of BaseUnchanged: the hash of the base config is not compared.
BaseIgnored(v, p) == TRUE

\* The hashes of the task's config and of the proposal's base agree.
BaseUnchanged(v, p) == Kept(v.task.config) = Kept(v.proposals[p].base)

\* .../task-change-proposals/{id}/apply
ApplyChange(c, p) ==
  LET config == view[c].proposals[p].proposed
  IN  /\ open[c] /\ Exists(view[c])
      /\ view[c].proposals[p].status = "approved" /\ config.level # 4
      /\ BaseUnchanged(view[c], p)
      /\ CommitVersion(c, [view[c] EXCEPT
                             !.proposals[p].status = "applied",
                             !.task = [status |-> IF config.enabled THEN "enabled" ELSE "paused",
                                       enabled |-> config.enabled, level |-> config.level,
                                       config |-> config]], p)

\* The API and the dashboard offer the same steps, each with a handler of its own.
StateStep(c) == PauseTask(c) \/ ResumeTask(c) \/ RevertTask(c)
ApprovalStep(c, a) == ApproveRequest(c, a) \/ RejectRequest(c, a) \/ RejectAndDisable(c, a)
ChangeStep(c, p) == ApproveChange(c, p) \/ RejectChange(c, p) \/ ApplyChange(c, p)

Next ==
  \E c \in Caller :
    \/ OpenSession(c) \/ Abandon(c)
    \/ DraftTask(c) \/ UpdateTask(c) \/ RequestApproval(c) \/ ArchiveTask(c) \/ StateStep(c)
    \/ \E a \in Approval : ApprovalStep(c, a)
    \/ ProposeChange(c)
    \/ \E p \in Proposal : ChangeStep(c, p)

Spec == Init /\ [][Next]_vars

-----------------------------------------------------------------------------
(* Properties *)

\* The columns enabled and approval_level, which the scheduler, the worker and
\* the role checks read, say what the stored config says, although handlers
\* write them from snapshots and column by column.
ColumnsMirrorConfig ==
  task.enabled = task.config.enabled /\ task.level = task.config.level

\* No task is enabled while its status says it is not: a pause, rejection or
\* archive that was answered is not undone by a handler that started earlier.
StatusFollowsFlag ==
  /\ task.status \in {"none", "draft", "paused", "rejected", "archived"} => ~task.enabled
  /\ task.status = "enabled" => task.enabled

\* The version history is complete: its newest entry is what a version keeps of
\* the current config.
HistoryComplete ==
  Exists(Store) => versions # <<>> /\ versions[Len(versions)].config = Kept(task.config)

\* A config is only ever replaced by a handler that had read that config.
NoLostUpdate ==
  [][task'.config # task.config
       => \E c \in Caller : open[c] /\ ~open'[c] /\ view[c].task.config = task.config]_vars

\* A proposal is applied to the config it was reviewed against, up to what the
\* hash sees: text after the first 1200 characters of a string may have changed.
ApplyFromBase ==
  [][\A p \in Proposal :
       proposals[p].status # "applied" /\ proposals'[p].status = "applied"
         => Kept(task.config) = Kept(proposals[p].base)]_vars

\* A decision on an approval is final.
DecidedOnce ==
  [][\A a \in Approval :
       approvals[a].status \in Decided => approvals'[a].status = approvals[a].status]_vars

\* The dashboard does not resume a task for which it sees an approval pending.
ResumedWithoutPending ==
  [][\A c \in Caller : ResumeTask(c) => PendingIn(view[c]) = {}]_vars
=============================================================================
