------------------------ MODULE TaskGovernanceProofs ------------------------
(***************************************************************************)
(* The history and the columns of a task agree with its config, no change  *)
(* of the config is lost, and a proposal is applied to its hashed base:    *)
(* for any number of threads, bodies, approvals, proposals and versions    *)
(* and any cut of long strings.                                            *)
(*                                                                         *)
(* The argument is optimistic locking, which the API gets from the unique  *)
(* key (task_id, version) and not from a check of its own: an open         *)
(* transaction whose snapshot has as many versions as the table has read   *)
(* the config the task still has (SnapshotsCurrent), because every handler *)
(* that replaces the config also appends a version.                        *)
(***************************************************************************)
EXTENDS TaskGovernance, TLAPS

\* The columns of a row agree with its config, and its status with its flag.
Coherent(row) ==
  /\ row.enabled = row.config.enabled
  /\ row.level = row.config.level
  /\ row.status \in {"none", "draft", "paused", "rejected", "archived"} => ~row.enabled
  /\ row.status = "enabled" => row.enabled

SnapshotsCoherent == \A c \in Caller : Coherent(view[c].task)

\* Versions are only appended.
SnapshotsBehind == \A c \in Caller : open[c] => Len(view[c].versions) <= Len(versions)

\* No newer version, no newer config; only a request for approval may have
\* changed the status since.
SnapshotsCurrent ==
  \A c \in Caller :
    open[c] /\ Len(view[c].versions) = Len(versions)
      => /\ view[c].task.config = task.config
         /\ task.status \in {view[c].task.status, "pending_approval"}

\* What a proposal proposes, and for which config, never changes.
SameProposal(old, now) ==
  old.status # "none" => now.status # "none" /\ now.base = old.base /\ now.proposed = old.proposed

ProposalsFixed ==
  \A c \in Caller : open[c] =>
    \A p \in Proposal : SameProposal(view[c].proposals[p], proposals[p])

\* A history, once there is one, ends with what a version keeps of the current
\* config.
HistoryCurrent == versions # <<>> => versions[Len(versions)].config = Kept(task.config)

\* The inductive invariant.
IInv ==
  /\ TypeOK
  /\ Coherent(task)
  /\ HistoryComplete
  /\ HistoryCurrent
  /\ SnapshotsCoherent
  /\ SnapshotsBehind
  /\ SnapshotsCurrent
  /\ ProposalsFixed

-----------------------------------------------------------------------------
(* Rows and commits *)

LEMMA NoConfigType == NoConfig \in Config /\ ~NoConfig.enabled
  BY GovernanceAssumption DEF NoConfig, Config

LEMMA KeptType == ASSUME NEW config \in Config PROVE Kept(config) \in Config
  BY GovernanceAssumption DEF Kept, Config

LEMMA EmptyType == Empty \in Snapshot /\ Coherent(Empty.task)
  <1>1. NoTask \in Task /\ Coherent(NoTask)
    BY NoConfigType DEF NoTask, Task, Config, Statuses, Coherent
  <1>2. Empty.approvals \in [Approval -> ApprovalRow]
    BY NoConfigType DEF Empty, ApprovalRow, Config
  <1>3. Empty.proposals \in [Proposal -> ProposalRow]
    BY NoConfigType DEF Empty, ProposalRow
  <1> QED
    BY <1>1, <1>2, <1>3 DEF Empty, Snapshot

\* An UPDATE of the task keeps it a row and writes the changed columns.
LEMMA WrittenTask ==
  ASSUME NEW old \in Task, NEW new \in Task, NEW now \in Task
  PROVE  LET row == Written(old, new, now)
         IN  /\ row \in Task
             /\ row.status = IF new.status # old.status THEN new.status ELSE now.status
             /\ row.enabled = IF new.enabled # old.enabled THEN new.enabled ELSE now.enabled
             /\ row.level = IF new.level # old.level THEN new.level ELSE now.level
             /\ row.config = IF new.config # old.config THEN new.config ELSE now.config
  <1> DEFINE row == Written(old, new, now)
  <1>1. DOMAIN now = {"status", "enabled", "level", "config"}
    BY DEF Task
  <1>2. row = [status |-> row.status, enabled |-> row.enabled, level |-> row.level,
               config |-> row.config]
    BY <1>1 DEF Written
  <1>3. row.status = IF new.status # old.status THEN new.status ELSE now.status
    BY <1>1 DEF Written
  <1>4. row.enabled = IF new.enabled # old.enabled THEN new.enabled ELSE now.enabled
    BY <1>1 DEF Written
  <1>5. row.level = IF new.level # old.level THEN new.level ELSE now.level
    BY <1>1 DEF Written
  <1>6. row.config = IF new.config # old.config THEN new.config ELSE now.config
    BY <1>1 DEF Written
  <1> HIDE DEF row
  <1>7. row \in Task
    BY <1>2, <1>3, <1>4, <1>5, <1>6 DEF Task
  <1> QED
    BY <1>3, <1>4, <1>5, <1>6, <1>7 DEF row

LEMMA WrittenRows ==
  ASSUME NEW S, NEW T, NEW old \in [S -> T], NEW new \in [S -> T], NEW now \in [S -> T]
  PROVE  /\ Written(old, new, now) \in [S -> T]
         /\ \A x \in S : Written(old, new, now)[x] = IF new[x] # old[x] THEN new[x] ELSE now[x]
  BY DEF Written

LEMMA TypeFacts ==
  ASSUME TypeOK
  PROVE  /\ task \in Task
         /\ versions \in Seq(Version)
         /\ approvals \in [Approval -> ApprovalRow]
         /\ proposals \in [Proposal -> ProposalRow]
         /\ open \in [Caller -> BOOLEAN]
         /\ \A c \in Caller : /\ view[c] \in Snapshot
                              /\ view[c].task \in Task
                              /\ view[c].versions \in Seq(Version)
                              /\ view[c].approvals \in [Approval -> ApprovalRow]
                              /\ view[c].proposals \in [Proposal -> ProposalRow]
  BY DEF TypeOK, Store, Snapshot

LEMMA TypeFromParts ==
  ASSUME task \in Task, versions \in Seq(Version),
         approvals \in [Approval -> ApprovalRow], proposals \in [Proposal -> ProposalRow],
         open \in [Caller -> BOOLEAN], view \in [Caller -> Snapshot]
  PROVE  TypeOK
  BY DEF TypeOK, Store, Snapshot

\* Closing a transaction leaves the snapshots of the others as they are.
LEMMA CloseSnapshots ==
  ASSUME TypeOK, NEW c \in Caller, CloseSession(c)
  PROVE  /\ open' \in [Caller -> BOOLEAN]
         /\ view' \in [Caller -> Snapshot]
         /\ open[c] /\ ~open'[c]
         /\ view'[c] = Empty
         /\ \A d \in Caller : open'[d] => d # c /\ open[d] /\ view'[d] = view[d]
         /\ SnapshotsCoherent => SnapshotsCoherent'
  BY EmptyType DEF TypeOK, CloseSession, SnapshotsCoherent

\* A transaction that ends without replacing the config, appending a version or
\* applying a proposal, whatever else it writes.
Quiet(c) ==
  /\ CloseSession(c)
  /\ task' \in Task /\ Coherent(task') /\ task'.config = task.config
  /\ task'.status \in {task.status, "pending_approval"}
  /\ Exists(Store)' => versions # <<>>
  /\ versions' \in Seq(Version) /\ Len(versions') = Len(versions)
  /\ \A n \in 1..Len(versions) : versions'[n].config = versions[n].config
  /\ approvals' \in [Approval -> ApprovalRow]
  /\ proposals' \in [Proposal -> ProposalRow]
  /\ \A p \in Proposal : /\ SameProposal(proposals[p], proposals'[p])
                         /\ proposals'[p].status = "applied" => proposals[p].status = "applied"

LEMMA QuietKeeps ==
  ASSUME IInv, NEW c \in Caller, Quiet(c)
  PROVE  IInv'
  <1> USE DEF IInv, Quiet
  <1>1. /\ open' \in [Caller -> BOOLEAN]
        /\ view' \in [Caller -> Snapshot]
        /\ \A d \in Caller : open'[d] => d # c /\ open[d] /\ view'[d] = view[d]
        /\ SnapshotsCoherent'
    BY CloseSnapshots
  <1>2. TypeOK'
    BY <1>1, TypeFromParts DEF TypeOK, Store, Snapshot
  <1>3. HistoryCurrent'
    <2>1. CASE versions = <<>>
      BY <2>1, TypeFacts DEF HistoryCurrent
    <2>2. CASE versions # <<>>
      <3>1. Len(versions) \in 1..Len(versions)
        BY <2>2, TypeFacts
      <3> QED
        BY <2>2, <3>1 DEF HistoryCurrent
    <2> QED
      BY <2>1, <2>2
  <1>4. HistoryComplete'
    <2>1. versions # <<>> => versions' # <<>>
      BY TypeFacts
    <2> QED
      BY <1>3, <2>1 DEF HistoryComplete, HistoryCurrent
  <1>5. SnapshotsBehind'
    BY <1>1 DEF SnapshotsBehind
  <1>6. SnapshotsCurrent'
    BY <1>1 DEF SnapshotsCurrent
  <1>7. ProposalsFixed'
    BY <1>1 DEF ProposalsFixed, SameProposal
  <1> QED
    BY <1>1, <1>2, <1>3, <1>4, <1>5, <1>6, <1>7

\* What a handler may make of the rows it loaded.
Prepared(v, new) ==
  /\ new.task \in Task
  /\ Coherent(new.task)
  /\ new.approvals \in [Approval -> ApprovalRow]
  /\ new.proposals \in [Proposal -> ProposalRow]
  /\ \A p \in Proposal : \/ new.proposals[p] = v.proposals[p]
                         \/ /\ v.proposals[p].status # "none"
                            /\ SameProposal(v.proposals[p], new.proposals[p])
                            /\ new.proposals[p].status = "applied"
                                 => Kept(v.task.config) = Kept(v.proposals[p].base)

\* A transaction that records a version.
Records(c) ==
  \E new \in Snapshot, apr \in Approval \cup Proposal \cup {Nobody} :
    Prepared(view[c], new) /\ CommitVersion(c, new, apr)

\* A commit that records a version writes over the config its handler read.
LEMMA CommitConfig ==
  ASSUME IInv, NEW c \in Caller, NEW new, NEW apr, CommitVersion(c, new, apr),
         new.task \in Task, Coherent(new.task)
  PROVE  /\ open[c] /\ ~open'[c]
         /\ view[c].task.config = task.config
         /\ task' \in Task
         /\ Coherent(task')
         /\ task'.config = new.task.config
  <1>1. /\ task \in Task /\ view[c].task \in Task
        /\ Coherent(task) /\ Coherent(view[c].task)
    BY TypeFacts DEF IInv, SnapshotsCoherent
  <1>2. open[c] /\ ~open'[c]
    BY CloseSnapshots DEF IInv, CommitVersion
  <1>3. /\ view[c].task.config = task.config
        /\ task.status \in {view[c].task.status, "pending_approval"}
    BY <1>2 DEF IInv, SnapshotsCurrent, CommitVersion, VersionFree
  <1>4. /\ task' \in Task
        /\ task'.status = IF new.task.status # view[c].task.status
                          THEN new.task.status ELSE task.status
        /\ task'.enabled = IF new.task.enabled # view[c].task.enabled
                           THEN new.task.enabled ELSE task.enabled
        /\ task'.level = IF new.task.level # view[c].task.level
                         THEN new.task.level ELSE task.level
        /\ task'.config = IF new.task.config # view[c].task.config
                          THEN new.task.config ELSE task.config
    BY <1>1, WrittenTask DEF CommitVersion
  <1>5. /\ task'.config = new.task.config
        /\ task'.enabled = new.task.enabled
        /\ task'.level = new.task.level
        /\ task'.status \in {new.task.status, "pending_approval"}
    BY <1>1, <1>3, <1>4 DEF Coherent
  <1>6. Coherent(task')
    BY <1>5 DEF Coherent
  <1> QED
    BY <1>2, <1>3, <1>4, <1>5, <1>6

LEMMA CommitKeeps ==
  ASSUME IInv, NEW c \in Caller, NEW new, NEW apr \in Approval \cup Proposal \cup {Nobody},
         Prepared(view[c], new), CommitVersion(c, new, apr)
  PROVE  IInv'
  <1> USE DEF IInv
  <1>1. /\ open[c] /\ view[c].task.config = task.config
        /\ task' \in Task /\ Coherent(task') /\ task'.config = new.task.config
    BY CommitConfig DEF Prepared
  <1>2. /\ open' \in [Caller -> BOOLEAN]
        /\ view' \in [Caller -> Snapshot]
        /\ \A d \in Caller : open'[d] => d # c /\ open[d] /\ view'[d] = view[d]
        /\ SnapshotsCoherent'
    BY CloseSnapshots DEF CommitVersion
  <1>3. /\ versions \in Seq(Version)
        /\ versions' = Append(versions, [config |-> Kept(new.task.config), approval |-> apr])
        /\ [config |-> Kept(new.task.config), approval |-> apr] \in Version
    BY TypeFacts, KeptType DEF CommitVersion, Prepared, Task, Version
  <1>4. /\ versions' \in Seq(Version)
        /\ Len(versions') = Len(versions) + 1
        /\ versions'[Len(versions')].config = Kept(new.task.config)
        /\ versions' # <<>>
    BY <1>3
  <1>5. approvals' \in [Approval -> ApprovalRow]
    BY TypeFacts, WrittenRows DEF CommitVersion, Prepared
  <1>6. /\ proposals' \in [Proposal -> ProposalRow]
        /\ \A p \in Proposal :
             proposals'[p] = IF new.proposals[p] # view[c].proposals[p]
                             THEN new.proposals[p] ELSE proposals[p]
    <2>1. /\ view[c].proposals \in [Proposal -> ProposalRow]
          /\ new.proposals \in [Proposal -> ProposalRow]
          /\ proposals \in [Proposal -> ProposalRow]
      BY TypeFacts DEF Prepared
    <2>2. proposals' = Written(view[c].proposals, new.proposals, proposals)
      BY DEF CommitVersion
    <2>3. proposals' \in [Proposal -> ProposalRow]
      BY <2>1, <2>2, WrittenRows
    <2>4. DOMAIN proposals = Proposal
      BY <2>1
    <2>5. \A p \in Proposal : proposals'[p] = IF new.proposals[p] # view[c].proposals[p]
                                             THEN new.proposals[p] ELSE proposals[p]
      BY <2>2, <2>4 DEF Written
    <2> QED
      BY <2>3, <2>5
  <1>7. \A p \in Proposal : SameProposal(proposals[p], proposals'[p])
    BY <1>1, <1>6 DEF ProposalsFixed, SameProposal, Prepared
  <1>8. TypeOK'
    BY <1>1, <1>2, <1>4, <1>5, <1>6, TypeFromParts DEF TypeOK, Store, Snapshot
  <1>9. HistoryComplete' /\ HistoryCurrent'
    BY <1>1, <1>4 DEF HistoryComplete, HistoryCurrent
  <1>10. SnapshotsBehind'
    <2>1. \A d \in Caller : open[d] => Len(view[d].versions) \in Nat
      BY TypeFacts
    <2> QED
      BY <1>2, <1>3, <1>4, <2>1 DEF SnapshotsBehind
  <1>11. SnapshotsCurrent'
    <2>1. \A d \in Caller : open'[d] => /\ view'[d] = view[d]
                                        /\ Len(view[d].versions) <= Len(versions)
                                        /\ Len(view[d].versions) \in Nat
      BY <1>2, TypeFacts DEF SnapshotsBehind
    <2>2. Len(versions) \in Nat
      BY <1>3
    <2>3. \A d \in Caller : open'[d] => Len(view'[d].versions) # Len(versions')
      BY <1>4, <2>1, <2>2
    <2> QED
      BY <2>3 DEF SnapshotsCurrent
  <1>12. ProposalsFixed'
    BY <1>2, <1>7 DEF ProposalsFixed, SameProposal
  <1> QED
    BY <1>1, <1>2, <1>8, <1>9, <1>10, <1>11, <1>12

-----------------------------------------------------------------------------
(* What each handler commits *)

LEMMA InitIInv == Init => IInv
  <1> SUFFICES ASSUME Init PROVE IInv
    OBVIOUS
  <1>1. /\ task = Empty.task /\ versions = <<>> /\ approvals = Empty.approvals
        /\ proposals = Empty.proposals
        /\ open = [c \in Caller |-> FALSE] /\ view = [c \in Caller |-> Empty]
    BY DEF Init, Empty
  <1>2. TypeOK
    BY <1>1, EmptyType, TypeFromParts DEF Snapshot
  <1>3. ~Exists(Store)
    BY <1>1 DEF Exists, Store, Empty, NoTask
  <1> QED
    BY <1>1, <1>2, <1>3, EmptyType
    DEF IInv, HistoryComplete, HistoryCurrent, SnapshotsCoherent, SnapshotsBehind,
        SnapshotsCurrent, ProposalsFixed

\* Opening a transaction takes the snapshot of the moment.
LEMMA OpenKeeps ==
  ASSUME IInv, NEW c \in Caller, OpenSession(c)
  PROVE  IInv'
  <1> USE DEF IInv
  <1>1. /\ task' = task /\ versions' = versions /\ approvals' = approvals
        /\ proposals' = proposals
        /\ open' \in [Caller -> BOOLEAN]
    BY DEF OpenSession, tables, TypeOK
  <1>2. Store \in Snapshot /\ view' \in [Caller -> Snapshot]
    BY DEF OpenSession, TypeOK
  <1>3. \A d \in Caller : \/ view'[d] = view[d] /\ open'[d] = open[d]
                          \/ view'[d] = Store
    BY DEF OpenSession, TypeOK
  <1>4. /\ Store.task = task /\ Store.versions = versions /\ Store.proposals = proposals
    BY DEF Store
  <1>5. TypeOK'
    BY <1>1, <1>2, TypeFacts, TypeFromParts DEF TypeOK, Store, Snapshot
  <1>6. HistoryComplete' /\ HistoryCurrent'
    BY <1>1 DEF HistoryComplete, HistoryCurrent, Exists, Store
  <1>7. SnapshotsCoherent'
    BY <1>1, <1>3, <1>4 DEF SnapshotsCoherent
  <1>8. SnapshotsBehind'
    BY <1>1, <1>3, <1>4, TypeFacts DEF SnapshotsBehind
  <1>9. SnapshotsCurrent'
    BY <1>1, <1>3, <1>4 DEF SnapshotsCurrent
  <1>10. ProposalsFixed'
    BY <1>1, <1>3, <1>4 DEF ProposalsFixed, SameProposal
  <1> QED
    BY <1>1, <1>5, <1>6, <1>7, <1>8, <1>9, <1>10

\* A handler that changes only the task of its snapshot has prepared it well
\* when the new row is coherent.
LEMMA TaskPrepared ==
  ASSUME NEW v \in Snapshot, NEW row \in Task, Coherent(row)
  PROVE  LET new == [v EXCEPT !.task = row]
         IN  Prepared(v, new) /\ new.task = row
  BY DEF Prepared, Snapshot

LEMMA FlaggedCoherent ==
  ASSUME NEW row \in Task, Coherent(row), NEW st \in Statuses, NEW e \in BOOLEAN,
         st \in {"none", "draft", "paused", "rejected", "archived"} => ~e,
         st = "enabled" => e
  PROVE  Flagged(row, st, e) \in Task /\ Coherent(Flagged(row, st, e))
  BY DEF Flagged, Task, Config, Coherent

\* A row made from a config alone.
LEMMA RowOfConfig ==
  ASSUME NEW config \in Config, NEW st \in Statuses,
         st \in {"none", "draft", "paused", "rejected", "archived"} => ~config.enabled,
         st = "enabled" => config.enabled
  PROVE  LET row == [status |-> st, enabled |-> config.enabled, level |-> config.level,
                     config |-> config]
         IN  row \in Task /\ Coherent(row)
  <1>1. config.enabled \in BOOLEAN /\ config.level \in Levels
    BY DEF Config
  <1> QED
    BY <1>1 DEF Task, Coherent

LEMMA RequestedRows ==
  ASSUME NEW v \in Snapshot, NEW a \in Approval, NEW l \in Levels
  PROVE  /\ Requested(v, a, l) \in Snapshot
         /\ Requested(v, a, l).task = v.task
         /\ Requested(v, a, l).proposals = v.proposals
  BY DEF Requested, Snapshot, ApprovalRow

LEMMA DecidedRows ==
  ASSUME NEW v \in Snapshot, NEW a \in Approval, NEW st \in Decided
  PROVE  LET new == [v EXCEPT !.approvals[a].status = st]
         IN  new \in Snapshot /\ new.task = v.task /\ new.proposals = v.proposals
  BY DEF Snapshot, ApprovalRow, Decided

\* Each handler that records a version has prepared what it commits.
LEMMA DraftRecords ==
  ASSUME IInv, NEW c \in Caller, DraftTask(c) PROVE Records(c)
  <1>1. PICK b \in Body, l \in Levels : DraftTask(c)!(b, l)
    BY DEF DraftTask
  <1> DEFINE row(st) == [status |-> st, enabled |-> FALSE, level |-> l,
                         config |-> [body |-> b, level |-> l, enabled |-> FALSE]]
  <1>2. /\ row("draft") \in Task /\ Coherent(row("draft"))
        /\ row("pending_approval") \in Task /\ Coherent(row("pending_approval"))
    BY DEF Task, Config, Statuses, Coherent
  <1>3. view[c] \in Snapshot
    BY TypeFacts DEF IInv
  <1> HIDE DEF row
  <1>4. CASE CommitVersion(c, [view[c] EXCEPT !.task = row("draft")], Nobody)
    BY <1>2, <1>3, <1>4, TaskPrepared DEF Records, Snapshot
  <1>5. CASE \E a \in Approval :
               CommitVersion(c, [Requested(view[c], a, l) EXCEPT !.task = row("pending_approval")], a)
    <2>1. PICK a \in Approval :
            CommitVersion(c, [Requested(view[c], a, l) EXCEPT !.task = row("pending_approval")], a)
      BY <1>5
    <2> DEFINE v == Requested(view[c], a, l)
    <2>2. v \in Snapshot /\ v.task = view[c].task /\ v.proposals = view[c].proposals
      BY <1>3, RequestedRows
    <2> HIDE DEF v
    <2>3. Prepared(v, [v EXCEPT !.task = row("pending_approval")])
      BY <1>2, <2>2, TaskPrepared
    <2>4. Prepared(view[c], [v EXCEPT !.task = row("pending_approval")])
      BY <2>2, <2>3 DEF Prepared
    <2>5. [v EXCEPT !.task = row("pending_approval")] \in Snapshot
      BY <1>2, <2>2 DEF Snapshot
    <2> QED
      BY <2>1, <2>4, <2>5 DEF Records, v
  <1> QED
    BY <1>1, <1>4, <1>5 DEF row

\* A handler that commits only a coherent new row, or that besides changes
\* approvals, records a version.
LEMMA RowRecords ==
  ASSUME IInv, NEW c \in Caller, NEW v \in Snapshot, v.proposals = view[c].proposals,
         NEW row \in Task, Coherent(row), NEW apr \in Approval \cup Proposal \cup {Nobody},
         CommitVersion(c, [v EXCEPT !.task = row], apr)
  PROVE  Records(c)
  <1>1. Prepared(v, [v EXCEPT !.task = row])
    BY TaskPrepared
  <1>2. Prepared(view[c], [v EXCEPT !.task = row])
    <2>1. [v EXCEPT !.task = row].proposals = v.proposals
      BY DEF Snapshot
    <2> QED
      BY <1>1, <2>1 DEF Prepared
  <1>3. [v EXCEPT !.task = row] \in Snapshot
    BY DEF Snapshot
  <1> QED
    BY <1>2, <1>3 DEF Records

LEMMA LoadedRows ==
  ASSUME IInv, NEW c \in Caller
  PROVE  view[c] \in Snapshot /\ view[c].task \in Task /\ Coherent(view[c].task)
  BY TypeFacts DEF IInv, SnapshotsCoherent

LEMMA UpdateRecords ==
  ASSUME IInv, NEW c \in Caller, UpdateTask(c) PROVE Records(c)
  <1>1. PICK config \in Config, admin \in BOOLEAN :
          /\ admin \/ ~config.enabled
          /\ CommitVersion(c, [view[c] EXCEPT !.task = Updated(@, config, admin)], Nobody)
    BY DEF UpdateTask, ToolMayUpdate
  <1> DEFINE row == Updated(view[c].task, config, admin)
             st == IF config.enabled THEN "enabled" ELSE "draft"
  <1>2. config.enabled \in BOOLEAN
    BY DEF Config
  <1>3. row = [status |-> st, enabled |-> config.enabled, level |-> config.level,
               config |-> config]
    BY <1>1, <1>2 DEF Updated
  <1>4. /\ st \in Statuses
        /\ st \in {"none", "draft", "paused", "rejected", "archived"} => ~config.enabled
        /\ st = "enabled" => config.enabled
    BY DEF Statuses
  <1>5. row \in Task /\ Coherent(row)
    BY <1>3, <1>4, RowOfConfig
  <1> QED
    BY <1>1, <1>5, LoadedRows, RowRecords

LEMMA PauseRecords ==
  ASSUME IInv, NEW c \in Caller, PauseTask(c) PROVE Records(c)
  <1>1. LET row == Flagged(view[c].task, "paused", FALSE)
        IN  row \in Task /\ Coherent(row)
    BY LoadedRows, FlaggedCoherent DEF Statuses
  <1> QED
    BY <1>1, LoadedRows, RowRecords DEF PauseTask

LEMMA ResumeRecords ==
  ASSUME IInv, NEW c \in Caller, ResumeTask(c) PROVE Records(c)
  <1>1. LET row == Flagged(view[c].task, "enabled", TRUE)
        IN  row \in Task /\ Coherent(row)
    BY LoadedRows, FlaggedCoherent DEF Statuses
  <1> QED
    BY <1>1, LoadedRows, RowRecords DEF ResumeTask

LEMMA ArchiveRecords ==
  ASSUME IInv, NEW c \in Caller, ArchiveTask(c) PROVE Records(c)
  <1> DEFINE rows == [a \in Approval |-> IF a \in PendingIn(view[c])
                                        THEN [view[c].approvals[a] EXCEPT !.status = "rejected"]
                                        ELSE view[c].approvals[a]]
             row == Flagged(view[c].task, "archived", FALSE)
             v == [view[c] EXCEPT !.approvals = rows]
  <1>1. rows \in [Approval -> ApprovalRow]
    BY LoadedRows DEF Snapshot, ApprovalRow, Decided
  <1>2. row \in Task /\ Coherent(row)
    BY LoadedRows, FlaggedCoherent DEF Statuses
  <1>3. CommitVersion(c, [view[c] EXCEPT !.task = row, !.approvals = rows], Nobody)
    BY LoadedRows DEF ArchiveTask, Snapshot
  <1> HIDE DEF rows, row
  <1>4. /\ v \in Snapshot /\ v.proposals = view[c].proposals
        /\ [v EXCEPT !.task = row] = [view[c] EXCEPT !.task = row, !.approvals = rows]
    BY <1>1, <1>2, LoadedRows DEF Snapshot
  <1> QED
    BY <1>2, <1>3, <1>4, RowRecords

\* A decision on approval a that flags the task records a version.
LEMMA DecisionRecords ==
  ASSUME IInv, NEW c \in Caller, NEW a \in Approval, NEW st \in Decided,
         NEW status \in Statuses, NEW e \in BOOLEAN, NEW apr \in {Nobody, a},
         status \in {"none", "draft", "paused", "rejected", "archived"} => ~e,
         status = "enabled" => e,
         CommitVersion(c, [view[c] EXCEPT !.approvals[a].status = st,
                                          !.task = Flagged(@, status, e)], apr)
  PROVE  Records(c)
  <1> DEFINE v == [view[c] EXCEPT !.approvals[a].status = st]
             row == Flagged(view[c].task, status, e)
  <1>1. row \in Task /\ Coherent(row)
    BY LoadedRows, FlaggedCoherent
  <1>2. v \in Snapshot /\ v.task = view[c].task /\ v.proposals = view[c].proposals
    BY LoadedRows, DecidedRows
  <1> HIDE DEF row
  <1>3. [v EXCEPT !.task = row] = [view[c] EXCEPT !.approvals[a].status = st, !.task = row]
    BY <1>1, LoadedRows DEF Snapshot
  <1>4. CommitVersion(c, [v EXCEPT !.task = row], apr)
    BY <1>2, <1>3, LoadedRows DEF row, Snapshot
  <1> HIDE DEF v
  <1> QED
    BY <1>1, <1>2, <1>4, RowRecords

LEMMA RequestRecords ==
  ASSUME IInv, NEW c \in Caller, NEW a \in Approval, NEW l \in Levels, NEW row \in Task,
         Coherent(row), CommitVersion(c, [Requested(view[c], a, l) EXCEPT !.task = row], a)
  PROVE  Records(c)
  <1>1. /\ Requested(view[c], a, l) \in Snapshot
        /\ Requested(view[c], a, l).proposals = view[c].proposals
    BY LoadedRows, RequestedRows
  <1> QED
    BY <1>1, RowRecords

LEMMA RevertRecords ==
  ASSUME IInv, NEW c \in Caller, RevertTask(c) PROVE Records(c)
  <1>1. PICK n \in 1..Len(view[c].versions) - 1, a \in Approval : RevertTask(c)!(n, a)
    BY DEF RevertTask
  <1> DEFINE config == [view[c].versions[n].config EXCEPT !.enabled = FALSE]
             row == [status |-> "pending_approval", enabled |-> FALSE,
                     level |-> config.level, config |-> config]
  <1>2. view[c].versions[n] \in Version
    <2>1. view[c].versions \in Seq(Version) /\ n \in 1..Len(view[c].versions)
      BY LoadedRows DEF Snapshot
    <2> QED
      BY <2>1
  <1>3. config \in Config /\ ~config.enabled
    BY <1>2 DEF Version, Config
  <1>4. row \in Task /\ Coherent(row) /\ config.level \in Levels
    BY <1>3 DEF Task, Statuses, Coherent, Config
  <1>5. CommitVersion(c, [Requested(view[c], a, config.level) EXCEPT !.task = row], a)
    BY <1>1
  <1> HIDE DEF row, config
  <1> QED
    BY <1>4, <1>5, RequestRecords

\* A version of a change proposal is recorded over the proposal's base.
LEMMA ApplyRecords ==
  ASSUME IInv, NEW c \in Caller, NEW p \in Proposal, ApplyChange(c, p) PROVE Records(c)
  <1> DEFINE config == view[c].proposals[p].proposed
             row == [status |-> IF config.enabled THEN "enabled" ELSE "paused",
                     enabled |-> config.enabled, level |-> config.level, config |-> config]
             rows == [view[c].proposals EXCEPT ![p].status = "applied"]
             new == [view[c] EXCEPT !.proposals = rows, !.task = row]
  <1>1. view[c] \in Snapshot /\ view[c].proposals \in [Proposal -> ProposalRow]
    BY LoadedRows DEF Snapshot
  <1>2. config \in Config
    BY <1>1 DEF ProposalRow
  <1>3. row \in Task /\ Coherent(row)
    BY <1>2, RowOfConfig DEF Statuses
  <1>4. rows \in [Proposal -> ProposalRow]
    BY <1>1 DEF ProposalRow
  <1>5. /\ view[c].proposals[p].status = "approved"
        /\ Kept(view[c].task.config) = Kept(view[c].proposals[p].base)
    BY DEF ApplyChange, BaseUnchanged
  <1>6. CommitVersion(c, new, p)
    BY <1>1 DEF ApplyChange, Snapshot
  <1> HIDE DEF row, config
  <1>7. new \in Snapshot /\ new.task = row /\ new.approvals = view[c].approvals
        /\ new.proposals = rows
    BY <1>1, <1>3, <1>4 DEF Snapshot
  <1>8. \A q \in Proposal : q # p => rows[q] = view[c].proposals[q]
    BY <1>1
  <1>9. rows[p].status = "applied" /\ SameProposal(view[c].proposals[p], rows[p])
    BY <1>1, <1>5 DEF ProposalRow, SameProposal
  <1> HIDE DEF rows, new
  <1>10. Prepared(view[c], new)
    BY <1>1, <1>3, <1>4, <1>5, <1>7, <1>8, <1>9 DEF Prepared, Snapshot
  <1> QED
    BY <1>6, <1>7, <1>10 DEF Records

\* A request for approval records a version or, linking the newest one, is quiet.
LEMMA RequestStep ==
  ASSUME IInv, NEW c \in Caller, RequestApproval(c) PROVE Records(c) \/ Quiet(c)
  <1>1. PICK a \in Approval : RequestApproval(c)!(a)
    BY DEF RequestApproval
  <1> DEFINE level == view[c].task.level
             row == [view[c].task EXCEPT !.status = "pending_approval"]
             new == [Requested(view[c], a, level) EXCEPT !.task.status = "pending_approval"]
  <1>2. /\ row \in Task /\ Coherent(row) /\ level \in Levels
        /\ row.config = view[c].task.config /\ row.level = level
        /\ row.enabled = view[c].task.enabled /\ row.status = "pending_approval"
    BY LoadedRows DEF Task, Statuses, Coherent
  <1>3. /\ Requested(view[c], a, level) \in Snapshot
        /\ Requested(view[c], a, level).task = view[c].task
    BY <1>2, LoadedRows, RequestedRows
  <1>4. new = [Requested(view[c], a, level) EXCEPT !.task = row]
    BY <1>3 DEF Snapshot
  <1>5. new \in Snapshot /\ new.task = row
    BY <1>2, <1>3, <1>4 DEF Snapshot
  <1>6. CASE CommitVersion(c, new, a)
    BY <1>2, <1>4, <1>6, RequestRecords
  <1>7. CASE /\ Linkable(view[c])
             /\ task' = Written(view[c].task, new.task, task)
             /\ versions' = [versions EXCEPT ![Len(view[c].versions)].approval = a]
             /\ approvals' = Written(view[c].approvals, new.approvals, approvals)
             /\ CloseSession(c)
             /\ proposals' = proposals
    <2> HIDE DEF new, row
    <2>1. task \in Task /\ Coherent(task) /\ view[c].task \in Task
      BY TypeFacts DEF IInv
    <2>2. /\ task' \in Task
          /\ task'.status = IF row.status # view[c].task.status
                            THEN row.status ELSE task.status
          /\ task'.enabled = task.enabled
          /\ task'.level = task.level
          /\ task'.config = task.config
      <3>1. /\ task' \in Task
            /\ task'.status = IF new.task.status # view[c].task.status
                              THEN new.task.status ELSE task.status
            /\ task'.enabled = IF new.task.enabled # view[c].task.enabled
                               THEN new.task.enabled ELSE task.enabled
            /\ task'.level = IF new.task.level # view[c].task.level
                             THEN new.task.level ELSE task.level
            /\ task'.config = IF new.task.config # view[c].task.config
                              THEN new.task.config ELSE task.config
        BY <1>2, <1>5, <1>7, <2>1, WrittenTask
      <3> QED
        BY <1>2, <1>5, <3>1
    <2>3. Coherent(task') /\ task'.status \in {task.status, "pending_approval"}
      BY <1>2, <2>1, <2>2 DEF Coherent
    <2>4. /\ view[c].versions \in Seq(Version) /\ view[c].versions # <<>>
          /\ versions \in Seq(Version)
          /\ Len(view[c].versions) <= Len(versions)
      BY <1>7, LoadedRows, TypeFacts DEF Snapshot, Linkable, IInv, SnapshotsBehind, CloseSession
    <2>5. Len(view[c].versions) \in 1..Len(versions) /\ versions # <<>>
      BY <2>4
    <2>6. [versions[Len(view[c].versions)] EXCEPT !.approval = a] \in Version
      <3>1. versions[Len(view[c].versions)] \in Version
        BY <2>4, <2>5
      <3> QED
        BY <3>1 DEF Version
    <2>7. versions' \in Seq(Version) /\ Len(versions') = Len(versions)
      BY <1>7, <2>4, <2>5, <2>6
    <2>8. \A n \in 1..Len(versions) : versions'[n].config = versions[n].config
      BY <1>7, <2>4, <2>5 DEF Version
    <2>9. approvals' \in [Approval -> ApprovalRow]
      BY <1>5, <1>7, LoadedRows, TypeFacts, WrittenRows DEF Snapshot, IInv
    <2>10. /\ proposals' \in [Proposal -> ProposalRow]
           /\ \A p \in Proposal : /\ SameProposal(proposals[p], proposals'[p])
                                  /\ proposals'[p].status = "applied"
                                       => proposals[p].status = "applied"
      BY <1>7, TypeFacts DEF IInv, SameProposal
    <2> QED
      BY <1>7, <2>2, <2>3, <2>5, <2>7, <2>8, <2>9, <2>10 DEF Quiet
  <1> QED
    BY <1>1, <1>6, <1>7

\* A transaction that writes approvals or proposals alone, or nothing, is quiet.
LEMMA QuietStep ==
  ASSUME IInv, NEW c \in Caller, CloseSession(c), task' = task, versions' = versions,
         approvals' \in [Approval -> ApprovalRow], proposals' \in [Proposal -> ProposalRow],
         \A p \in Proposal : /\ SameProposal(proposals[p], proposals'[p])
                             /\ proposals'[p].status = "applied" => proposals[p].status = "applied"
  PROVE  Quiet(c)
  <1>1. Exists(Store)' => versions # <<>>
    BY DEF IInv, HistoryComplete, Exists, Store
  <1> QED
    BY <1>1, TypeFacts DEF Quiet, IInv

\* Every step opens a transaction, records a version or is quiet.
LEMMA StepKinds ==
  ASSUME IInv, Next
  PROVE  \E c \in Caller : OpenSession(c) \/ Records(c) \/ Quiet(c)
  <1>1. /\ approvals \in [Approval -> ApprovalRow]
        /\ proposals \in [Proposal -> ProposalRow]
    BY TypeFacts DEF IInv
  <1>2. ASSUME NEW c \in Caller, Abandon(c) PROVE Quiet(c)
    BY <1>1, <1>2, QuietStep DEF Abandon, tables, SameProposal
  <1>3. ASSUME NEW c \in Caller, NEW a \in Approval, RejectRequest(c, a) PROVE Quiet(c)
    <2>1. approvals' \in [Approval -> ApprovalRow]
      BY <1>1, <1>3 DEF RejectRequest, ApprovalRow, Decided
    <2> QED
      BY <1>1, <1>3, <2>1, QuietStep DEF RejectRequest, SameProposal
  <1>4. ASSUME NEW c \in Caller, ProposeChange(c) PROVE Quiet(c)
    <2>1. PICK p \in Proposal, config \in Config :
            /\ proposals[p].status = "none"
            /\ proposals' = [proposals EXCEPT ![p] = [status |-> "pending", proposed |-> config,
                                                     base |-> view[c].task.config]]
      BY <1>4 DEF ProposeChange
    <2>2. view[c].task.config \in Config
      BY LoadedRows DEF Task
    <2>3. /\ proposals' \in [Proposal -> ProposalRow]
          /\ \A q \in Proposal : /\ SameProposal(proposals[q], proposals'[q])
                                 /\ proposals'[q].status = "applied"
                                      => proposals[q].status = "applied"
      BY <1>1, <2>1, <2>2 DEF ProposalRow, SameProposal
    <2> QED
      BY <1>1, <1>4, <2>3, QuietStep DEF ProposeChange
  <1>5. ASSUME NEW c \in Caller, NEW p \in Proposal, NEW st \in Decided, DecideChange(c, p, st),
               open[c], view[c].proposals[p].status # "none"
        PROVE  Quiet(c)
    <2>1. proposals[p].status # "none"
      BY <1>5 DEF IInv, ProposalsFixed, SameProposal
    <2>2. /\ proposals' \in [Proposal -> ProposalRow]
          /\ \A q \in Proposal : /\ SameProposal(proposals[q], proposals'[q])
                                 /\ proposals'[q].status = "applied"
                                      => proposals[q].status = "applied"
      BY <1>1, <1>5, <2>1 DEF DecideChange, ProposalRow, SameProposal, Decided
    <2> QED
      BY <1>1, <1>5, <2>2, QuietStep DEF DecideChange
  <1>6. ASSUME NEW c \in Caller, NEW p \in Proposal, ApproveChange(c, p) \/ RejectChange(c, p)
        PROVE  Quiet(c)
    BY <1>5, <1>6 DEF ApproveChange, RejectChange, Decided
  <1>7. ASSUME NEW c \in Caller, NEW a \in Approval,
               ApproveRequest(c, a) \/ RejectAndDisable(c, a)
        PROVE  Records(c)
    <2>1. CASE ApproveRequest(c, a)
      BY <2>1, DecisionRecords DEF ApproveRequest, Decided, Statuses
    <2>2. CASE RejectAndDisable(c, a)
      BY <2>2, DecisionRecords DEF RejectAndDisable, Decided, Statuses
    <2> QED
      BY <1>7, <2>1, <2>2
  <1> QED
    BY <1>2, <1>3, <1>4, <1>6, <1>7, DraftRecords, UpdateRecords, RequestStep, PauseRecords,
       ArchiveRecords, ResumeRecords, RevertRecords, ApplyRecords
       DEF Next, StateStep, ApprovalStep, ChangeStep

-----------------------------------------------------------------------------
(* Theorems *)

LEMMA StepKeeps == IInv /\ [Next]_vars => IInv'
  <1> SUFFICES ASSUME IInv, [Next]_vars PROVE IInv'
    OBVIOUS
  <1>1. CASE UNCHANGED vars
    BY <1>1 DEF IInv, vars, tables, TypeOK, Store, Snapshot, HistoryComplete, HistoryCurrent,
                Exists, SnapshotsCoherent, SnapshotsBehind, SnapshotsCurrent, ProposalsFixed
  <1>2. CASE Next
    <2>1. PICK c \in Caller : OpenSession(c) \/ Records(c) \/ Quiet(c)
      BY <1>2, StepKinds
    <2> QED
      BY <2>1, OpenKeeps, CommitKeeps, QuietKeeps DEF Records
  <1> QED
    BY <1>1, <1>2

LEMMA Invariance == Spec => []IInv
  BY InitIInv, StepKeeps, PTL DEF Spec

\* Rows and snapshots keep their types through every interleaving of handlers.
THEOREM GovernanceTypes == Spec => []TypeOK
  BY Invariance, PTL DEF IInv

\* The columns the worker and the role checks read always say what the stored
\* config says, although handlers write them one by one from old snapshots.
THEOREM ColumnsInStep == Spec => []ColumnsMirrorConfig
  <1>1. IInv => ColumnsMirrorConfig
    BY DEF IInv, Coherent, ColumnsMirrorConfig
  <1> QED
    BY <1>1, Invariance, PTL

\* A task whose status says it is draft, paused, rejected or archived is not
\* enabled, however handlers overlap.
THEOREM StatusInStep == Spec => []StatusFollowsFlag
  <1>1. IInv => StatusFollowsFlag
    BY DEF IInv, Coherent, StatusFollowsFlag
  <1> QED
    BY <1>1, Invariance, PTL

\* The version history ends with what a version keeps of the current config,
\* however handlers overlap and wherever the cut of long strings falls.
THEOREM FullHistory == Spec => []HistoryComplete
  BY Invariance, PTL DEF IInv

\* No handler replaces a config it has not read: the unique key of the version
\* number is an optimistic lock.
THEOREM UpdatesNotLost == Spec => NoLostUpdate
  <1> DEFINE Read == \E c \in Caller :
                       open[c] /\ ~open'[c] /\ view[c].task.config = task.config
  <1>1. ASSUME IInv, Next PROVE task'.config # task.config => Read
    <2>1. PICK c \in Caller : OpenSession(c) \/ Records(c) \/ Quiet(c)
      BY <1>1, StepKinds
    <2>2. CASE OpenSession(c)
      BY <2>2 DEF OpenSession, tables
    <2>3. CASE Records(c)
      BY <1>1, <2>3, CommitConfig DEF Records, Prepared
    <2>4. CASE Quiet(c)
      BY <2>4 DEF Quiet
    <2> QED
      BY <2>1, <2>2, <2>3, <2>4
  <1>2. IInv /\ [Next]_vars => [task'.config # task.config => Read]_vars
    BY <1>1
  <1> QED
    BY <1>2, Invariance, PTL DEF Spec, NoLostUpdate

\* A change proposal is only ever applied to a config with the hash of the one it
\* was made for, though the handler compares them in a snapshot.
THEOREM AppliedFromBase == Spec => ApplyFromBase
  <1> DEFINE OnBase == \A p \in Proposal :
                         proposals[p].status # "applied" /\ proposals'[p].status = "applied"
                           => Kept(task.config) = Kept(proposals[p].base)
  <1>1. ASSUME IInv, Next PROVE OnBase
    <2>1. PICK c \in Caller : OpenSession(c) \/ Records(c) \/ Quiet(c)
      BY <1>1, StepKinds
    <2>2. CASE OpenSession(c)
      BY <2>2 DEF OpenSession, tables
    <2>3. CASE Records(c)
      <3>1. PICK new \in Snapshot, apr \in Approval \cup Proposal \cup {Nobody} :
              Prepared(view[c], new) /\ CommitVersion(c, new, apr)
        BY <2>3 DEF Records
      <3>2. open[c] /\ view[c].task.config = task.config
        BY <1>1, <3>1, CommitConfig DEF Prepared
      <3>3. ASSUME NEW p \in Proposal, proposals[p].status # "applied",
                   proposals'[p].status = "applied"
            PROVE  Kept(task.config) = Kept(proposals[p].base)
        <4>1. proposals \in [Proposal -> ProposalRow]
          BY <1>1, TypeFacts DEF IInv
        <4>2. proposals' = Written(view[c].proposals, new.proposals, proposals)
          BY <3>1 DEF CommitVersion
        <4>3. /\ new.proposals[p] # view[c].proposals[p]
              /\ proposals'[p] = new.proposals[p]
          BY <3>3, <4>1, <4>2 DEF Written
        <4>4. /\ view[c].proposals[p].status # "none"
              /\ Kept(view[c].task.config) = Kept(view[c].proposals[p].base)
          BY <3>1, <3>3, <4>3 DEF Prepared
        <4>5. proposals[p].base = view[c].proposals[p].base
          BY <1>1, <3>2, <4>4 DEF IInv, ProposalsFixed, SameProposal
        <4> QED
          BY <3>2, <4>4, <4>5
      <3> QED
        BY <3>3
    <2>4. CASE Quiet(c)
      BY <2>4 DEF Quiet
    <2> QED
      BY <2>1, <2>2, <2>3, <2>4
  <1>2. IInv /\ [Next]_vars => [OnBase]_vars
    BY <1>1
  <1> QED
    BY <1>2, Invariance, PTL DEF Spec, ApplyFromBase
=============================================================================
