----------------------------- MODULE Proposals -----------------------------
(***************************************************************************)
(* What the system keeps until a person has decided on it: approved-source *)
(* proposals, capability proposals with their implementation plans, and    *)
(* Bragi's memory proposals.                                               *)
(*                                                                         *)
(* A handler reads its rows at the start of a transaction, tests what it   *)
(* read, and commits.  No handler takes a lock, and a commit writes the    *)
(* columns the handler changed whatever the rows have become, so two       *)
(* handlers can decide on one proposal.  Source and capability registries  *)
(* are files; an operator extends them and redeploys.                      *)
(*                                                                         *)
(* Every memory record here belongs to one user.                           *)
(***************************************************************************)
EXTENDS Integers, FiniteSets

CONSTANTS
  Source,           \* keys of source proposals
  Capability,       \* keys of capability proposals
  Memory,           \* keys of memory records
  Client,           \* concurrent requests
  SourceDrafts,     \* sources that are proposed
  CapabilityDrafts, \* capabilities that are proposed
  MemoryDrafts,     \* things the user asks to remember
  Registry,         \* the source registry at first
  ForgetLimit       \* how many records one request forgets at most

ASSUME ProposalsAssumption ==
  /\ Source \cap Capability = {} /\ Source \cap Memory = {} /\ Capability \cap Memory = {}
  /\ ForgetLimit \in Nat \ {0}

Key == Source \cup Capability \cup Memory

VARIABLES
  status,     \* status[k]: column status of row k
  draft,      \* draft[k]: what row k proposes
  plan,       \* plan[p]: status of the implementation plan of proposal p
  deployed,   \* source proposals whose entry is in the registry
  registered, \* capabilities in the capability registry
  session,    \* session[c]: the rows request c has read
  known,      \* known[p]: deployed as it was when p was proposed
  excused     \* rows two requests worked on at once

vars == <<status, draft, plan, deployed, registered, session, known, excused>>

PlanStatuses == {"implementation_planned", "implemented", "superseded"}

Statuses(k) ==
  {"none"} \cup
  IF k \in Source THEN {"pending", "approved", "rejected", "applied"}
  ELSE IF k \in Capability THEN {"pending", "accepted", "rejected", "closed"} \cup PlanStatuses
  ELSE {"pending", "active", "forgotten"}

AllStatuses == UNION {Statuses(k) : k \in Key}
Nothing == [id |-> "none"]
Drafts == SourceDrafts \cup CapabilityDrafts \cup MemoryDrafts
CapabilityIds == {d.id : d \in CapabilityDrafts}

\* ids is empty while the request has no transaction.
Session == [ids : SUBSET Key, seen : [Key -> AllStatuses], plan : [Capability -> {"none"} \cup PlanStatuses]]

TypeOK ==
  /\ status \in [Key -> AllStatuses] /\ \A k \in Key : status[k] \in Statuses(k)
  /\ draft \in [Key -> Drafts \cup {Nothing}]
  /\ plan \in [Capability -> {"none"} \cup PlanStatuses]
  /\ deployed \subseteq Source
  /\ registered \subseteq CapabilityIds
  /\ session \in [Client -> Session]
  /\ known \in [Source -> SUBSET Source]
  /\ excused \subseteq Key

NoRows == [ids |-> {}, seen |-> [k \in Key |-> "none"], plan |-> [p \in Capability |-> "none"]]

Init ==
  /\ status = [k \in Key |-> "none"]
  /\ draft = [k \in Key |-> Nothing]
  /\ plan = [p \in Capability |-> "none"]
  /\ deployed = {}
  /\ registered = {}
  /\ session = [c \in Client |-> NoRows]
  /\ known = [p \in Source |-> {}]
  /\ excused = {}

-----------------------------------------------------------------------------
(* Creating proposals *)

\* validate_public_https_source_url
PublicHttps(url) ==
  /\ url.scheme = "https"
  /\ url.host \in {"public_name", "public_address"}
  /\ ~url.credentials

\* The checks of validate_source_proposal on the source alone.
Presentable(source) ==
  /\ source.type \in {"rss", "http"}
  /\ ~source.query /\ ~source.secret
  /\ PublicHttps(source.url)
  /\ source.mode \in IF source.type = "rss" THEN {"feed_metadata"} ELSE {"http_summary", "metadata_only"}

Entries == Registry \cup {draft[p] : p \in deployed}
SameId(a, b) == a.id = b.id
SameIdentity(a, b) == a.type = b.type /\ a.url = b.url
Conflict(a, b) == SameId(a, b) \/ SameIdentity(a, b)

\* load_source_registry, SourceRegistryConfig: ids and identities are unique.
RegistryLoads ==
  /\ \A p \in deployed : \A e \in Registry : ~Conflict(draft[p], e)
  /\ \A p, q \in deployed : p # q => ~Conflict(draft[p], draft[q])

\* Mutant of NewToRegistry: the identity is not compared.
NewIdToRegistry(source) == \A e \in Entries : ~SameId(source, e)

\* The checks of validate_source_proposal against the registry.
NewToRegistry(source) == \A e \in Entries : ~Conflict(source, e)

Inserted(k, d) ==
  /\ status[k] = "none"
  /\ status' = [status EXCEPT ![k] = "pending"]
  /\ draft' = [draft EXCEPT ![k] = d]

\* create_source_proposal; a registry that does not load fails every request.
ProposeSource(p, source) ==
  /\ RegistryLoads
  /\ Presentable(source) /\ NewToRegistry(source)
  /\ Inserted(p, source)
  /\ known' = [known EXCEPT ![p] = deployed]
  /\ UNCHANGED <<plan, deployed, registered, session, excused>>

\* validate_capability_proposal
Proposable(capability) ==
  /\ ~capability.secret /\ ~capability.forbidden
  /\ capability.id \notin registered
  /\ capability.level # "L4_DESTRUCTIVE_OR_SECURITY_SENSITIVE"

ProposeCapability(p, capability) ==
  /\ Proposable(capability)
  /\ Inserted(p, capability)
  /\ UNCHANGED <<plan, deployed, registered, session, known, excused>>

\* validate_memory_payload
Memorable(memory) == memory.category \in
  {"preference", "alias", "routine", "service_alias", "notification_style",
   "project_interest", "default", "note"} /\ ~memory.secret

ProposeMemory(m, memory) ==
  /\ Memorable(memory)
  /\ Inserted(m, memory)
  /\ UNCHANGED <<plan, deployed, registered, session, known, excused>>

-----------------------------------------------------------------------------
(* Transactions on rows that exist *)

Live(m) == status[m] \in {"pending", "active"}

\* What a handler reads: the row it is asked about and, of a capability
\* proposal, its plan; to forget, live records up to the limit.
Readable == {{k} : k \in {j \in Key : status[j] # "none"}}
            \cup {M \in SUBSET {m \in Memory : Live(m)} : M # {} /\ Cardinality(M) <= ForgetLimit}

Contended(c, ids) == {k \in ids : \E d \in Client \ {c} : k \in session[d].ids}

OpenSession(c, ids) ==
  /\ session[c].ids = {}
  /\ session' = [session EXCEPT ![c] = [ids |-> ids,
       seen |-> [k \in Key |-> IF k \in ids THEN status[k] ELSE "none"],
       plan |-> [p \in Capability |-> IF p \in ids THEN plan[p] ELSE "none"]]]
  /\ excused' = excused \cup Contended(c, ids)
  /\ UNCHANGED <<status, draft, plan, deployed, registered, known>>

Seen(c, k) == session[c].seen[k]
End(c) == session' = [session EXCEPT ![c] = NoRows]

\* A request that was refused, or only read.
Refuse(c) ==
  /\ session[c].ids # {}
  /\ End(c)
  /\ UNCHANGED <<status, draft, plan, deployed, registered, known, excused>>

\* A request that found the row in one of the statuses from sets it to to.
\* A status that does not change is not written.
Decide(c, k, from, to) ==
  /\ session[c].ids = {k}
  /\ Seen(c, k) \in from
  /\ status' = IF Seen(c, k) = to THEN status ELSE [status EXCEPT ![k] = to]
  /\ End(c)
  /\ UNCHANGED <<draft, deployed, registered, known, excused>>

\* With the nonce through the API, without it from the dashboard.
ApproveSource(c, p) == Decide(c, p, {"pending"}, "approved") /\ UNCHANGED plan
RejectSource(c, p) == Decide(c, p, {"pending", "approved"}, "rejected") /\ UNCHANGED plan
ApplySource(c, p) == Decide(c, p, {"approved"}, "applied") /\ UNCHANGED plan

\* Mutant of Closable: anything but a finished plan can be closed.
ClosableUntilFinished == {"pending", "accepted", "implementation_planned"}

\* close_capability_proposal: allowed_current for "rejected" and "closed"
Closable == {"pending", "accepted"}

AcceptCapability(c, p) == Decide(c, p, {"pending"}, "accepted") /\ UNCHANGED plan
CloseCapability(c, p) ==
  \E to \in {"rejected", "closed"} : Decide(c, p, Closable, to) /\ UNCHANGED plan

\* create_implementation_plan.  The key of plans is unique: the transaction
\* fails when another one has inserted a plan.
PlanCapability(c, p) ==
  /\ session[c].plan[p] = "none"
  /\ plan[p] = "none"
  /\ Decide(c, p, {"accepted"}, "implementation_planned")
  /\ plan' = [plan EXCEPT ![p] = "implementation_planned"]

\* Mutant of FinishPlan: the plan keeps its status.
FinishProposal(c, p, to) ==
  /\ session[c].plan[p] = "implementation_planned"
  /\ Decide(c, p, {"implementation_planned"}, to)
  /\ UNCHANGED plan

\* mark_implementation_plan_status, but for its test of the registry
FinishPlan(c, p, to) ==
  /\ session[c].plan[p] = "implementation_planned"
  /\ Decide(c, p, {"implementation_planned"}, to)
  /\ plan' = [plan EXCEPT ![p] = to]

MarkImplemented(c, p) == FinishPlan(c, p, "implemented") /\ draft[p].id \in registered
Supersede(c, p) == FinishPlan(c, p, "superseded")

\* Mutant of Committable: what was proposed once can be committed.
AnyMemory == {"pending", "active", "forgotten"}

\* The statuses commit_memory does not refuse.
Committable == {"pending", "active"}

\* Mutant of CommitMemory: the status the answer names is stored.
CommitAsSaved(c, m) == Decide(c, m, Committable, "saved") /\ UNCHANGED plan

\* commit_memory
CommitMemory(c, m) == Decide(c, m, Committable, "active") /\ UNCHANGED plan

\* forget_memory: the records it read, all of them live
ForgetMemory(c) ==
  LET ids == session[c].ids
  IN  /\ ids # {} /\ ids \subseteq Memory
      /\ \A m \in ids : Seen(c, m) \in {"pending", "active"}
      /\ status' = [k \in Key |-> IF k \in ids THEN "forgotten" ELSE status[k]]
      /\ End(c)
      /\ UNCHANGED <<draft, plan, deployed, registered, known, excused>>

-----------------------------------------------------------------------------
(* The operator, outside the program *)

\* "Add source_entry under sources ..., then commit and redeploy."
DeploySource(p) ==
  /\ status[p] = "applied" /\ p \notin deployed
  /\ deployed' = deployed \cup {p}
  /\ UNCHANGED <<status, draft, plan, registered, session, known, excused>>

RegisterCapability(id) ==
  /\ id \notin registered
  /\ registered' = registered \cup {id}
  /\ UNCHANGED <<status, draft, plan, deployed, session, known, excused>>

SourceStep(c, p) == ApproveSource(c, p) \/ RejectSource(c, p) \/ ApplySource(c, p)

CapabilityStep(c, p) ==
  \/ AcceptCapability(c, p) \/ CloseCapability(c, p)
  \/ PlanCapability(c, p) \/ MarkImplemented(c, p) \/ Supersede(c, p)

Next ==
  \/ \E p \in Source : \E d \in SourceDrafts : ProposeSource(p, d)
  \/ \E p \in Capability : \E d \in CapabilityDrafts : ProposeCapability(p, d)
  \/ \E m \in Memory : \E d \in MemoryDrafts : ProposeMemory(m, d)
  \/ \E c \in Client : \E ids \in Readable : OpenSession(c, ids)
  \/ \E c \in Client : Refuse(c) \/ ForgetMemory(c)
  \/ \E c \in Client : \E p \in Source : SourceStep(c, p)
  \/ \E c \in Client : \E p \in Capability : CapabilityStep(c, p)
  \/ \E c \in Client : \E m \in Memory : CommitMemory(c, m)
  \/ \E p \in Source : DeploySource(p)
  \/ \E id \in CapabilityIds : RegisterCapability(id)

Spec == Init /\ [][Next]_vars

-----------------------------------------------------------------------------
(* Properties *)

\* However requests overlap, a proposal that shows a planning status has a
\* plan with the same status: the unique key and the common commit of both
\* rows are enough (create_implementation_plan, mark_implementation_plan_status).
PlanAgrees == \A p \in Capability : status[p] \in PlanStatuses => plan[p] = status[p]

\* A plan that is still open can be finished: its proposal shows it, so that
\* mark_implementation_plan_status accepts it.  Two requests on the proposal at
\* once can leave an open plan behind a closed or accepted proposal.
OpenPlanCanFinish ==
  \A p \in Capability \ excused : plan[p] = "implementation_planned" => status[p] = "implementation_planned"

Final == {"rejected", "closed", "applied", "implemented", "superseded", "forgotten"}

\* A decision stands: without a second request at work on the row, a proposal
\* that was rejected, closed, applied or finished, or a memory that was
\* forgotten, never changes again (the status tests of every handler).
DecisionsStand == [][\A k \in Key \ excused : status[k] \in Final => status'[k] = status[k]]_vars

\* An entry does not collide with what the registry held when it was proposed:
\* that the registry fails to load takes two proposals for one id or one URL
\* which were both made before either was deployed (validate_source_proposal;
\* nothing is compared again at approval or application).
CollisionsAreTwins ==
  /\ \A p \in deployed : \A e \in Registry : ~Conflict(draft[p], e)
  /\ \A p, q \in deployed : p # q /\ Conflict(draft[p], draft[q]) => p \notin known[q] /\ q \notin known[p]
=============================================================================
