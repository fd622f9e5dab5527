----------------------- MODULE ProposalsResearchProofs ----------------------
(***************************************************************************)
(* Theorems about Proposals, for any sets of proposals, drafts and         *)
(* requests, and about Research, for any sources, requests and number of   *)
(* queries: the two parts of the automation API whose requests are         *)
(* transactions that read a snapshot and write at the end.                 *)
(*                                                                         *)
(* Proposals, the invariant: a request at work on a row that no other      *)
(* request shared sees the row as it is (SoleReader), and what a proposal  *)
(* was compared with when it was made stays as it was (Compared).          *)
(*                                                                         *)
(* Research, the invariant: a query that has seen no other beside it is    *)
(* alone and its snapshot is still what is stored (ResearchInv); what a    *)
(* query is to write is of the sources it is done with, and new exactly    *)
(* where the snapshot has no such item (FetchFits).                        *)
(***************************************************************************)
EXTENDS Proposals, Research, FiniteSetTheorems, SequenceTheorems, TLAPS

-----------------------------------------------------------------------------
(* Proposals *)

SoleReader ==
  \A c \in Client : \A k \in session[c].ids :
    /\ status[k] # "none"
    /\ k \notin excused =>
         /\ session[c].seen[k] = status[k]
         /\ k \in Capability => session[c].plan[k] = plan[k]
         /\ \A d \in Client \ {c} : k \notin session[d].ids

Compared ==
  /\ \A p \in deployed : status[p] # "none"
  /\ \A p \in Source : known[p] \subseteq deployed
  /\ \A p \in Source : status[p] # "none" =>
       /\ \A e \in Registry : ~Conflict(draft[p], e)
       /\ \A q \in known[p] : ~Conflict(draft[p], draft[q])

ProposalsInvariant == TypeOK /\ PlanAgrees /\ OpenPlanCanFinish /\ SoleReader /\ Compared

\* Every change of an existing row: a request that read k alone, or records to forget.
DecideStep ==
  \E c \in Client :
    \/ Refuse(c) \/ ForgetMemory(c)
    \/ \E p \in Source : SourceStep(c, p)
    \/ \E p \in Capability : CapabilityStep(c, p)
    \/ \E m \in Memory : CommitMemory(c, m)

ProposeStep ==
  \/ \E p \in Source : \E d \in SourceDrafts : ProposeSource(p, d)
  \/ \E p \in Capability : \E d \in CapabilityDrafts : ProposeCapability(p, d)
  \/ \E m \in Memory : \E d \in MemoryDrafts : ProposeMemory(m, d)

\* Next by kinds of steps.
LEMMA NextCases ==
  Next <=> \/ ProposeStep \/ DecideStep
           \/ \E c \in Client : \E ids \in Readable : OpenSession(c, ids)
           \/ \E p \in Source : DeploySource(p)
           \/ \E id \in CapabilityIds : RegisterCapability(id)
BY DEF Next, ProposeStep, DecideStep

\* What a decision of request c does to the rows K, some of those it has read.
Writes(c, K) ==
  /\ K \subseteq session[c].ids
  /\ session' = [session EXCEPT ![c] = NoRows]
  /\ UNCHANGED <<draft, deployed, registered, known, excused>>
  /\ status' \in [Key -> AllStatuses]
  /\ plan' \in [Capability -> {"none"} \cup PlanStatuses]
  /\ \A k \in Key \ K : status'[k] = status[k]
  /\ \A p \in Capability \ K : plan'[p] = plan[p]
  /\ \A k \in K : session[c].seen[k] \notin Final /\ status'[k] \in Statuses(k) \ {"none"}
  /\ \A p \in Capability \cap K :
       /\ status'[p] \in PlanStatuses => plan'[p] = status'[p]
       /\ p \notin excused /\ plan'[p] = "implementation_planned" => status'[p] = "implementation_planned"

\* The statuses of any kind of row.
LEMMA KnownStatuses ==
  /\ AllStatuses \subseteq {"none", "pending", "approved", "rejected", "applied", "accepted", "closed",
                            "active", "forgotten", "implementation_planned", "implemented", "superseded"}
  /\ \A k \in Key : Statuses(k) \subseteq AllStatuses
BY DEF AllStatuses, Statuses, PlanStatuses

\* A decision on one row, given what it does to the row's plan.
LEMMA DecideWrites ==
  ASSUME ProposalsInvariant, NEW c \in Client, NEW k \in Key, NEW from, NEW to,
         Decide(c, k, from, to),
         to \in Statuses(k) \ {"none"}, from \cap Final = {},
         plan' \in [Capability -> {"none"} \cup PlanStatuses],
         \A p \in Capability \ {k} : plan'[p] = plan[p],
         k \in Capability =>
           /\ to \notin from
           /\ to \in PlanStatuses => plan'[k] = to
           /\ k \notin excused /\ plan'[k] = "implementation_planned" => to = "implementation_planned"
  PROVE  Writes(c, {k})
<1>1. /\ session[c].ids = {k} /\ session[c].seen[k] \in from
      /\ session' = [session EXCEPT ![c] = NoRows]
      /\ UNCHANGED <<draft, deployed, registered, known, excused>>
      /\ status' = IF session[c].seen[k] = to THEN status ELSE [status EXCEPT ![k] = to]
  BY DEF Decide, Seen, End
<1>2. status \in [Key -> AllStatuses] /\ status[k] \in Statuses(k) /\ status[k] # "none"
  BY <1>1 DEF ProposalsInvariant, TypeOK, SoleReader
<1>3. status' \in [Key -> AllStatuses]
  BY <1>1, <1>2, KnownStatuses
<1>4. \A j \in Key \ {k} : status'[j] = status[j]
  BY <1>1, <1>2
<1>5. status'[k] \in {to, status[k]} /\ (k \in Capability => status'[k] = to)
  BY <1>1, <1>2
<1>. QED
  BY <1>1, <1>2, <1>3, <1>4, <1>5 DEF Writes

\* Decisions that leave the plan alone: the row is not a capability proposal,
\* or it was seen in a status from which a plan is still to be made.
LEMMA PlainDecideWrites ==
  ASSUME ProposalsInvariant, NEW c \in Client, NEW k \in Key, NEW from, NEW to,
         Decide(c, k, from, to), UNCHANGED plan,
         to \in Statuses(k) \ {"none"}, from \cap Final = {},
         k \in Capability => to \notin from \cup PlanStatuses /\ from \cap PlanStatuses = {}
  PROVE  Writes(c, {k})
<1>1. plan' \in [Capability -> {"none"} \cup PlanStatuses] /\ \A p \in Capability \ {k} : plan'[p] = plan[p]
  BY DEF ProposalsInvariant, TypeOK
<1>2. ASSUME k \in Capability, k \notin excused PROVE plan'[k] # "implementation_planned"
  <2>1. session[c].seen[k] = status[k] /\ status[k] \in from
    BY <1>2 DEF ProposalsInvariant, SoleReader, Decide, Seen
  <2>2. status[k] # "implementation_planned"
    BY <1>2, <2>1 DEF PlanStatuses
  <2>. QED
    BY <1>2, <2>2 DEF ProposalsInvariant, OpenPlanCanFinish
<1>. QED
  BY <1>1, <1>2, DecideWrites

\* Every decision changes its rows as Writes says.
LEMMA DecisionsWrite ==
  ASSUME ProposalsInvariant, DecideStep
  PROVE  \E c \in Client : \E K \in SUBSET Key : Writes(c, K)
<1>. USE DEF Key
<1>t. /\ status \in [Key -> AllStatuses] /\ \A k \in Key : status[k] \in Statuses(k)
      /\ plan \in [Capability -> {"none"} \cup PlanStatuses]
      /\ session \in [Client -> Session]
  BY DEF ProposalsInvariant, TypeOK
<1>1. ASSUME NEW c \in Client, Refuse(c) PROVE Writes(c, {})
  BY <1>1, <1>t DEF Refuse, End, Writes
<1>2. ASSUME NEW c \in Client, ForgetMemory(c) PROVE Writes(c, session[c].ids)
  <2>1. session[c].ids \subseteq Memory /\ session[c].ids \subseteq Key
    BY <1>2, <1>t DEF ForgetMemory
  <2>2. \A k \in session[c].ids : session[c].seen[k] \notin Final
    BY <1>2 DEF ForgetMemory, Seen, Final
  <2>3. \A k \in session[c].ids : "forgotten" \in Statuses(k) \ {"none"}
    BY <2>1, ProposalsAssumption DEF Statuses
  <2>4. /\ \A k \in session[c].ids : status'[k] = "forgotten"
        /\ \A k \in Key \ session[c].ids : status'[k] = status[k]
    BY <1>2, <2>1 DEF ForgetMemory
  <2>5. status' \in [Key -> AllStatuses]
    BY <1>2, <1>t, <2>3, KnownStatuses, <2>1 DEF ForgetMemory
  <2>6. \A p \in Capability : p \notin session[c].ids
    BY <2>1, ProposalsAssumption
  <2>. QED
    BY <1>2, <1>t, <2>2, <2>3, <2>4, <2>5, <2>6 DEF ForgetMemory, Writes, End
<1>3. ASSUME NEW c \in Client, NEW p \in Source, SourceStep(c, p) PROVE Writes(c, {p})
  <2>1. p \notin Capability /\ {"approved", "rejected", "applied"} \subseteq Statuses(p) \ {"none"}
    BY ProposalsAssumption DEF Statuses
  <2>. QED
    BY <1>3, <2>1, PlainDecideWrites DEF SourceStep, ApproveSource, RejectSource, ApplySource, Final
<1>4. ASSUME NEW c \in Client, NEW m \in Memory, CommitMemory(c, m) PROVE Writes(c, {m})
  <2>1. m \notin Capability /\ "active" \in Statuses(m) \ {"none"}
    BY ProposalsAssumption DEF Statuses
  <2>. QED
    BY <1>4, <2>1, PlainDecideWrites DEF CommitMemory, Committable, Final
<1>5. ASSUME NEW c \in Client, NEW p \in Capability, CapabilityStep(c, p) PROVE Writes(c, {p})
  <2>1. {"accepted", "rejected", "closed", "implementation_planned", "implemented", "superseded"}
          \subseteq Statuses(p) \ {"none"}
    BY ProposalsAssumption DEF Statuses, PlanStatuses
  <2>2. CASE AcceptCapability(c, p) \/ CloseCapability(c, p)
    BY <2>1, <2>2, PlainDecideWrites DEF AcceptCapability, CloseCapability, Closable, Final, PlanStatuses
  <2>3. CASE PlanCapability(c, p)
    <3>1. /\ plan' \in [Capability -> {"none"} \cup PlanStatuses] /\ plan'[p] = "implementation_planned"
          /\ \A q \in Capability \ {p} : plan'[q] = plan[q]
      BY <2>3, <1>t DEF PlanCapability, PlanStatuses
    <3>2. Decide(c, p, {"accepted"}, "implementation_planned")
      BY <2>3 DEF PlanCapability
    <3>. QED
      BY <2>1, <3>1, <3>2, DecideWrites DEF Final
  <2>4. ASSUME NEW to \in {"implemented", "superseded"}, FinishPlan(c, p, to) PROVE Writes(c, {p})
    <3>1. /\ plan' \in [Capability -> {"none"} \cup PlanStatuses] /\ plan'[p] = to
          /\ \A q \in Capability \ {p} : plan'[q] = plan[q]
      BY <2>4, <1>t DEF FinishPlan, PlanStatuses
    <3>2. Decide(c, p, {"implementation_planned"}, to)
      BY <2>4 DEF FinishPlan
    <3>. QED
      BY <2>1, <3>1, <3>2, DecideWrites DEF Final
  <2>. QED
    BY <1>5, <2>2, <2>3, <2>4 DEF CapabilityStep, MarkImplemented, Supersede
<1>6. \A c \in Client : session[c].ids \in SUBSET Key
  BY <1>t DEF Session
<1>7. PICK c \in Client :
        \/ Refuse(c) \/ ForgetMemory(c)
        \/ \E p \in Source : SourceStep(c, p)
        \/ \E p \in Capability : CapabilityStep(c, p)
        \/ \E m \in Memory : CommitMemory(c, m)
  BY DEF DecideStep
<1>8. CASE Refuse(c)
  <2>1. {} \in SUBSET Key
    OBVIOUS
  <2>. QED
    BY <1>1, <1>8, <2>1
<1>9. CASE ForgetMemory(c)
  BY <1>2, <1>6, <1>9
<1>10. CASE \E p \in Source : SourceStep(c, p)
  <2>1. PICK p \in Source : SourceStep(c, p)
    BY <1>10
  <2>2. {p} \in SUBSET Key
    OBVIOUS
  <2>. QED
    BY <1>3, <2>1, <2>2
<1>11. CASE \E p \in Capability : CapabilityStep(c, p)
  <2>1. PICK p \in Capability : CapabilityStep(c, p)
    BY <1>11
  <2>2. {p} \in SUBSET Key
    OBVIOUS
  <2>. QED
    BY <1>5, <2>1, <2>2
<1>12. CASE \E m \in Memory : CommitMemory(c, m)
  <2>1. PICK m \in Memory : CommitMemory(c, m)
    BY <1>12
  <2>2. {m} \in SUBSET Key
    OBVIOUS
  <2>. QED
    BY <1>4, <2>1, <2>2
<1>. QED
  BY <1>7, <1>8, <1>9, <1>10, <1>11, <1>12

-----------------------------------------------------------------------------
(* The invariant *)

LEMMA InitInvariant == Init => ProposalsInvariant
<1>. SUFFICES ASSUME Init PROVE ProposalsInvariant
  OBVIOUS
<1>1. TypeOK
  <2>1. \A k \in Key : "none" \in Statuses(k) /\ "none" \in AllStatuses
    BY KnownStatuses DEF Statuses
  <2>. QED
    BY <2>1 DEF Init, TypeOK, NoRows, Session
<1>2. PlanAgrees /\ OpenPlanCanFinish
  BY DEF Init, PlanAgrees, OpenPlanCanFinish, PlanStatuses, Key
<1>3. SoleReader
  BY DEF Init, SoleReader, NoRows
<1>4. Compared
  BY DEF Init, Compared, Key
<1>. QED
  BY <1>1, <1>2, <1>3, <1>4 DEF ProposalsInvariant

\* A decision keeps the invariant.
LEMMA WritesKeep ==
  ASSUME ProposalsInvariant, NEW c \in Client, NEW K \in SUBSET Key, Writes(c, K)
  PROVE  ProposalsInvariant'
<1>t. TypeOK
  BY DEF ProposalsInvariant
<1>1. TypeOK'
  <2>1. NoRows \in Session
    <3>1. \A k \in Key : "none" \in AllStatuses
      BY KnownStatuses DEF Statuses
    <3>. QED
      BY <3>1 DEF NoRows, Session
  <2>2. session' \in [Client -> Session]
    BY <2>1, <1>t DEF Writes, TypeOK
  <2>3. \A k \in Key : status'[k] \in Statuses(k)
    BY <1>t DEF Writes, TypeOK
  <2>. QED
    BY <1>t, <2>2, <2>3 DEF Writes, TypeOK
<1>2. PlanAgrees'
  BY DEF Writes, ProposalsInvariant, PlanAgrees, Key
<1>3. OpenPlanCanFinish'
  BY DEF Writes, ProposalsInvariant, OpenPlanCanFinish, Key
<1>4. SoleReader'
  <2>. SUFFICES ASSUME NEW d \in Client, NEW k \in session'[d].ids
                PROVE  /\ status'[k] # "none"
                       /\ k \notin excused =>
                            /\ session'[d].seen[k] = status'[k]
                            /\ k \in Capability => session'[d].plan[k] = plan'[k]
                            /\ \A b \in Client \ {d} : k \notin session'[b].ids
    BY DEF SoleReader, Writes
  <2>1. d # c /\ session'[d] = session[d] /\ k \in session[d].ids
    BY <1>t DEF Writes, TypeOK, NoRows
  <2>2. k \in Key
    BY <2>1, <1>t DEF TypeOK, Session
  <2>3. status'[k] # "none"
    BY <2>1, <2>2 DEF Writes, ProposalsInvariant, SoleReader
  <2>4. ASSUME k \notin excused PROVE k \notin K
    BY <2>1, <2>4 DEF Writes, ProposalsInvariant, SoleReader
  <2>5. \A b \in Client : session'[b].ids \subseteq session[b].ids
    BY <1>t DEF Writes, TypeOK, NoRows
  <2>. QED
    BY <2>1, <2>2, <2>3, <2>4, <2>5 DEF Writes, ProposalsInvariant, SoleReader
<1>5. Compared'
  <2>1. \A k \in Key : status'[k] # "none" <=> status[k] # "none"
    BY DEF Writes, ProposalsInvariant, SoleReader
  <2>2. Source \subseteq Key /\ deployed \subseteq Source
    BY <1>t DEF Key, TypeOK
  <2>. QED
    BY <2>1, <2>2 DEF Writes, ProposalsInvariant, Compared
<1>. QED
  BY <1>1, <1>2, <1>3, <1>4, <1>5 DEF ProposalsInvariant

\* So does a new proposal: no request has read its row, nothing deployed is it.
LEMMA ProposeKeeps ==
  ASSUME ProposalsInvariant, ProposeStep
  PROVE  ProposalsInvariant'
<1>t. TypeOK
  BY DEF ProposalsInvariant
<1>1. PICK k \in Key, d \in Drafts :
        /\ Inserted(k, d)
        /\ UNCHANGED <<plan, deployed, registered, session, excused>>
        /\ \/ UNCHANGED known /\ k \notin Source
           \/ k \in Source /\ NewToRegistry(d) /\ known' = [known EXCEPT ![k] = deployed]
  BY ProposalsAssumption
     DEF ProposeStep, ProposeSource, ProposeCapability, ProposeMemory, Key, Drafts
<1>2. /\ status[k] = "none" /\ status' = [status EXCEPT ![k] = "pending"]
      /\ draft' = [draft EXCEPT ![k] = d]
  BY <1>1 DEF Inserted
<1>3. "pending" \in Statuses(k) /\ "pending" \in AllStatuses
  BY KnownStatuses DEF Statuses
<1>4. TypeOK'
  BY <1>1, <1>2, <1>3, <1>t DEF TypeOK
<1>5. PlanAgrees'
  BY <1>1, <1>2, <1>t DEF ProposalsInvariant, PlanAgrees, PlanStatuses, TypeOK, Key
<1>6. OpenPlanCanFinish'
  BY <1>1, <1>2, <1>t DEF ProposalsInvariant, OpenPlanCanFinish, PlanAgrees, TypeOK, Key
<1>7. SoleReader'
  <2>1. \A c \in Client : k \notin session[c].ids /\ session[c].ids \subseteq Key
    BY <1>2, <1>t DEF ProposalsInvariant, SoleReader, TypeOK, Session
  <2>2. \A c \in Client : \A j \in session[c].ids : status'[j] = status[j]
    BY <1>2, <1>t, <2>1 DEF TypeOK
  <2>. QED
    BY <1>1, <2>1, <2>2 DEF ProposalsInvariant, SoleReader
<1>8. Compared'
  <2>1. k \notin deployed /\ \A p \in Source : k \notin known[p]
    BY <1>2 DEF ProposalsInvariant, Compared
  <2>2. \A j \in Key \ {k} : status'[j] = status[j] /\ draft'[j] = draft[j]
    BY <1>2, <1>t DEF TypeOK
  <2>3. draft'[k] = d
    BY <1>2, <1>t DEF TypeOK
  <2>4. Source \subseteq Key /\ deployed \subseteq Source /\ \A p \in Source : known[p] \subseteq deployed
    BY <1>t DEF Key, TypeOK, ProposalsInvariant, Compared
  <2>5. /\ \A p \in deployed' : status'[p] # "none"
        /\ \A p \in Source : known'[p] \subseteq deployed'
    BY <1>1, <2>1, <2>2, <2>4, <1>t DEF ProposalsInvariant, Compared, TypeOK
  <2>6. ASSUME NEW p \in Source, status'[p] # "none"
        PROVE  /\ \A e \in Registry : ~Conflict(draft'[p], e)
               /\ \A q \in known'[p] : ~Conflict(draft'[p], draft'[q])
    <3>1. CASE p = k
      <4>1. NewToRegistry(d) /\ known'[p] = deployed
        BY <1>1, <1>t, <3>1, <2>6 DEF TypeOK
      <4>. QED
        BY <3>1, <4>1, <2>1, <2>2, <2>3, <2>4 DEF NewToRegistry, Entries
    <3>2. CASE p # k
      <4>1. known'[p] = known[p] /\ status[p] # "none" /\ draft'[p] = draft[p]
        BY <1>1, <1>t, <3>2, <2>2, <2>4, <2>6 DEF TypeOK
      <4>2. \A q \in known[p] : draft'[q] = draft[q]
        BY <2>1, <2>2, <2>4
      <4>. QED
        BY <4>1, <4>2 DEF ProposalsInvariant, Compared
    <3>. QED
      BY <3>1, <3>2
  <2>. QED
    BY <2>5, <2>6 DEF Compared
<1>. QED
  BY <1>4, <1>5, <1>6, <1>7, <1>8 DEF ProposalsInvariant

\* A request that reads rows others have read excuses them.
LEMMA OpenKeeps ==
  ASSUME ProposalsInvariant, NEW c \in Client, NEW ids \in Readable, OpenSession(c, ids)
  PROVE  ProposalsInvariant'
<1>t. TypeOK
  BY DEF ProposalsInvariant
<1>1. ids \subseteq Key /\ \A k \in ids : status[k] # "none"
  BY DEF Readable, Live, Key
<1>2. /\ session[c].ids = {}
      /\ session' = [session EXCEPT ![c] = [ids |-> ids,
           seen |-> [k \in Key |-> IF k \in ids THEN status[k] ELSE "none"],
           plan |-> [p \in Capability |-> IF p \in ids THEN plan[p] ELSE "none"]]]
      /\ excused' = excused \cup Contended(c, ids)
      /\ UNCHANGED <<status, draft, plan, deployed, registered, known>>
  BY DEF OpenSession
<1>3. /\ session'[c].ids = ids
      /\ \A k \in ids : session'[c].seen[k] = status[k]
      /\ \A p \in ids \cap Capability : session'[c].plan[p] = plan[p]
      /\ \A d \in Client \ {c} : session'[d] = session[d]
  BY <1>1, <1>2, <1>t DEF TypeOK
<1>4. TypeOK'
  <2>1. "none" \in AllStatuses
    BY <1>1, <1>t, KnownStatuses DEF TypeOK, AllStatuses, Statuses, Readable, Key
  <2>2. [ids |-> ids, seen |-> [k \in Key |-> IF k \in ids THEN status[k] ELSE "none"],
         plan |-> [p \in Capability |-> IF p \in ids THEN plan[p] ELSE "none"]] \in Session
    BY <1>1, <1>t, <2>1 DEF TypeOK, Session
  <2>3. excused' \subseteq Key
    BY <1>1, <1>2, <1>t DEF TypeOK, Contended
  <2>. QED
    BY <1>2, <1>t, <2>2, <2>3 DEF TypeOK
<1>5. SoleReader'
  <2>. SUFFICES ASSUME NEW d \in Client, NEW k \in session'[d].ids
                PROVE  /\ status[k] # "none"
                       /\ k \notin excused' =>
                            /\ session'[d].seen[k] = status[k]
                            /\ k \in Capability => session'[d].plan[k] = plan[k]
                            /\ \A b \in Client \ {d} : k \notin session'[b].ids
    BY <1>2 DEF SoleReader
  <2>1. CASE d = c
    <3>1. k \notin excused' => \A b \in Client \ {c} : k \notin session[b].ids
      BY <1>2, <1>3, <2>1 DEF Contended
    <3>. QED
      BY <1>1, <1>3, <2>1, <3>1
  <2>2. CASE d # c
    <3>1. k \notin excused' => k \notin ids /\ k \notin excused
      BY <1>2, <1>3, <2>2 DEF Contended
    <3>. QED
      BY <1>3, <2>2, <3>1 DEF ProposalsInvariant, SoleReader
  <2>. QED
    BY <2>1, <2>2
<1>6. PlanAgrees' /\ OpenPlanCanFinish' /\ Compared'
  BY <1>2 DEF ProposalsInvariant, PlanAgrees, OpenPlanCanFinish, Compared
<1>. QED
  BY <1>4, <1>5, <1>6 DEF ProposalsInvariant

LEMMA NextInvariant == ProposalsInvariant /\ [Next]_vars => ProposalsInvariant'
<1>. SUFFICES ASSUME ProposalsInvariant, [Next]_vars PROVE ProposalsInvariant'
  OBVIOUS
<1>1. CASE ProposeStep
  BY <1>1, ProposeKeeps
<1>2. CASE DecideStep
  BY <1>2, DecisionsWrite, WritesKeep
<1>3. CASE \E c \in Client : \E ids \in Readable : OpenSession(c, ids)
  BY <1>3, OpenKeeps
<1>4. CASE \E p \in Source : DeploySource(p)
  <2>1. PICK p \in Source : status[p] = "applied" /\ deployed' = deployed \cup {p}
                             /\ UNCHANGED <<status, draft, plan, registered, session, known, excused>>
    BY <1>4 DEF DeploySource
  <2>. QED
    BY <2>1 DEF ProposalsInvariant, TypeOK, PlanAgrees, OpenPlanCanFinish, SoleReader, Compared
<1>5. CASE \E id \in CapabilityIds : RegisterCapability(id)
  BY <1>5 DEF RegisterCapability, ProposalsInvariant, TypeOK, PlanAgrees, OpenPlanCanFinish, SoleReader, Compared
<1>6. CASE UNCHANGED vars
  BY <1>6 DEF vars, ProposalsInvariant, TypeOK, PlanAgrees, OpenPlanCanFinish, SoleReader, Compared
<1>. QED
  BY <1>1, <1>2, <1>3, <1>4, <1>5, <1>6, NextCases

\* The invariant of the proposals holds for any number of proposals and requests.
THEOREM ProposalsInvariantHolds == Spec => []ProposalsInvariant
<1>. QED
  BY InitInvariant, NextInvariant, PTL DEF Spec

-----------------------------------------------------------------------------
(* The properties *)

\* Rows, plans and what requests have read keep their types (Proposals).
THEOREM ProposalTypes == Spec => []TypeOK
<1>1. ProposalsInvariant => TypeOK
  BY DEF ProposalsInvariant
<1>. QED
  BY <1>1, ProposalsInvariantHolds, PTL

\* Whatever overlaps, a planning status is the status of the plan
\* (create_implementation_plan, mark_implementation_plan_status).
THEOREM PlansAgree == Spec => []PlanAgrees
<1>1. ProposalsInvariant => PlanAgrees
  BY DEF ProposalsInvariant
<1>. QED
  BY <1>1, ProposalsInvariantHolds, PTL

\* Without overlapping requests an open plan can be finished
\* (close_capability_proposal).
THEOREM OpenPlansCanFinish == Spec => []OpenPlanCanFinish
<1>1. ProposalsInvariant => OpenPlanCanFinish
  BY DEF ProposalsInvariant
<1>. QED
  BY <1>1, ProposalsInvariantHolds, PTL

\* Registry entries collide only when both were proposed before either was
\* deployed (validate_source_proposal).
THEOREM OnlyTwinsCollide == Spec => []CollisionsAreTwins
<1>1. ASSUME ProposalsInvariant PROVE CollisionsAreTwins
  <2>1. /\ \A p \in deployed : p \in Source /\ status[p] # "none"
        /\ \A p, q \in deployed : Conflict(draft[p], draft[q]) <=> Conflict(draft[q], draft[p])
    BY <1>1 DEF ProposalsInvariant, Compared, TypeOK, Conflict, SameId, SameIdentity
  <2>. QED
    BY <1>1, <2>1 DEF ProposalsInvariant, Compared, CollisionsAreTwins
<1>. QED
  BY <1>1, ProposalsInvariantHolds, PTL

\* A decision stands unless two requests worked on the row at once (the status
\* tests of the handlers).
THEOREM DecisionsStandAlone == Spec => DecisionsStand
<1>1. ASSUME ProposalsInvariant, Next,
             NEW k \in Key \ excused, status[k] \in Final
      PROVE  status'[k] = status[k]
  <2>1. CASE ProposeStep
    <3>1. PICK j \in Key : status[j] = "none" /\ status' = [status EXCEPT ![j] = "pending"]
      BY <2>1 DEF ProposeStep, ProposeSource, ProposeCapability, ProposeMemory, Inserted, Key
    <3>2. j # k
      BY <1>1, <3>1 DEF Final
    <3>. QED
      BY <1>1, <3>1, <3>2 DEF ProposalsInvariant, TypeOK
  <2>2. CASE DecideStep
    <3>1. PICK c \in Client, K \in SUBSET Key : Writes(c, K)
      BY <1>1, <2>2, DecisionsWrite
    <3>2. k \in K => session[c].seen[k] = status[k] /\ session[c].seen[k] \notin Final
      BY <1>1, <3>1 DEF Writes, ProposalsInvariant, SoleReader
    <3>. QED
      BY <1>1, <3>1, <3>2 DEF Writes
  <2>. QED
    BY <1>1, <2>1, <2>2, NextCases DEF OpenSession, DeploySource, RegisterCapability
<1>2. ProposalsInvariant /\ [Next]_vars
        => [\A k \in Key \ excused : status[k] \in Final => status'[k] = status[k]]_vars
  BY <1>1
<1>. QED
  BY <1>2, ProposalsInvariantHolds, PTL DEF Spec, DecisionsStand

-----------------------------------------------------------------------------
(* Sequences made of sets *)

\* ahead orders S: it tells for each element which others come before it.
Orders(ahead, S) ==
  /\ \A k \in S : ahead[k] \subseteq S /\ k \notin ahead[k]
  /\ \A j, k \in S : j # k => j \in ahead[k] \/ k \in ahead[j]
  /\ \A j, k \in S : j \in ahead[k] => ahead[j] \subseteq ahead[k]

\* As many elements as come before one are its position: each position is
\* taken, once.
LEMMA OrderCounts ==
  ASSUME NEW S, IsFiniteSet(S), NEW ahead, Orders(ahead, S)
  PROVE  /\ Cardinality(S) \in Nat
         /\ \A k \in S : Cardinality(ahead[k]) \in 0..(Cardinality(S) - 1)
         /\ \A n \in 1..Cardinality(S) : \E k \in S : Cardinality(ahead[k]) = n - 1
<1>. DEFINE size == Cardinality(S)
            place == [k \in S |-> Cardinality(ahead[k])]
<1>1. size \in Nat
  BY FS_CardinalityType
<1>2. ASSUME NEW k \in S
      PROVE  /\ IsFiniteSet(ahead[k]) /\ Cardinality(ahead[k]) \in Nat /\ Cardinality(ahead[k]) < size
  <2>1. ahead[k] \in SUBSET S /\ ahead[k] # S
    BY DEF Orders
  <2>2. IsFiniteSet(ahead[k]) /\ Cardinality(ahead[k]) <= size /\ Cardinality(ahead[k]) # size
    BY <2>1, FS_Subset
  <2>3. Cardinality(ahead[k]) \in Nat
    BY <2>2, FS_CardinalityType
  <2>. QED
    BY <1>1, <2>2, <2>3
<1>3. \A k \in S : Cardinality(ahead[k]) \in 0..(size - 1)
  BY <1>1, <1>2
<1>4. ASSUME NEW j \in S, NEW k \in S, j \in ahead[k]
      PROVE  Cardinality(ahead[j]) # Cardinality(ahead[k])
  <2>1. ahead[j] \in SUBSET ahead[k] /\ ahead[j] # ahead[k]
    BY <1>4 DEF Orders
  <2>2. IsFiniteSet(ahead[k])
    BY <1>2
  <2>. QED
    BY <2>1, <2>2, FS_Subset
<1>5. place \in Injection(S, 0..(size - 1))
  <2>1. place \in [S -> 0..(size - 1)]
    BY <1>3
  <2>2. ASSUME NEW j \in S, NEW k \in S, place[j] = place[k]
        PROVE  j = k
    BY <1>4, <2>2 DEF Orders
  <2>. QED
    BY <2>1, <2>2 DEF Injection, IsInjective
<1>6. IsFiniteSet(0..(size - 1)) /\ Cardinality(0..(size - 1)) = size
  BY <1>1, FS_Interval
<1>7. place \in Surjection(S, 0..(size - 1))
  BY <1>5, <1>6, FS_Injection
<1>8. ASSUME NEW n \in 1..size
      PROVE  \E k \in S : Cardinality(ahead[k]) = n - 1
  <2>1. n - 1 \in 0..(size - 1)
    BY <1>1
  <2>. QED
    BY <1>7, <2>1 DEF Surjection
<1>. QED
  BY <1>1, <1>3, <1>8

\* What InOrder returns.
LEMMA InOrderIs ==
  ASSUME NEW S, IsFiniteSet(S), NEW ahead, Orders(ahead, S)
  PROVE  /\ InOrder(S, ahead) \in Seq(S) /\ Len(InOrder(S, ahead)) = Cardinality(S)
         /\ \A m, n \in 1..Cardinality(S) : InOrder(S, ahead)[m] = InOrder(S, ahead)[n] => m = n
         /\ InOrder(S, ahead) = <<>> <=> S = {}
<1>. DEFINE size == Cardinality(S)
            sorted == InOrder(S, ahead)
<1>1. size \in Nat /\ (size = 0 <=> S = {})
  BY FS_CardinalityType, FS_EmptySet
<1>2. ASSUME NEW n \in 1..size
      PROVE  sorted[n] \in S /\ Cardinality(ahead[sorted[n]]) = n - 1
  BY OrderCounts DEF InOrder
<1>3. sorted = [n \in 1..size |-> sorted[n]]
  BY DEF InOrder
<1>4. sorted \in Seq(S) /\ Len(sorted) = size
  <2>1. sorted \in [1..size -> S]
    BY <1>2, <1>3
  <2>. HIDE DEF sorted
  <2>. QED
    BY <1>1, <2>1
<1>5. ASSUME NEW m \in 1..size, NEW n \in 1..size, sorted[m] = sorted[n]
      PROVE  m = n
  <2>1. m - 1 = n - 1
    BY <1>2, <1>5
  <2>. QED
    BY <1>1, <2>1
<1>6. sorted = <<>> <=> size = 0
  <2>. HIDE DEF sorted, size
  <2>. QED
    BY <1>1, <1>4
<1>. QED
  BY <1>1, <1>4, <1>5, <1>6

LEMMA AscendingIs ==
  ASSUME NEW S \in SUBSET Nat, IsFiniteSet(S)
  PROVE  /\ Ascending(S) \in Seq(S) /\ Len(Ascending(S)) = Cardinality(S)
         /\ \A m, n \in 1..Cardinality(S) : Ascending(S)[m] = Ascending(S)[n] => m = n
         /\ Ascending(S) = <<>> <=> S = {}
<1>. DEFINE ahead == [n \in S |-> {m \in S : m < n}]
<1>1. Orders(ahead, S)
  <2>1. \A k \in S : ahead[k] = {m \in S : m < k}
    OBVIOUS
  <2>. HIDE DEF ahead
  <2>2. \A k \in S : ahead[k] \subseteq S /\ k \notin ahead[k]
    <3>1. \A k \in S : ~(k < k)
      OBVIOUS
    <3>. QED
      BY <2>1, <3>1
  <2>3. \A j, k \in S : j # k => j \in ahead[k] \/ k \in ahead[j]
    BY <2>1
  <2>4. ASSUME NEW j \in S, NEW k \in S, j \in ahead[k], NEW m \in ahead[j]
        PROVE  m \in ahead[k]
    <3>1. m \in S /\ m < j /\ j < k
      BY <2>1, <2>4
    <3>2. m < k
      BY <3>1
    <3>. QED
      BY <2>1, <3>1, <3>2
  <2>. QED
    BY <2>2, <2>3, <2>4 DEF Orders
<1>2. Ascending(S) = InOrder(S, ahead)
  BY DEF Ascending
<1>3. /\ InOrder(S, ahead) \in Seq(S) /\ Len(InOrder(S, ahead)) = Cardinality(S)
      /\ \A m, n \in 1..Cardinality(S) : InOrder(S, ahead)[m] = InOrder(S, ahead)[n] => m = n
      /\ InOrder(S, ahead) = <<>> <=> S = {}
  <2>. HIDE DEF ahead
  <2>. QED
    BY <1>1, InOrderIs
<1>. QED
  BY <1>2, <1>3

-----------------------------------------------------------------------------
(* Selecting sources *)

LEMMA SeqOfElements ==
  ASSUME NEW s, s \in Seq(Range(s)), NEW T, Range(s) \subseteq T
  PROVE  s \in Seq(T)
<1>1. Len(s) \in Nat /\ DOMAIN s = 1..Len(s) /\ s = [n \in 1..Len(s) |-> s[n]]
  OBVIOUS
<1>2. \A n \in 1..Len(s) : s[n] \in T
  BY <1>1 DEF Range
<1>. QED
  BY <1>1, <1>2

LEMMA FeedsAre ==
  /\ IsFiniteSet(FeedNames) /\ FeedNames \subseteq Nat
  /\ EnabledFeeds \subseteq FeedNames
<1>1. ApprovedFeeds \in Seq(Range(ApprovedFeeds))
  <2>. DEFINE tabled == [n \in DOMAIN FeedTable |-> TableFeed(FeedTable[n])]
              all == Range(OwnFeeds) \cup Range(tabled)
  <2>1. OwnFeeds \in Seq(all)
    BY SourceAssumption, SeqOfElements
  <2>2. Len(FeedTable) \in Nat /\ DOMAIN FeedTable = 1..Len(FeedTable)
    BY SourceAssumption
  <2>3. tabled \in [1..Len(FeedTable) -> all]
    BY <2>2 DEF Range
  <2>4. tabled \in Seq(all)
    BY <2>2, <2>3
  <2>5. ApprovedFeeds \in Seq(all)
    BY <2>1, <2>4 DEF ApprovedFeeds
  <2>. QED
    BY <2>5 DEF Range
<1>2. FeedNames = 1..Len(ApprovedFeeds) /\ Len(ApprovedFeeds) \in Nat
  BY <1>1 DEF FeedNames
<1>. QED
  BY <1>2, FS_Interval DEF EnabledFeeds

\* The sources of a query: each is approved, none comes twice.
LEMMA SelectedSources ==
  ASSUME NEW request \in ResearchRequests
  PROVE  /\ SelectSources(request) \in Seq(FeedNames)
         /\ \A i, j \in DOMAIN SelectSources(request) :
              SelectSources(request)[i] = SelectSources(request)[j] => i = j
<1>. DEFINE ids == request.ids
            chosen == IF MatchingFeeds(request) # {} THEN MatchingFeeds(request) ELSE FeedsOfCategory(request)
<1>1. CASE ids # <<>> /\ Range(ids) \subseteq EnabledFeeds
  <2>1. SelectSources(request) = ids
    BY <1>1 DEF SelectSources
  <2>2. ids \in Seq(FeedNames)
    <3>1. ids \in Seq(Range(ids)) /\ Range(ids) \subseteq FeedNames
      BY <1>1, RequestAssumption, FeedsAre
    <3>. QED
      BY <3>1, SeqOfElements
  <2>. QED
    BY <2>1, <2>2, RequestAssumption
<1>2. CASE ids # <<>> /\ ~(Range(ids) \subseteq EnabledFeeds)
  <2>1. SelectSources(request) = <<>>
    BY <1>2 DEF SelectSources
  <2>. QED
    BY <2>1
<1>3. CASE ids = <<>>
  <2>1. SelectSources(request) = Ascending(chosen)
    BY <1>3 DEF SelectSources
  <2>2. chosen \subseteq FeedNames
    BY FeedsAre DEF MatchingFeeds, FeedsOfCategory
  <2>3. IsFiniteSet(chosen) /\ chosen \in SUBSET Nat
    BY <2>2, FeedsAre, FS_Subset
  <2>. HIDE DEF chosen
  <2>4. /\ Ascending(chosen) \in Seq(chosen) /\ Len(Ascending(chosen)) = Cardinality(chosen)
        /\ \A m, n \in 1..Cardinality(chosen) : Ascending(chosen)[m] = Ascending(chosen)[n] => m = n
    BY <2>3, AscendingIs
  <2>5. DOMAIN Ascending(chosen) = 1..Cardinality(chosen)
    BY <2>4
  <2>. QED
    BY <2>1, <2>2, <2>4, <2>5
<1>. QED
  BY <1>1, <1>2, <1>3

-----------------------------------------------------------------------------
(* Answers *)

ItemId == FeedNames \X Nat

\* A table of items of approved sources, none of them from the future.
RowsFit(table) ==
  /\ IsFiniteSet(DOMAIN table) /\ DOMAIN table \subseteq ItemId
  /\ \A k \in DOMAIN table : table[k].at \in Nat /\ table[k].at <= hour

LEMMA RequestIs ==
  ASSUME NEW request \in ResearchRequests
  PROVE  request.limit \in Nat \ {0} /\ request.maxAge \in Nat /\ CacheFloor \in Nat \ {0}
BY ResearchAssumption

\* The first elements of a sequence.
LEMMA Prefix ==
  ASSUME NEW S, NEW s \in Seq(S), NEW n \in Nat
  PROVE  LET cut == SubSeq(s, 1, Smaller(Len(s), n))
         IN  /\ cut \in Seq(S) /\ Len(cut) <= n
             /\ s # <<>> /\ n # 0 => cut # <<>>
<1>. DEFINE most == Smaller(Len(s), n)
            cut == SubSeq(s, 1, most)
<1>1. Len(s) \in Nat /\ most \in 0..Len(s) /\ most <= n /\ (n # 0 /\ Len(s) # 0 => most # 0)
  BY DEF Smaller
<1>. HIDE DEF most
<1>2. \A k \in 1..most : s[k] \in S
  BY <1>1
<1>3. cut \in Seq(S) /\ Len(cut) = most
  BY <1>1, <1>2, SubSeqProperties
<1>4. s # <<>> => Len(s) # 0
  OBVIOUS
<1>5. s # <<>> /\ n # 0 => cut # <<>>
  <2>. HIDE DEF cut
  <2>. QED
    BY <1>1, <1>3, <1>4
<1>. QED
  BY <1>1, <1>3, <1>5 DEF most

LEMMA RecentAre ==
  ASSUME NEW table, RowsFit(table), NEW selected, NEW request \in ResearchRequests
  PROVE  RecentItems(table, selected, request) \in Seq(DOMAIN table)
<1>. DEFINE recent == {k \in DOMAIN table : k[1] \in Range(selected) /\ table[k].at >= hour - request.maxAge}
            newer(j, k) == \/ table[j].at > table[k].at
                           \/ table[j].at = table[k].at /\ (j[1] < k[1] \/ (j[1] = k[1] /\ j[2] < k[2]))
            ahead == [k \in recent |-> {j \in recent : newer(j, k)}]
            sorted == InOrder(recent, ahead)
            most == Larger(4 * request.limit, CacheFloor)
<1>1. recent \subseteq DOMAIN table /\ IsFiniteSet(recent)
  BY FS_Subset DEF RowsFit
<1>2. ASSUME NEW k \in recent
      PROVE  k = <<k[1], k[2]>> /\ k[1] \in Nat /\ k[2] \in Nat /\ table[k].at \in Nat
  <2>1. k \in FeedNames \X Nat /\ table[k].at \in Nat
    BY <1>1 DEF RowsFit, ItemId
  <2>2. k = <<k[1], k[2]>> /\ k[1] \in FeedNames /\ k[2] \in Nat
    BY <2>1
  <2>. QED
    BY <2>1, <2>2, FeedsAre
<1>3. \A k \in recent : ahead[k] = {j \in recent : newer(j, k)}
  OBVIOUS
<1>4. \A j, k \in recent : j # k => newer(j, k) \/ newer(k, j)
  <2>. HIDE DEF recent
  <2>. QED
    BY <1>2
<1>5. \A k \in recent : ~newer(k, k)
  <2>. HIDE DEF recent
  <2>. QED
    BY <1>2
<1>6. \A i, j, k \in recent : newer(i, j) /\ newer(j, k) => newer(i, k)
  <2>. HIDE DEF recent
  <2>. QED
    BY <1>2
<1>7. Orders(ahead, recent)
  <2>. HIDE DEF recent, newer, ahead
  <2>. QED
    BY <1>3, <1>4, <1>5, <1>6 DEF Orders
<1>8. sorted \in Seq(recent)
  <2>. HIDE DEF recent, ahead
  <2>. QED
    BY <1>1, <1>7, InOrderIs
<1>9. sorted \in Seq(DOMAIN table)
  <2>. HIDE DEF recent, sorted
  <2>. QED
    BY <1>1, <1>8
<1>10. most \in Nat
  BY RequestIs DEF Larger
<1>11. RecentItems(table, selected, request) = SubSeq(sorted, 1, Smaller(Len(sorted), most))
  BY DEF RecentItems
<1>. HIDE DEF sorted, most
<1>. QED
  BY <1>9, <1>10, <1>11, Prefix

LEMMA FilteredAre ==
  ASSUME NEW table, NEW ids \in Seq(ItemId), NEW request
  PROVE  /\ Filtered(table, ids, request) \in Seq(ItemId)
         /\ ids # <<>> => Filtered(table, ids, request) # <<>>
<1>. DEFINE matches == {n \in DOMAIN ids :
                          request.words \cap (table[ids[n]].words \cup ApprovedFeeds[ids[n][1]].words) # {}}
            kept == [n \in 1..Cardinality(matches) |-> ids[Ascending(matches)[n]]]
<1>1. Filtered(table, ids, request) = IF matches = {} THEN ids ELSE kept
  BY DEF Filtered
<1>2. Len(ids) \in Nat /\ DOMAIN ids = 1..Len(ids) /\ matches \subseteq 1..Len(ids)
  <2>1. Len(ids) \in Nat /\ DOMAIN ids = 1..Len(ids)
    OBVIOUS
  <2>2. matches \subseteq DOMAIN ids
    OBVIOUS
  <2>. QED
    BY <2>1, <2>2
<1>. HIDE DEF matches
<1>3. IsFiniteSet(matches) /\ matches \in SUBSET Nat
  <2>1. IsFiniteSet(1..Len(ids))
    BY <1>2, FS_Interval
  <2>2. matches \in SUBSET (1..Len(ids))
    BY <1>2
  <2>3. IsFiniteSet(matches)
    BY <2>1, <2>2, FS_Subset
  <2>4. \A n \in 1..Len(ids) : n \in Nat
    BY <1>2
  <2>. QED
    BY <2>2, <2>3, <2>4
<1>4. Cardinality(matches) \in Nat /\ (matches # {} => Cardinality(matches) # 0)
  BY <1>3, FS_CardinalityType, FS_EmptySet
<1>5. \A n \in 1..Cardinality(matches) : Ascending(matches)[n] \in matches
  <2>1. Ascending(matches) \in Seq(matches) /\ Len(Ascending(matches)) = Cardinality(matches)
    BY <1>3, AscendingIs
  <2>. QED
    BY <2>1
<1>6. kept \in [1..Cardinality(matches) -> ItemId]
  <2>1. \A n \in matches : ids[n] \in ItemId
    BY <1>2
  <2>. QED
    BY <1>5, <2>1
<1>7. kept \in Seq(ItemId) /\ Len(kept) = Cardinality(matches)
  <2>. HIDE DEF kept
  <2>. QED
    BY <1>4, <1>6
<1>. HIDE DEF kept
<1>. QED
  BY <1>1, <1>4, <1>7

\* An answer is as long as asked for, and not empty if there was anything.
LEMMA AnswerIs ==
  ASSUME NEW table, RowsFit(table), NEW selected, NEW request \in ResearchRequests, NEW fetched \in Seq(ItemId)
  PROVE  /\ AnswerFrom(table, selected, request, fetched) \in Seq(ItemId)
         /\ Len(AnswerFrom(table, selected, request, fetched)) <= request.limit
         /\ RecentItems(table, selected, request) # <<>> \/ fetched # <<>>
              => AnswerFrom(table, selected, request, fetched) # <<>>
<1>. DEFINE recent == RecentItems(table, selected, request)
            offered == Offered(recent, fetched)
            found == Filtered(table, offered, request)
<1>1. recent \in Seq(ItemId)
  <2>1. recent \in Seq(DOMAIN table) /\ DOMAIN table \subseteq ItemId
    BY RecentAre DEF RowsFit
  <2>. HIDE DEF recent
  <2>. QED
    BY <2>1
<1>2. offered \in Seq(ItemId) /\ (recent # <<>> \/ fetched # <<>> => offered # <<>>)
  <2>. HIDE DEF recent
  <2>. QED
    BY <1>1 DEF Offered
<1>3. found \in Seq(ItemId) /\ (offered # <<>> => found # <<>>)
  <2>. HIDE DEF offered
  <2>. QED
    BY <1>2, FilteredAre
<1>4. AnswerFrom(table, selected, request, fetched) = SubSeq(found, 1, Smaller(Len(found), request.limit))
  BY DEF AnswerFrom
<1>5. request.limit \in Nat \ {0}
  BY RequestIs
<1>. HIDE DEF found, offered, recent
<1>. QED
  BY <1>2, <1>3, <1>4, <1>5, Prefix DEF recent

-----------------------------------------------------------------------------
(* What a query keeps *)

IsQuery(q) ==
  q = [step |-> q.step, request |-> q.request, todo |-> q.todo, view |-> q.view, writes |-> q.writes,
       fetched |-> q.fetched, twin |-> q.twin, outcomes |-> q.outcomes, answer |-> q.answer,
       beside |-> q.beside, repeated |-> q.repeated]

\* Any query: its answer is of the length asked for, it fails only for the
\* reasons FailsOnlyByRepetition names, and it answers with nothing only where
\* EmptyOnlyWithoutItems says so.
QueryFits(q) ==
  /\ IsQuery(q)
  /\ q.step \in {"idle", "rejected", "fetching", "answered", "failed"}
  /\ q.request \in ResearchRequests
  /\ q.outcomes \subseteq {"error", "nothing", "items"}
  /\ q.answer \in Seq(ItemId) /\ Len(q.answer) <= q.request.limit
  /\ q.step = "failed" => q.beside \/ q.repeated
  /\ q.step = "answered" /\ q.request.fetch /\ q.answer = <<>>
       => q.outcomes # {} /\ q.outcomes \subseteq {"error", "nothing"}

\* A query that fetches: no source is left to it twice, what it is to write is
\* of the sources it is done with and new exactly where its snapshot has no such
\* item, and what happened at its sources tells whether it has fetched anything.
FetchFits(q) ==
  /\ q.todo \in Seq(FeedNames)
  /\ \A i, j \in DOMAIN q.todo : q.todo[i] = q.todo[j] => i = j
  /\ RowsFit(q.view) /\ RowsFit(q.writes)
  /\ \A k \in DOMAIN q.writes : /\ q.writes[k].new <=> k \notin DOMAIN q.view
                                /\ \A i \in DOMAIN q.todo : q.todo[i] # k[1]
  /\ q.fetched \in Seq(ItemId)
  /\ q.twin => q.repeated
  /\ q.outcomes = {} => q.todo # <<>>
  /\ "items" \in q.outcomes => q.fetched # <<>>

\* The inductive invariant: a query that has seen no other beside it is alone,
\* and its snapshot is still what is stored.
ResearchInv ==
  /\ hour \in Nat /\ hour <= LastHour
  /\ RowsFit(stored)
  /\ DOMAIN query = Reader
  /\ \A q \in Reader : QueryFits(query[q]) /\ (q \in Open => FetchFits(query[q]))
  /\ \A q \in Open : ~query[q].beside => query[q].view = stored /\ Open = {q}

\* Entries that can be stored.
EntryList(entries) ==
  entries \in Seq(Range(entries)) /\ \A entry \in Range(entries) : entry.number \in Nat

LEMMA EntriesAre ==
  ASSUME NEW n \in FeedNames, NEW answer \in FeedAnswers[n], ~FetchRaises(n, answer),
         NEW request \in ResearchRequests
  PROVE  EntryList(EntriesOf(n, answer, request))
<1>. DEFINE source == ApprovedFeeds[n]
            limit == Smaller(request.limit, IF source.max = 0 THEN request.limit ELSE source.max)
            entries == answer.entries
            Numbered == {entry \in Range(entries) \cup {source.about} : entry.number \in Nat}
<1>1. /\ source.max \in Nat /\ source.about \in Numbered
      /\ entries \in Seq(Range(entries)) /\ Range(entries) \subseteq Numbered
      /\ answer.ok /\ source.mode = "http_summary" => entries # <<>>
  BY SourceAssumption
<1>2. limit \in Nat
  BY <1>1, RequestIs DEF Smaller
<1>3. entries \in Seq(Numbered)
  <2>. HIDE DEF entries, Numbered
  <2>. QED
    BY <1>1, SeqOfElements
<1>4. ASSUME NEW list \in Seq(Numbered)
      PROVE  EntryList(list)
  <2>1. Range(list) \subseteq Numbered
    <3>. HIDE DEF Numbered
    <3>. QED
      BY DEF Range
  <2>2. list \in Seq(Range(list))
    <3>. HIDE DEF Numbered
    <3>. QED
      BY DEF Range
  <2>. QED
    BY <2>1, <2>2 DEF EntryList
<1>5. ASSUME NEW e \in Numbered
      PROVE  <<e>> \in Seq(Numbered)
  <2>. HIDE DEF Numbered
  <2>. QED
    OBVIOUS
<1>6. SubSeq(entries, 1, Smaller(Len(entries), limit)) \in Seq(Numbered)
  <2>. HIDE DEF entries, limit, Numbered
  <2>. QED
    BY <1>2, <1>3, Prefix
<1>7. Smaller(limit, Len(entries)) = Smaller(Len(entries), limit)
  <2>1. Len(entries) \in Nat
    BY <1>1
  <2>. HIDE DEF limit
  <2>. QED
    BY <1>2, <2>1 DEF Smaller
<1>8. source.mode = "http_summary" => entries[1] \in Numbered
  <2>1. source.mode = "http_summary" => entries # <<>>
    BY <1>1 DEF FetchRaises
  <2>. HIDE DEF entries, Numbered
  <2>. QED
    BY <1>3, <2>1
<1>9. \/ EntriesOf(n, answer, request) = <<source.about>>
      \/ EntriesOf(n, answer, request) = SubSeq(entries, 1, Smaller(limit, Len(entries)))
      \/ source.mode = "http_summary" /\ EntriesOf(n, answer, request) = <<entries[1]>>
  BY DEF EntriesOf
<1>. HIDE DEF source, limit, entries, Numbered
<1>. QED
  BY <1>1, <1>4, <1>5, <1>6, <1>7, <1>8, <1>9

\* The ids of a source's entries: of that source, as many, and none repeated
\* unless an entry is.
LEMMA ItemIdsAre ==
  ASSUME NEW n \in FeedNames, NEW entries, EntryList(entries)
  PROVE  /\ ItemIds(n, entries) \in Seq(ItemId)
         /\ ItemIds(n, entries) = <<>> <=> entries = <<>>
         /\ DOMAIN ItemIds(n, entries) = DOMAIN entries
         /\ IsFiniteSet(Range(ItemIds(n, entries)))
         /\ \A i \in DOMAIN entries : ItemIds(n, entries)[i] = <<n, entries[i].number>>
<1>. DEFINE ids == ItemIds(n, entries)
            size == Len(entries)
<1>1. entries \in Seq(Range(entries)) /\ size \in Nat /\ DOMAIN entries = 1..size
  BY DEF EntryList
<1>2. \A i \in 1..size : <<n, entries[i].number>> \in ItemId
  BY <1>1 DEF EntryList, ItemId, Range
<1>3. ids = [i \in 1..size |-> <<n, entries[i].number>>]
  BY <1>1 DEF ItemIds
<1>4. ids \in [1..size -> ItemId]
  BY <1>2, <1>3
<1>5. ids \in Seq(ItemId) /\ Len(ids) = size
  <2>. HIDE DEF ids, size
  <2>. QED
    BY <1>1, <1>4
<1>6. ids = <<>> <=> entries = <<>>
  <2>. HIDE DEF ids
  <2>. QED
    BY <1>1, <1>5
<1>7. IsFiniteSet(Range(ids))
  <2>1. IsFiniteSet(1..size)
    BY <1>1, FS_Interval
  <2>2. ids \in Surjection(1..size, Range(ids))
    <3>. HIDE DEF ids, size
    <3>. QED
      BY <1>1, <1>4 DEF Range, Surjection
  <2>. HIDE DEF ids, size
  <2>. QED
    BY <2>1, <2>2, FS_Surjection
<1>. QED
  BY <1>1, <1>3, <1>5, <1>6, <1>7

\* What is to be stored, with the entries of one more source.
LEMMA UpdatesAre ==
  ASSUME NEW q, RowsFit(q.writes), NEW n \in FeedNames, NEW entries, EntryList(entries), hour \in Nat
  PROVE  /\ RowsFit(Updates(q, n, entries))
         /\ DOMAIN Updates(q, n, entries) = DOMAIN q.writes \cup Range(ItemIds(n, entries))
         /\ \A k \in Range(ItemIds(n, entries)) : Updates(q, n, entries)[k].new <=> k \notin DOMAIN q.view
         /\ \A k \in DOMAIN Updates(q, n, entries) \ Range(ItemIds(n, entries)) :
              Updates(q, n, entries)[k] = q.writes[k]
<1>. DEFINE ids == ItemIds(n, entries)
            updates == Updates(q, n, entries)
            text(k) == entries[Max({i \in DOMAIN ids : ids[i] = k})].words
<1>1. IsFiniteSet(Range(ids)) /\ Range(ids) \subseteq ItemId
  <2>1. ids \in Seq(ItemId) /\ IsFiniteSet(Range(ids))
    BY ItemIdsAre
  <2>. HIDE DEF ids
  <2>. QED
    BY <2>1 DEF Range
<1>2. updates = [k \in DOMAIN q.writes \cup Range(ids) |->
                   IF k \notin Range(ids) THEN q.writes[k]
                   ELSE [new |-> k \notin DOMAIN q.view, at |-> hour, words |-> text(k)]]
  BY DEF Updates
<1>. HIDE DEF ids, updates, text
<1>3. DOMAIN updates = DOMAIN q.writes \cup Range(ids)
  BY <1>2
<1>4. ASSUME NEW k \in Range(ids)
      PROVE  (updates[k].new <=> k \notin DOMAIN q.view) /\ updates[k].at = hour
  <2>1. updates[k] = [new |-> k \notin DOMAIN q.view, at |-> hour, words |-> text(k)]
    BY <1>2
  <2>2. CASE k \in DOMAIN q.view
    <3>1. updates[k] = [new |-> FALSE, at |-> hour, words |-> text(k)]
      BY <2>1, <2>2
    <3>. QED
      BY <2>2, <3>1
  <2>3. CASE k \notin DOMAIN q.view
    <3>1. updates[k] = [new |-> TRUE, at |-> hour, words |-> text(k)]
      BY <2>1, <2>3
    <3>. QED
      BY <2>3, <3>1
  <2>. QED
    BY <2>2, <2>3
<1>5. \A k \in DOMAIN updates \ Range(ids) : updates[k] = q.writes[k]
  BY <1>2
<1>6. IsFiniteSet(DOMAIN updates)
  BY <1>1, <1>3, FS_Union DEF RowsFit
<1>7. RowsFit(updates)
  BY <1>1, <1>3, <1>4, <1>5, <1>6 DEF RowsFit
<1>. QED
  BY <1>3, <1>4, <1>5, <1>7 DEF ids, updates

LEMMA FlushedAre ==
  ASSUME NEW table, RowsFit(table), NEW q, RowsFit(q.writes), hour \in Nat
  PROVE  RowsFit(Flushed(table, q))
<1>. DEFINE flushed == Flushed(table, q)
<1>1. DOMAIN flushed = DOMAIN table \cup DOMAIN q.writes
  BY DEF Flushed
<1>2. IsFiniteSet(DOMAIN flushed) /\ DOMAIN flushed \subseteq ItemId
  BY <1>1, FS_Union DEF RowsFit
<1>3. ASSUME NEW k \in DOMAIN flushed
      PROVE  flushed[k].at \in Nat /\ flushed[k].at <= hour
  <2>1. CASE k \notin DOMAIN q.writes
    <3>1. flushed[k] = table[k] /\ k \in DOMAIN table
      BY <1>1, <2>1 DEF Flushed
    <3>. QED
      BY <3>1 DEF RowsFit
  <2>2. CASE k \in DOMAIN q.writes /\ q.writes[k].new
    <3>1. flushed[k] = [at |-> hour, words |-> q.writes[k].words]
      BY <1>1, <2>2 DEF Flushed
    <3>. QED
      BY <3>1
  <2>3. CASE k \in DOMAIN q.writes /\ ~q.writes[k].new
    <3>1. flushed[k].at = q.writes[k].at
      BY <1>1, <2>3 DEF Flushed
    <3>. QED
      BY <2>3, <3>1 DEF RowsFit
  <2>. QED
    BY <2>1, <2>2, <2>3
<1>. QED
  BY <1>2, <1>3 DEF RowsFit

LEMMA TailIs ==
  ASSUME NEW S, NEW s \in Seq(S), s # <<>>, \A i, j \in DOMAIN s : s[i] = s[j] => i = j
  PROVE  /\ Head(s) \in S /\ Tail(s) \in Seq(S)
         /\ \A i, j \in DOMAIN Tail(s) : Tail(s)[i] = Tail(s)[j] => i = j
         /\ \A i \in DOMAIN Tail(s) : Tail(s)[i] # Head(s) /\ \E j \in DOMAIN s : Tail(s)[i] = s[j]
         /\ \E i \in DOMAIN s : s[i] = Head(s)
<1>1. Head(s) = s[1] /\ Head(s) \in S
  BY HeadTailProperties
<1>2. Tail(s) \in Seq(S) /\ Len(Tail(s)) = Len(s) - 1 /\ \A i \in 1..Len(Tail(s)) : Tail(s)[i] = s[i + 1]
  BY HeadTailProperties
<1>3. Len(s) \in Nat \ {0} /\ DOMAIN s = 1..Len(s) /\ DOMAIN Tail(s) = 1..Len(Tail(s))
  BY <1>2
<1>4. \A i \in DOMAIN Tail(s) : Tail(s)[i] = s[i + 1] /\ i + 1 \in DOMAIN s /\ i + 1 # 1
  BY <1>2, <1>3
<1>5. \A i, j \in DOMAIN Tail(s) : i + 1 = j + 1 => i = j
  BY <1>2, <1>3
<1>6. 1 \in DOMAIN s
  BY <1>3
<1>. QED
  BY <1>1, <1>2, <1>4, <1>5, <1>6

\* A query with the entries of one more source: nothing is added twice unless
\* an entry is repeated.
LEMMA StoredIs ==
  ASSUME NEW q, IsQuery(q), RowsFit(q.writes), NEW n \in FeedNames, NEW entries, EntryList(entries), hour \in Nat,
         q.fetched \in Seq(ItemId),
         \A k \in DOMAIN q.writes : (q.writes[k].new <=> k \notin DOMAIN q.view) /\ k[1] # n
  PROVE  LET s == StoreItems(q, n, entries)
         IN  /\ IsQuery(s)
             /\ s.step = q.step /\ s.request = q.request /\ s.todo = q.todo /\ s.view = q.view
             /\ s.outcomes = q.outcomes /\ s.answer = q.answer
             /\ s.beside = q.beside /\ s.repeated = q.repeated
             /\ RowsFit(s.writes)
             /\ \A k \in DOMAIN s.writes : /\ s.writes[k].new <=> k \notin DOMAIN q.view
                                           /\ k \in DOMAIN q.writes \/ k[1] = n
             /\ s.fetched \in Seq(ItemId) /\ (entries # <<>> \/ q.fetched # <<>> => s.fetched # <<>>)
             /\ s.twin => q.twin \/ Repeats(entries)
<1>. DEFINE ids == ItemIds(n, entries)
            added == \E i \in DOMAIN ids : /\ ids[i] \notin DOMAIN q.view
                                           /\ ids[i] \in DOMAIN q.writes \/ \E j \in 1..(i - 1) : ids[j] = ids[i]
            s == StoreItems(q, n, entries)
<1>1. s = [q EXCEPT !.twin = @ \/ added, !.fetched = @ \o ids, !.writes = Updates(q, n, entries)]
  BY DEF StoreItems
<1>2. /\ ids \in Seq(ItemId) /\ (ids = <<>> <=> entries = <<>>)
      /\ DOMAIN ids = DOMAIN entries
      /\ \A i \in DOMAIN entries : ids[i] = <<n, entries[i].number>>
  BY ItemIdsAre
<1>3. added => Repeats(entries)
  <2>1. SUFFICES ASSUME NEW i \in DOMAIN ids, ids[i] \in DOMAIN q.writes \/ \E j \in 1..(i - 1) : ids[j] = ids[i]
                 PROVE  Repeats(entries)
    OBVIOUS
  <2>2. ids[i] = <<n, entries[i].number>> /\ ids[i] \notin DOMAIN q.writes
    BY <1>2
  <2>3. PICK j \in 1..(i - 1) : ids[j] = ids[i]
    BY <2>1, <2>2
  <2>4. Len(entries) \in Nat /\ DOMAIN entries = 1..Len(entries)
    BY DEF EntryList
  <2>5. i \in DOMAIN entries /\ j \in DOMAIN entries /\ j # i
    BY <1>2, <2>4
  <2>6. ids[j] = <<n, entries[j].number>>
    BY <1>2, <2>5
  <2>7. entries[j].number = entries[i].number
    BY <2>2, <2>3, <2>6
  <2>. QED
    BY <2>5, <2>7 DEF Repeats
<1>. DEFINE updates == Updates(q, n, entries)
<1>4. /\ RowsFit(updates) /\ DOMAIN updates = DOMAIN q.writes \cup Range(ids)
      /\ \A k \in Range(ids) : updates[k].new <=> k \notin DOMAIN q.view
      /\ \A k \in DOMAIN updates \ Range(ids) : updates[k] = q.writes[k]
  <2>. HIDE DEF s
  <2>1. RowsFit(updates)
    BY UpdatesAre
  <2>2. DOMAIN updates = DOMAIN q.writes \cup Range(ids)
    BY DEF Updates
  <2>3. \A k \in Range(ids) : updates[k].new <=> k \notin DOMAIN q.view
    BY UpdatesAre
  <2>4. \A k \in DOMAIN updates \ Range(ids) : updates[k] = q.writes[k]
    BY UpdatesAre
  <2>. QED
    BY <2>1, <2>2, <2>3, <2>4
<1>5. \A k \in Range(ids) : k[1] = n
  BY <1>2 DEF Range
<1>. HIDE DEF s, ids, added, updates
<1>6. /\ IsQuery(s)
      /\ s.step = q.step /\ s.request = q.request /\ s.todo = q.todo /\ s.view = q.view
      /\ s.outcomes = q.outcomes /\ s.answer = q.answer
      /\ s.beside = q.beside /\ s.repeated = q.repeated
  BY <1>1 DEF IsQuery
<1>7. s.fetched = q.fetched \o ids /\ s.writes = updates
  BY <1>1 DEF IsQuery, updates
<1>8. s.twin => q.twin \/ added
  BY <1>1 DEF IsQuery
<1>9. RowsFit(s.writes)
  BY <1>4, <1>7
<1>10. ASSUME NEW k \in DOMAIN s.writes
       PROVE  (s.writes[k].new <=> k \notin DOMAIN q.view) /\ (k \in DOMAIN q.writes \/ k[1] = n)
  <2>1. CASE k \in Range(ids)
    BY <1>4, <1>5, <1>7, <2>1
  <2>2. CASE k \notin Range(ids)
    <3>1. k \in DOMAIN updates \ Range(ids) /\ k \in DOMAIN q.writes
      BY <1>4, <1>7, <2>2
    <3>2. updates[k] = q.writes[k]
      BY <1>4, <3>1
    <3>. QED
      BY <1>7, <3>1, <3>2
  <2>. QED
    BY <2>1, <2>2
<1>11. s.fetched \in Seq(ItemId) /\ (entries # <<>> \/ q.fetched # <<>> => s.fetched # <<>>)
  <2>1. q.fetched \o ids \in Seq(ItemId) /\ Len(q.fetched \o ids) = Len(q.fetched) + Len(ids)
    BY <1>2
  <2>2. ids # <<>> \/ q.fetched # <<>> => Len(q.fetched \o ids) # 0
    BY <1>2, <2>1
  <2>. QED
    BY <1>2, <1>7, <2>1, <2>2
<1>. QED
  BY <1>3, <1>6, <1>8, <1>9, <1>10, <1>11 DEF s

\* A query that has visited one more source.
LEMMA VisitedIs ==
  ASSUME NEW q, QueryFits(q), FetchFits(q), q.step = "fetching", q.todo # <<>>, hour \in Nat,
         NEW answer \in FeedAnswers[Head(q.todo)]
  PROVE  LET v == Visited(q, Head(q.todo), answer)
         IN  /\ QueryFits(v) /\ FetchFits(v)
             /\ v.step = q.step /\ v.view = q.view /\ v.beside = q.beside
<1>. DEFINE n == Head(q.todo)
            entries == EntriesOf(n, answer, q.request)
            rest == [q EXCEPT !.todo = Tail(@)]
            s == StoreItems(rest, n, entries)
            v == Visited(q, n, answer)
<1>1. /\ n \in FeedNames /\ Tail(q.todo) \in Seq(FeedNames)
      /\ \A i, j \in DOMAIN Tail(q.todo) : Tail(q.todo)[i] = Tail(q.todo)[j] => i = j
      /\ \A i \in DOMAIN Tail(q.todo) : Tail(q.todo)[i] # n /\ \E j \in DOMAIN q.todo : Tail(q.todo)[i] = q.todo[j]
      /\ \E i \in DOMAIN q.todo : q.todo[i] = n
  <2>1. q.todo \in Seq(FeedNames) /\ \A i, j \in DOMAIN q.todo : q.todo[i] = q.todo[j] => i = j
    BY DEF FetchFits
  <2>. QED
    BY <2>1, TailIs
<1>2. /\ IsQuery(rest) /\ rest.todo = Tail(q.todo)
      /\ rest.step = q.step /\ rest.request = q.request /\ rest.view = q.view /\ rest.writes = q.writes
      /\ rest.fetched = q.fetched /\ rest.twin = q.twin /\ rest.outcomes = q.outcomes
      /\ rest.answer = q.answer /\ rest.beside = q.beside /\ rest.repeated = q.repeated
  <2>1. IsQuery(q)
    BY DEF QueryFits
  <2>2. rest = [q EXCEPT !.todo = Tail(@)]
    OBVIOUS
  <2>. HIDE DEF n, rest
  <2>. QED
    BY <2>1, <2>2 DEF IsQuery
<1>. HIDE DEF rest
<1>3. CASE FetchRaises(n, answer)
  <2>1. v = [rest EXCEPT !.outcomes = @ \cup {"error"}]
    BY <1>3 DEF Visited, rest
  <2>. HIDE DEF v, n
  <2>2. /\ IsQuery(v) /\ v.todo = Tail(q.todo) /\ v.outcomes = q.outcomes \cup {"error"}
        /\ v.step = q.step /\ v.request = q.request /\ v.view = q.view /\ v.writes = q.writes
        /\ v.fetched = q.fetched /\ v.twin = q.twin
        /\ v.answer = q.answer /\ v.beside = q.beside /\ v.repeated = q.repeated
    BY <1>2, <2>1 DEF IsQuery
  <2>3. QueryFits(v)
    BY <2>2 DEF QueryFits
  <2>4. FetchFits(v)
    BY <1>1, <2>2 DEF FetchFits
  <2>. QED
    BY <2>2, <2>3, <2>4 DEF v, n
<1>4. CASE ~FetchRaises(n, answer)
  <2>1. v = [s EXCEPT !.outcomes = @ \cup {IF entries = <<>> THEN "nothing" ELSE "items"},
                      !.repeated = @ \/ Repeats(entries)]
    BY <1>4 DEF Visited, rest
  <2>2. EntryList(entries)
    <3>1. q.request \in ResearchRequests
      BY DEF QueryFits
    <3>. QED
      BY <1>1, <1>4, <3>1, EntriesAre
  <2>3. /\ RowsFit(rest.writes) /\ rest.fetched \in Seq(ItemId)
        /\ \A k \in DOMAIN rest.writes : (rest.writes[k].new <=> k \notin DOMAIN rest.view) /\ k[1] # n
    BY <1>1, <1>2 DEF FetchFits
  <2>. HIDE DEF v, n, entries
  <2>4. /\ IsQuery(s)
        /\ s.step = q.step /\ s.request = q.request /\ s.todo = Tail(q.todo) /\ s.view = q.view
        /\ s.outcomes = q.outcomes /\ s.answer = q.answer
        /\ s.beside = q.beside /\ s.repeated = q.repeated
        /\ RowsFit(s.writes)
        /\ \A k \in DOMAIN s.writes : /\ s.writes[k].new <=> k \notin DOMAIN q.view
                                      /\ k \in DOMAIN q.writes \/ k[1] = n
        /\ s.fetched \in Seq(ItemId) /\ (entries # <<>> \/ q.fetched # <<>> => s.fetched # <<>>)
        /\ s.twin => q.twin \/ Repeats(entries)
    BY <1>1, <1>2, <2>2, <2>3, StoredIs
  <2>. HIDE DEF s
  <2>5. /\ IsQuery(v) /\ v.todo = Tail(q.todo)
        /\ v.step = q.step /\ v.request = q.request /\ v.view = q.view /\ v.writes = s.writes
        /\ v.fetched = s.fetched /\ v.twin = s.twin /\ v.answer = q.answer /\ v.beside = q.beside
    BY <2>1, <2>4 DEF IsQuery
  <2>6. /\ v.outcomes = q.outcomes \cup {IF entries = <<>> THEN "nothing" ELSE "items"}
        /\ q.repeated \/ Repeats(entries) => v.repeated
    BY <2>1, <2>4 DEF IsQuery
  <2>7. QueryFits(v)
    BY <2>5, <2>6 DEF QueryFits
  <2>8. ASSUME NEW k \in DOMAIN v.writes
        PROVE  (v.writes[k].new <=> k \notin DOMAIN v.view) /\ \A i \in DOMAIN v.todo : v.todo[i] # k[1]
    <3>1. v.writes[k].new <=> k \notin DOMAIN v.view
      BY <2>4, <2>5
    <3>2. \A i \in DOMAIN Tail(q.todo) : Tail(q.todo)[i] # k[1]
      <4>1. CASE k \in DOMAIN q.writes
        <5>1. \A j \in DOMAIN q.todo : q.todo[j] # k[1]
          BY <4>1 DEF FetchFits
        <5>. QED
          BY <1>1, <5>1
      <4>2. CASE k[1] = n
        BY <1>1, <4>2
      <4>. QED
        BY <2>4, <2>5, <4>1, <4>2
    <3>. QED
      BY <2>5, <3>1, <3>2
  <2>9. v.twin => v.repeated
    BY <2>4, <2>5, <2>6 DEF FetchFits
  <2>10. v.outcomes # {} /\ ("items" \in v.outcomes => v.fetched # <<>>)
    BY <2>4, <2>5, <2>6 DEF FetchFits
  <2>11. RowsFit(v.view) /\ RowsFit(v.writes) /\ v.fetched \in Seq(ItemId)
    BY <2>4, <2>5 DEF FetchFits
  <2>12. v.todo \in Seq(FeedNames) /\ \A i, j \in DOMAIN v.todo : v.todo[i] = v.todo[j] => i = j
    BY <1>1, <2>5
  <2>13. FetchFits(v)
    BY <2>8, <2>9, <2>10, <2>11, <2>12 DEF FetchFits
  <2>. QED
    BY <2>5, <2>7, <2>13 DEF v, n
<1>. QED
  BY <1>3, <1>4

LEMMA IdleIs ==
  /\ QueryFits(Idle) /\ Idle.step = "idle"
  /\ Idle.outcomes = {} /\ Idle.fetched = <<>> /\ Idle.writes = <<>> /\ Idle.twin = FALSE
  /\ Idle.answer = <<>> /\ Idle.repeated = FALSE
<1>1. (CHOOSE r \in ResearchRequests : TRUE) \in ResearchRequests
  BY ResearchAssumption
<1>. DEFINE some == CHOOSE r \in ResearchRequests : TRUE
<1>2. Idle = [step |-> "idle", request |-> some, todo |-> <<>>, view |-> <<>>, writes |-> <<>>, fetched |-> <<>>,
              twin |-> FALSE, outcomes |-> {}, answer |-> <<>>, beside |-> FALSE, repeated |-> FALSE]
  BY DEF Idle
<1>. HIDE DEF some
<1>3. /\ IsQuery(Idle) /\ Idle.step = "idle" /\ Idle.request = some
      /\ Idle.outcomes = {} /\ Idle.fetched = <<>> /\ Idle.writes = <<>> /\ Idle.twin = FALSE
      /\ Idle.answer = <<>> /\ Idle.repeated = FALSE
  BY <1>2 DEF IsQuery
<1>4. some.limit \in Nat
  BY <1>1, RequestIs DEF some
<1>5. <<>> \in Seq(ItemId) /\ Len(<<>>) <= some.limit
  BY <1>4
<1>. QED
  BY <1>1, <1>3, <1>5 DEF QueryFits, some

LEMMA SettledIs ==
  ASSUME NEW q, IsQuery(q), NEW step, NEW answer
  PROVE  LET s == Settled(q, step, answer)
         IN  /\ IsQuery(s)
             /\ s.step = step /\ s.request = q.request /\ s.outcomes = q.outcomes /\ s.answer = answer
             /\ s.beside = q.beside /\ s.repeated = q.repeated
<1>1. IsQuery(Idle)
  BY IdleIs DEF QueryFits
<1>. DEFINE s == Settled(q, step, answer)
<1>2. s = [Idle EXCEPT !.step = step, !.request = q.request, !.outcomes = q.outcomes, !.answer = answer,
                       !.beside = q.beside, !.repeated = q.repeated]
  BY DEF Settled
<1>. HIDE DEF s
<1>3. IsQuery(s)
  BY <1>1, <1>2 DEF IsQuery
<1>4. /\ s.step = step /\ s.request = q.request /\ s.outcomes = q.outcomes /\ s.answer = answer
      /\ s.beside = q.beside /\ s.repeated = q.repeated
  BY <1>1, <1>2 DEF IsQuery
<1>. QED
  BY <1>3, <1>4 DEF s

\* A query that learns of another one.
LEMMA BesideIs ==
  ASSUME NEW q, QueryFits(q), NEW other
  PROVE  LET b == [q EXCEPT !.beside = @ \/ other]
         IN  /\ QueryFits(b) /\ (FetchFits(q) => FetchFits(b))
             /\ b.step = q.step /\ b.view = q.view /\ (q.beside \/ other => b.beside)
<1>. DEFINE b == [q EXCEPT !.beside = @ \/ other]
<1>1. IsQuery(q) /\ b = [q EXCEPT !.beside = @ \/ other]
  BY DEF QueryFits
<1>. HIDE DEF b
<1>2. /\ IsQuery(b)
      /\ b.step = q.step /\ b.request = q.request /\ b.todo = q.todo /\ b.view = q.view /\ b.writes = q.writes
      /\ b.fetched = q.fetched /\ b.twin = q.twin /\ b.outcomes = q.outcomes
      /\ b.answer = q.answer /\ b.repeated = q.repeated
  BY <1>1 DEF IsQuery
<1>3. q.beside \/ other => b.beside
  BY <1>1 DEF IsQuery
<1>4. QueryFits(b)
  BY <1>2, <1>3 DEF QueryFits
<1>5. FetchFits(q) => FetchFits(b)
  BY <1>2 DEF FetchFits
<1>. QED
  BY <1>2, <1>3, <1>4, <1>5 DEF b

-----------------------------------------------------------------------------
(* The invariant holds *)

\* What a step that takes no time has to show.
LEMMA SameHour ==
  ASSUME ResearchInv, hour' = hour, RowsFit(stored'), DOMAIN query' = Reader,
         \A q \in Reader : /\ QueryFits(query'[q])
                           /\ query'[q].step = "fetching" => FetchFits(query'[q]),
         \A q \in Reader : query'[q].step = "fetching" /\ ~query'[q].beside
                             => /\ query'[q].view = stored'
                                /\ \A r \in Reader : query'[r].step = "fetching" => r = q
  PROVE  ResearchInv'
<1>1. RowsFit(stored)'
  BY DEF RowsFit
<1>2. ASSUME NEW q \in Reader
      PROVE  QueryFits(query[q])' /\ (q \in Open => FetchFits(query[q]))'
  <2>1. QueryFits(query[q])'
    BY DEF QueryFits, IsQuery
  <2>2. (q \in Open)' => FetchFits(query'[q])
    BY DEF Open
  <2>3. FetchFits(query'[q]) => FetchFits(query[q])'
    BY DEF FetchFits, RowsFit
  <2>. QED
    BY <2>1, <2>2, <2>3
<1>3. ASSUME NEW q \in Open', ~query'[q].beside
      PROVE  query'[q].view = stored' /\ Open' = {q}
  BY <1>3 DEF Open
<1>4. hour' \in Nat /\ hour' <= LastHour
  BY DEF ResearchInv
<1>. QED
  BY <1>1, <1>2, <1>3, <1>4 DEF ResearchInv

LEMMA EmptyRows == RowsFit(<<>>)
<1>1. DOMAIN <<>> = {}
  OBVIOUS
<1>. QED
  BY <1>1, FS_EmptySet DEF RowsFit

LEMMA ResearchInitHolds == ResearchInit => ResearchInv
<1>. SUFFICES ASSUME ResearchInit PROVE ResearchInv
  OBVIOUS
<1>1. RowsFit(stored)
  BY EmptyRows DEF ResearchInit
<1>2. ASSUME NEW q \in Reader
      PROVE  query[q] = Idle /\ q \notin Open
  BY IdleIs DEF ResearchInit, Open
<1>3. hour \in Nat /\ hour <= LastHour
  BY ResearchAssumption DEF ResearchInit
<1>4. Open = {} /\ DOMAIN query = Reader
  BY <1>2 DEF Open, ResearchInit
<1>. QED
  BY <1>1, <1>2, <1>3, <1>4, IdleIs DEF ResearchInv

\* A new query: refused, answered at once (with something, if it might have
\* fetched) or about to fetch.
LEMMA StartQueryHolds ==
  ASSUME ResearchInv, NEW q \in Reader, NEW request \in ResearchRequests, StartQuery(q, request)
  PROVE  ResearchInv'
<1>. DEFINE selected == SelectSources(request)
            cached == RecentItems(stored, selected, request)
            fetches == request.fetch /\ (request.refresh \/ cached = <<>>)
            fresh == [Idle EXCEPT !.request = request]
            rejected == [fresh EXCEPT !.step = "rejected"]
            answered == [fresh EXCEPT !.step = "answered",
                                      !.answer = AnswerFrom(stored, selected, request, <<>>)]
            fetching == [fresh EXCEPT !.step = "fetching", !.todo = selected, !.view = stored,
                                      !.beside = Open # {}]
            started == CASE selected = <<>> -> rejected
                         [] selected # <<>> /\ ~fetches -> answered
                         [] selected # <<>> /\ fetches -> fetching
            joins == selected # <<>> /\ fetches
<1>1. /\ q \notin Open
      /\ query' = [r \in Reader |-> IF r = q THEN started
                                    ELSE [query[r] EXCEPT !.beside = @ \/ (r \in Open /\ selected # <<>> /\ fetches)]]
      /\ UNCHANGED <<stored, hour>>
  BY DEF StartQuery
<1>. DEFINE other(r) == r \in Open /\ selected # <<>> /\ fetches
            flagged(r) == [query[r] EXCEPT !.beside = @ \/ other(r)]
<1>2. query' = [r \in Reader |-> IF r = q THEN started ELSE flagged(r)]
  BY <1>1
<1>3. IsQuery(fresh) /\ fresh.request = request /\ fresh.outcomes = {} /\ fresh.fetched = <<>>
      /\ fresh.writes = <<>> /\ fresh.twin = FALSE /\ fresh.answer = <<>> /\ fresh.repeated = FALSE
  <2>1. IsQuery(Idle)
    BY IdleIs DEF QueryFits
  <2>. QED
    BY <2>1, IdleIs DEF IsQuery
<1>4. request.limit \in Nat \ {0} /\ <<>> \in Seq(ItemId) /\ Len(<<>>) = 0
  BY RequestIs
<1>. HIDE DEF fresh
<1>5. QueryFits(rejected) /\ rejected.step = "rejected"
  <2>1. /\ IsQuery(rejected) /\ rejected.request = request /\ rejected.outcomes = {}
        /\ rejected.answer = <<>> /\ rejected.step = "rejected"
    BY <1>3 DEF IsQuery
  <2>. HIDE DEF rejected
  <2>. QED
    BY <1>4, <2>1 DEF QueryFits
<1>6. ASSUME ~fetches
      PROVE  QueryFits(answered) /\ answered.step = "answered"
  <2>. DEFINE answer == AnswerFrom(stored, selected, request, <<>>)
  <2>1. RowsFit(stored) /\ <<>> \in Seq(ItemId)
    BY DEF ResearchInv
  <2>2. /\ answer \in Seq(ItemId) /\ Len(answer) <= request.limit
        /\ cached # <<>> => answer # <<>>
    <3>. HIDE DEF selected
    <3>. QED
      BY <2>1, AnswerIs
  <2>3. request.fetch => cached # <<>>
    BY <1>6
  <2>. HIDE DEF answer, cached, selected
  <2>4. answered = [fresh EXCEPT !.step = "answered", !.answer = answer]
    BY DEF answer
  <2>. HIDE DEF answered
  <2>5. /\ IsQuery(answered) /\ answered.request = request /\ answered.outcomes = {}
        /\ answered.answer = answer /\ answered.step = "answered"
    BY <1>3, <2>4 DEF IsQuery
  <2>. QED
    BY <2>2, <2>3, <2>5 DEF QueryFits
<1>7. ASSUME selected # <<>>
      PROVE  /\ QueryFits(fetching) /\ FetchFits(fetching)
             /\ fetching.step = "fetching" /\ fetching.view = stored /\ (Open # {} => fetching.beside)
  <2>. DEFINE among == Open # {}
  <2>1. /\ selected \in Seq(FeedNames)
        /\ \A i, j \in DOMAIN selected : selected[i] = selected[j] => i = j
    BY SelectedSources
  <2>2. fetching = [fresh EXCEPT !.step = "fetching", !.todo = selected, !.view = stored, !.beside = among]
    OBVIOUS
  <2>. HIDE DEF selected, fetching, among
  <2>3. /\ IsQuery(fetching) /\ fetching.request = request /\ fetching.outcomes = {}
        /\ fetching.answer = <<>> /\ fetching.step = "fetching" /\ fetching.todo = selected
        /\ fetching.view = stored /\ fetching.writes = <<>> /\ fetching.fetched = <<>> /\ fetching.twin = FALSE
    BY <1>3, <2>2 DEF IsQuery
  <2>4. Open # {} => fetching.beside
    BY <1>3, <2>2 DEF IsQuery, among
  <2>5. QueryFits(fetching)
    BY <1>4, <2>3 DEF QueryFits
  <2>6. RowsFit(stored) /\ RowsFit(<<>>) /\ DOMAIN <<>> = {}
    BY EmptyRows DEF ResearchInv
  <2>7. FetchFits(fetching)
    BY <1>4, <1>7, <2>1, <2>3, <2>6 DEF FetchFits
  <2>. QED
    BY <2>3, <2>4, <2>5, <2>7
<1>8. /\ QueryFits(started)
      /\ started.step = "fetching" => /\ FetchFits(started) /\ started.view = stored
                                      /\ joins /\ (Open # {} => started.beside)
  <2>1. CASE selected = <<>>
    <3>1. started = rejected
      BY <2>1
    <3>. HIDE DEF started, rejected
    <3>. QED
      BY <1>5, <3>1
  <2>2. CASE selected # <<>> /\ ~fetches
    <3>1. started = answered
      BY <2>2
    <3>. HIDE DEF started, answered, fetches
    <3>. QED
      BY <1>6, <2>2, <3>1
  <2>3. CASE selected # <<>> /\ fetches
    <3>1. started = fetching
      BY <2>3
    <3>. HIDE DEF started, fetching, fetches, selected
    <3>. QED
      BY <1>7, <2>3, <3>1 DEF joins
  <2>. QED
    BY <2>1, <2>2, <2>3
<1>. HIDE DEF started, fetches, selected
<1>9. ASSUME NEW r \in Reader
      PROVE  /\ QueryFits(flagged(r)) /\ (FetchFits(query[r]) => FetchFits(flagged(r)))
             /\ flagged(r).step = query[r].step /\ flagged(r).view = query[r].view
             /\ query[r].beside \/ other(r) => flagged(r).beside
  <2>1. QueryFits(query[r])
    BY DEF ResearchInv
  <2>. HIDE DEF other
  <2>. QED
    BY <2>1, BesideIs
<1>. HIDE DEF flagged
<1>10. query'[q] = started /\ \A r \in Reader \ {q} : query'[r] = flagged(r)
  BY <1>2
<1>11. \A r \in Reader \ {q} : query'[r].step = "fetching" => r \in Open /\ FetchFits(query[r])
  BY <1>9, <1>10 DEF ResearchInv, Open
<1>12. ASSUME NEW r \in Reader
       PROVE  QueryFits(query'[r]) /\ (query'[r].step = "fetching" => FetchFits(query'[r]))
  <2>1. CASE r = q
    BY <1>8, <1>10, <2>1
  <2>2. CASE r # q
    BY <1>9, <1>10, <1>11, <2>2
  <2>. QED
    BY <2>1, <2>2
<1>13. ASSUME NEW r \in Reader, query'[r].step = "fetching", ~query'[r].beside
       PROVE  /\ query'[r].view = stored'
              /\ \A p \in Reader : query'[p].step = "fetching" => p = r
  <2>1. CASE r = q
    <3>1. Open = {} /\ query'[r].view = stored
      BY <1>8, <1>10, <1>13, <2>1
    <3>. QED
      BY <1>1, <1>11, <2>1, <3>1
  <2>2. CASE r # q
    <3>1. r \in Open /\ ~query[r].beside /\ ~other(r) /\ query'[r].view = query[r].view
      BY <1>9, <1>10, <1>11, <1>13, <2>2
    <3>2. query[r].view = stored /\ Open = {r}
      BY <3>1 DEF ResearchInv
    <3>3. ~joins
      BY <3>1 DEF joins
    <3>4. query'[q].step # "fetching"
      BY <1>8, <1>10, <3>3
    <3>. QED
      BY <1>1, <1>11, <3>1, <3>2, <3>4
  <2>. QED
    BY <2>1, <2>2
<1>14. RowsFit(stored') /\ DOMAIN query' = Reader
  BY <1>1, <1>2 DEF ResearchInv
<1>. QED
  BY <1>1, <1>12, <1>13, <1>14, SameHour

\* What a step of one query that takes no time has to show.
LEMMA SameOthers ==
  ASSUME ResearchInv, NEW q \in Open, NEW x, query' = [query EXCEPT ![q] = x], hour' = hour,
         QueryFits(x), x.step = "fetching" => FetchFits(x) /\ x.view = query[q].view /\ x.beside = query[q].beside,
         RowsFit(stored'), x.step = "fetching" => stored' = stored
  PROVE  ResearchInv'
<1>1. q \in Reader /\ query[q].step = "fetching" /\ DOMAIN query = Reader
  BY DEF Open, ResearchInv
<1>2. DOMAIN query' = Reader /\ query'[q] = x /\ \A r \in Reader \ {q} : query'[r] = query[r]
  BY <1>1
<1>3. ASSUME NEW r \in Reader
      PROVE  QueryFits(query'[r]) /\ (query'[r].step = "fetching" => FetchFits(query'[r]))
  <2>1. CASE r = q
    BY <1>2, <2>1
  <2>2. CASE r # q
    BY <1>2, <2>2 DEF ResearchInv, Open
  <2>. QED
    BY <2>1, <2>2
<1>4. ASSUME NEW r \in Reader, query'[r].step = "fetching", ~query'[r].beside
      PROVE  /\ query'[r].view = stored'
             /\ \A p \in Reader : query'[p].step = "fetching" => p = r
  <2>1. \A p \in Reader : query'[p].step = "fetching" => p \in Open
    BY <1>1, <1>2 DEF Open
  <2>2. CASE r = q
    <3>1. ~query[r].beside /\ r \in Open /\ query'[r].view = query[r].view /\ stored' = stored
      BY <1>2, <1>4, <2>2
    <3>2. query[r].view = stored /\ Open = {r}
      BY <3>1 DEF ResearchInv
    <3>. QED
      BY <2>1, <3>1, <3>2
  <2>3. CASE r # q
    <3>1. r \in Open /\ ~query[r].beside
      BY <1>2, <1>4, <2>1, <2>3
    <3>2. Open = {r}
      BY <3>1 DEF ResearchInv
    <3>. QED
      BY <2>3, <3>2
  <2>. QED
    BY <2>2, <2>3
<1>. QED
  BY <1>2, <1>3, <1>4, SameHour

LEMMA FetchSourceHolds ==
  ASSUME ResearchInv, NEW q \in Reader, FetchSource(q)
  PROVE  ResearchInv'
<1>1. q \in Open /\ query[q].todo # <<>> /\ UNCHANGED <<stored, hour>>
  BY DEF FetchSource
<1>2. PICK answer \in FeedAnswers[Head(query[q].todo)] :
        query' = [query EXCEPT ![q] = Visited(@, Head(@.todo), answer)]
  BY DEF FetchSource
<1>. DEFINE v == Visited(query[q], Head(query[q].todo), answer)
<1>3. QueryFits(query[q]) /\ FetchFits(query[q]) /\ query[q].step = "fetching" /\ hour \in Nat
  BY <1>1 DEF ResearchInv, Open
<1>4. QueryFits(v) /\ FetchFits(v) /\ v.view = query[q].view /\ v.beside = query[q].beside
  BY <1>1, <1>3, VisitedIs
<1>5. query' = [query EXCEPT ![q] = v]
  BY <1>1, <1>2 DEF ResearchInv, Open
<1>6. RowsFit(stored')
  BY <1>1 DEF ResearchInv
<1>. HIDE DEF v
<1>. QED
  BY <1>1, <1>4, <1>5, <1>6, SameOthers

\* A query that fails alone has listed an entry twice: its snapshot is still
\* what is stored, and what is new is not in it.
LEMMA FailFlushHolds ==
  ASSUME ResearchInv, NEW q \in Reader, FailFlush(q)
  PROVE  ResearchInv'
<1>. DEFINE mine == query[q]
            x == Settled(mine, "failed", <<>>)
<1>1. q \in Open /\ DuplicateKey(mine) /\ UNCHANGED <<stored, hour>> /\ query' = [query EXCEPT ![q] = x]
  BY DEF FailFlush, Open, ResearchInv
<1>2. QueryFits(mine) /\ FetchFits(mine)
  BY <1>1 DEF ResearchInv
<1>3. mine.beside \/ mine.repeated
  <2>1. SUFFICES ASSUME ~mine.beside, ~mine.repeated PROVE FALSE
    OBVIOUS
  <2>2. mine.view = stored
    BY <1>1, <2>1 DEF ResearchInv
  <2>3. ~mine.twin
    BY <1>2, <2>1 DEF FetchFits
  <2>4. PICK k \in DOMAIN mine.writes : mine.writes[k].new /\ k \in DOMAIN stored
    BY <1>1, <2>3 DEF DuplicateKey
  <2>5. k \notin DOMAIN mine.view
    BY <1>2, <2>4 DEF FetchFits
  <2>. QED
    BY <2>2, <2>4, <2>5
<1>4. /\ IsQuery(x) /\ x.step = "failed" /\ x.request = mine.request /\ x.outcomes = mine.outcomes
      /\ x.answer = <<>> /\ x.beside = mine.beside /\ x.repeated = mine.repeated
  <2>1. IsQuery(mine)
    BY <1>2 DEF QueryFits
  <2>. HIDE DEF mine
  <2>. QED
    BY <2>1, SettledIs
<1>. HIDE DEF x
<1>5. mine.request.limit \in Nat /\ <<>> \in Seq(ItemId) /\ Len(<<>>) = 0
  BY <1>2, RequestIs DEF QueryFits
<1>6. QueryFits(x)
  <2>. HIDE DEF mine
  <2>. QED
    BY <1>2, <1>3, <1>4, <1>5 DEF QueryFits
<1>7. RowsFit(stored')
  BY <1>1 DEF ResearchInv
<1>. QED
  BY <1>1, <1>4, <1>6, <1>7, SameOthers

\* A query that is done answers with something if a source had something.
LEMMA FinishQueryHolds ==
  ASSUME ResearchInv, NEW q \in Reader, FinishQuery(q)
  PROVE  ResearchInv'
<1>. DEFINE mine == query[q]
            seen == Flushed(mine.view, mine)
            selected == SelectSources(mine.request)
            answer == AnswerFrom(seen, selected, mine.request, mine.fetched)
            x == Settled(mine, "answered", answer)
<1>1. /\ q \in Open /\ mine.todo = <<>> /\ UNCHANGED hour
      /\ stored' = Flushed(stored, mine) /\ query' = [query EXCEPT ![q] = x]
  BY DEF FinishQuery, Open, ResearchInv
<1>2. QueryFits(mine) /\ FetchFits(mine) /\ hour \in Nat /\ RowsFit(stored)
  BY <1>1 DEF ResearchInv
<1>3. RowsFit(mine.view) /\ RowsFit(mine.writes) /\ mine.fetched \in Seq(ItemId) /\ mine.request \in ResearchRequests
  BY <1>2 DEF QueryFits, FetchFits
<1>. HIDE DEF mine
<1>4. RowsFit(seen) /\ RowsFit(stored')
  BY <1>1, <1>2, <1>3, FlushedAre
<1>5. answer \in Seq(ItemId) /\ Len(answer) <= mine.request.limit /\ (mine.fetched # <<>> => answer # <<>>)
  <2>. HIDE DEF seen, selected
  <2>. QED
    BY <1>3, <1>4, AnswerIs
<1>. HIDE DEF answer
<1>6. /\ IsQuery(x) /\ x.step = "answered" /\ x.request = mine.request /\ x.outcomes = mine.outcomes
      /\ x.answer = answer /\ x.beside = mine.beside /\ x.repeated = mine.repeated
  <2>1. IsQuery(mine)
    BY <1>2 DEF QueryFits
  <2>. QED
    BY <2>1, SettledIs
<1>. HIDE DEF x
<1>7. mine.outcomes # {} /\ ("items" \in mine.outcomes => mine.fetched # <<>>)
  BY <1>1, <1>2 DEF FetchFits
<1>8. answer = <<>> => mine.outcomes \subseteq {"error", "nothing"}
  BY <1>2, <1>5, <1>7 DEF QueryFits
<1>9. QueryFits(x)
  BY <1>2, <1>5, <1>6, <1>7, <1>8 DEF QueryFits
<1>. QED
  BY <1>1, <1>4, <1>6, <1>9, SameOthers

LEMMA HourPassesHolds ==
  ASSUME ResearchInv, HourPasses
  PROVE  ResearchInv'
<1>1. hour \in Nat /\ hour' \in Nat /\ hour <= hour' /\ hour' <= LastHour /\ UNCHANGED <<stored, query>>
  BY ResearchAssumption DEF ResearchInv, HourPasses
<1>2. RowsFit(stored)'
  <2>1. RowsFit(stored)
    BY DEF ResearchInv
  <2>. QED
    BY <1>1, <2>1 DEF RowsFit
<1>3. ASSUME NEW q \in Reader
      PROVE  QueryFits(query[q])' /\ (q \in Open => FetchFits(query[q]))'
  <2>1. QueryFits(query[q])'
    BY <1>1 DEF ResearchInv, QueryFits, IsQuery
  <2>2. ASSUME FetchFits(query[q])
        PROVE  FetchFits(query[q])'
    <3>1. RowsFit(query[q].view)' /\ RowsFit(query[q].writes)'
      BY <1>1, <2>2 DEF FetchFits, RowsFit
    <3>. QED
      BY <1>1, <2>2, <3>1 DEF FetchFits
  <2>3. (q \in Open)' => q \in Open
    BY <1>1 DEF Open
  <2>. QED
    BY <2>1, <2>2, <2>3 DEF ResearchInv
<1>4. Open' = Open
  BY <1>1 DEF Open
<1>. QED
  BY <1>1, <1>2, <1>3, <1>4 DEF ResearchInv

\* ResearchInv is inductive: what a query keeps is right whatever the queries
\* beside it do, and a query alone finds the table as it has read it.
THEOREM QueriesFit == ResearchSpec => []ResearchInv
<1>1. ResearchInit => ResearchInv
  BY ResearchInitHolds
<1>2. ResearchInv /\ [ResearchNext]_researchVars => ResearchInv'
  <2>. SUFFICES ASSUME ResearchInv, [ResearchNext]_researchVars
                PROVE  ResearchInv'
    OBVIOUS
  <2>1. ASSUME NEW q \in Reader, NEW request \in ResearchRequests, StartQuery(q, request)
        PROVE  ResearchInv'
    BY <2>1, StartQueryHolds
  <2>2. ASSUME NEW q \in Reader, FetchSource(q)
        PROVE  ResearchInv'
    BY <2>2, FetchSourceHolds
  <2>3. ASSUME NEW q \in Reader, FailFlush(q)
        PROVE  ResearchInv'
    BY <2>3, FailFlushHolds
  <2>4. ASSUME NEW q \in Reader, FinishQuery(q)
        PROVE  ResearchInv'
    BY <2>4, FinishQueryHolds
  <2>5. CASE HourPasses
    BY <2>5, HourPassesHolds
  <2>6. CASE UNCHANGED researchVars
    BY <2>6 DEF researchVars, ResearchInv, QueryFits, IsQuery, FetchFits, RowsFit, Open
  <2>. QED
    BY <2>1, <2>2, <2>3, <2>4, <2>5, <2>6 DEF ResearchNext
<1>. QED
  BY <1>1, <1>2, PTL DEF ResearchSpec

LEMMA ResearchInvImplies ==
  ASSUME ResearchInv
  PROVE  ResearchTypeOK /\ FailsOnlyByRepetition /\ EmptyOnlyWithoutItems
<1>1. \A k \in ItemId : k[1] \in FeedNames
  BY DEF ItemId
<1>2. hour \in 0..LastHour
  BY ResearchAssumption DEF ResearchInv
<1>3. ASSUME NEW k \in DOMAIN stored
      PROVE  k[1] \in FeedNames /\ stored[k].at \in 0..hour
  BY <1>1 DEF ResearchInv, RowsFit
<1>4. ASSUME NEW q \in Reader
      PROVE  /\ query[q].step \in {"idle", "rejected", "fetching", "answered", "failed"}
             /\ query[q].request \in ResearchRequests
             /\ query[q].outcomes \subseteq {"error", "nothing", "items"}
             /\ Len(query[q].answer) <= query[q].request.limit
             /\ \A k \in Range(query[q].answer) : k[1] \in FeedNames
  <2>1. QueryFits(query[q])
    BY DEF ResearchInv
  <2>2. query[q].answer \in Seq(ItemId)
    BY <2>1 DEF QueryFits
  <2>3. \A k \in Range(query[q].answer) : k \in ItemId
    BY <2>2 DEF Range
  <2>. QED
    BY <1>1, <2>1, <2>3 DEF QueryFits
<1>5. ResearchTypeOK
  BY <1>2, <1>3, <1>4 DEF ResearchTypeOK
<1>6. FailsOnlyByRepetition
  BY DEF FailsOnlyByRepetition, ResearchInv, QueryFits
<1>7. EmptyOnlyWithoutItems
  BY DEF EmptyOnlyWithoutItems, ResearchInv, QueryFits
<1>. QED
  BY <1>5, <1>6, <1>7

\* Queries and stored items are of their types: no answer is longer than asked
\* for, and nothing in it or in the table is of no approved source.
THEOREM ResearchTyped == ResearchSpec => []ResearchTypeOK
BY QueriesFit, ResearchInvImplies, PTL

\* FailsOnlyByRepetition, for any sources, requests and number of queries.
THEOREM FlushFailsOnlyByRepetition == ResearchSpec => []FailsOnlyByRepetition
BY QueriesFit, ResearchInvImplies, PTL

\* EmptyOnlyWithoutItems, for any sources, requests and number of queries.
THEOREM EmptyMeansNoItems == ResearchSpec => []EmptyOnlyWithoutItems
BY QueriesFit, ResearchInvImplies, PTL
=============================================================================
