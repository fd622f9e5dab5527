------------------------------- MODULE Digest -------------------------------
(***************************************************************************)
(* The topic digest of the worker (worker/handlers/topic_digest.py) over   *)
(* the registry of approved sources it loads (worker/source_registry.py),  *)
(* as functions of the task, the registry files and what the sources       *)
(* answer.                                                                 *)
(*                                                                         *)
(* A feed entry, a page and a source's own description all become an item: *)
(*   [key |-> dedupe_key, keep |-> whether the filters let it pass,        *)
(*    score |-> rule_score for each section].                              *)
(* A source of a task is [id, type, target]; its identity is its type and  *)
(* its target (URL or query).  Texts, rendering and the language model's   *)
(* summary, whose failure is swallowed, are left out.                      *)
(***************************************************************************)
EXTENDS Integers, FiniteSets, SequencesExt

CONSTANTS
  Sections,      \* number of section rules
  SectionLimit,  \* items a section shows
  TableMax       \* max_items of a source that comes from a table

ASSUME DigestAssumption == Sections \in Nat /\ SectionLimit \in Nat \ {0} /\ TableMax \in Nat \ {0}

LowerOf(m, n) == IF m <= n THEN m ELSE n

-----------------------------------------------------------------------------
(* The registry *)

\* A table row [slug, feed, fit, target, about]: ids are made from the titles,
\* numbered where titles agree, in the order of the rows.
TableSource(table, n) ==
  LET row == table[n]
  IN  [id      |-> <<row.slug, Cardinality({m \in 1..n : table[m].slug = row.slug})>>,
       type    |-> IF row.feed THEN "rss" ELSE "http",
       target  |-> row.target,
       enabled |-> TRUE,
       mode    |-> CASE row.feed                  -> "feed_metadata"
                     [] ~row.feed /\ row.fit = "A" -> "http_summary"
                     [] OTHER                     -> "metadata_only",
       max     |-> TableMax,
       about   |-> row.about]

TableSources(table) == [n \in DOMAIN table |-> TableSource(table, n)]

\* The rows of a registry: its own sources, then those of the included tables.
RegistryRows(files) == files.own \o TableSources(files.table)

\* by_id: of two rows with one id the later stands.
SourceRegistry(rows) ==
  [id \in {rows[n].id : n \in DOMAIN rows} |->
     rows[CHOOSE n \in DOMAIN rows : /\ rows[n].id = id
                                     /\ \A m \in DOMAIN rows : rows[m].id = id => m <= n]]

Identity(source) == <<source.type, source.target>>

\* SourceRegistry.approve: "approved" or the reason it is not.
Approval(registry, source) ==
  CASE source.id \notin DOMAIN registry                  -> "source_not_approved"
    [] ~registry[source.id].enabled                      -> "source_disabled"
    [] Identity(source) # Identity(registry[source.id])  -> "source_identity_mismatch"
    [] OTHER                                             -> "approved"

-----------------------------------------------------------------------------
(* Collecting items *)

Fetched(row) == row.type = "rss" \/ (row.type = "http" /\ row.mode = "http_summary")

Supported(row) ==
  \/ row.type \in {"rss", "web_query"}
  \/ row.type = "http" /\ row.mode \in {"metadata_only", "http_summary"}

\* What happens to a source: web[target] is [ok, entries], ok when the answer
\* arrived and could be parsed.
SourceStatus(registry, web, source) ==
  CASE Approval(registry, source) # "approved"                             -> "blocked"
    [] ~Supported(registry[source.id])                                     -> "blocked"
    [] Fetched(registry[source.id]) /\ ~web[source.target].ok              -> "error"
    [] OTHER                                                               -> "ok"

\* metadata_only_item and http_page_item: one item for a source, of its own
\* description or of the page it points to.
DescriptionItem(row) == row.about
PageItem(row, web) == web[row.target].entries[1]

\* The items a healthy source offers; of a feed at most twice as many entries
\* as are wanted are looked at.
Candidates(row, web, limit) ==
  CASE row.type = "rss" -> SubSeq(web[row.target].entries, 1,
                                  LowerOf(2 * limit, Len(web[row.target].entries)))
    [] row.type = "http" /\ row.mode = "http_summary" -> <<PageItem(row, web)>>
    [] OTHER -> <<DescriptionItem(row)>>

KeysOf(items) == {items[n].key : n \in DOMAIN items}

\* Mutant of AddItem: an item the brief already has is added again.
AddAnyItem(items, entry, id, full) ==
  IF Len(items) >= full \/ ~entry.keep THEN items ELSE Append(items, [entry |-> entry, key |-> entry.key, source |-> id])

\* item_matches_filters and append_unique_item, until the source's share is full.
AddItem(items, entry, id, full) ==
  IF Len(items) >= full \/ ~entry.keep \/ entry.key \in KeysOf(items)
  THEN items
  ELSE Append(items, [entry |-> entry, key |-> entry.key, source |-> id])

\* The loop over what a source offers.
AddItems(items, entries, id, full) ==
  LET after[n \in 0..Len(entries)] ==
        IF n = 0 THEN items ELSE AddItem(after[n - 1], entries[n], id, full)
  IN  after[Len(entries)]

\* One turn of the loop of collect_items; a full brief looks at no more sources.
VisitSource(brief, registry, web, acc, source) ==
  IF Len(acc.items) >= brief.maxItems
  THEN acc
  ELSE LET status == SourceStatus(registry, web, source)
           row    == registry[source.id]
           limit  == LowerOf(brief.maxItems - Len(acc.items),
                             IF row.max = 0 THEN brief.maxItems ELSE row.max)
           full   == Len(acc.items) + limit
       IN  [health |-> Append(acc.health, status),
            items  |-> IF status # "ok" THEN acc.items
                       ELSE AddItems(acc.items, Candidates(row, web, limit), source.id, full)]

\* The loop over the sources.
CollectItems(brief, registry, web) ==
  LET after[n \in 0..Len(brief.sources)] ==
        IF n = 0 THEN [health |-> <<>>, items |-> <<>>]
        ELSE VisitSource(brief, registry, web, after[n - 1], brief.sources[n])
  IN  after[Len(brief.sources)]

-----------------------------------------------------------------------------
(* Sections and quality *)

\* select_section_items: the best SectionLimit items not used by an earlier
\* section, as positions in the brief.
SectionItems(items, section, used) ==
  LET score(n) == items[n].entry.score[section]
      open     == {n \in DOMAIN items : n \notin used /\ score(n) > 0}
      ahead(n) == {m \in open : score(m) > score(n) \/ (score(m) = score(n) /\ m < n)}
  IN  {n \in open : Cardinality(ahead(n)) < SectionLimit}

\* The items used up by the first s sections.
UsedItems(items) ==
  LET used[s \in 0..Sections] ==
        IF s = 0 THEN {} ELSE used[s - 1] \cup SectionItems(items, s, used[s - 1])
  IN  used

\* sectioned_digest_sections: the sections in their order.
DigestSections(items) == [s \in 1..Sections |-> SectionItems(items, s, UsedItems(items)[s - 1])]

EmptySections(items) == {s \in 1..Sections : DigestSections(items)[s] = {}}

Number(health, status) == Cardinality({n \in DOMAIN health : health[n] = status})

\* The reasons of evaluate_digest_quality.
QualityReasons(brief, items, health) ==
  LET failed == Len(health) - Number(health, "ok")
  IN  {reason \in {"too_few_items", "too_few_successful_sources", "source_errors", "empty_sections"} :
         CASE reason = "too_few_items"              -> Len(items) < brief.minItems
           [] reason = "too_few_successful_sources" -> Number(health, "ok") < brief.minSources
           [] reason = "source_errors"              -> brief.alertOnErrors /\ failed > 0
           [] reason = "empty_sections"             -> /\ brief.sectioned /\ brief.alertOnEmpty
                                                       /\ EmptySections(items) # {}}

\* run_topic_digest: it raises without sources, and when all are blocked.
RunTopicDigest(brief, registry, web) ==
  LET got     == CollectItems(brief, registry, web)
      reasons == QualityReasons(brief, got.items, got.health)
      blocked == Number(got.health, "blocked") = Len(got.health)
  IN  [raised   |-> brief.requireSources /\ (brief.sources = <<>> \/ blocked),
       items    |-> got.items,
       health   |-> got.health,
       errors   |-> Number(got.health, "ok") < Len(got.health),
       reasons  |-> reasons,
       degraded |-> brief.quality /\ reasons # {}]

-----------------------------------------------------------------------------
(* What a brief promises *)

\* Every item is of a source the registry approves and enables as the task
\* names it, no story is in it twice, and it is not longer than asked.
OnlyApprovedItems(brief, registry, digest) ==
  /\ Len(digest.items) <= brief.maxItems
  /\ \A m, n \in DOMAIN digest.items : digest.items[m].key = digest.items[n].key => m = n
  /\ \A n \in DOMAIN digest.items :
       \E source \in Range(brief.sources) :
         source.id = digest.items[n].source /\ Approval(registry, source) = "approved"

\* No story is shown in two sections.
SectionsDisjoint(digest) ==
  LET shown == DigestSections(digest.items)
  IN  \A s, t \in 1..Sections : s # t => shown[s] \cap shown[t] = {}

\* "too few successful sources" names a real trouble, or the brief was full
\* before the last source: then the sources left out count as not successful.
SourceAlarmHasCause(brief, digest) ==
  "too_few_successful_sources" \in digest.reasons /\ brief.minSources <= Len(brief.sources)
    => \/ Number(digest.health, "ok") < Len(digest.health)
       \/ Len(digest.items) = brief.maxItems
=============================================================================
