------------------------------ MODULE Research ------------------------------
(***************************************************************************)
(* The research gateway of the automation API (services/                   *)
(* research_service.py, routers/research.py): queries that answer from     *)
(* stored items of approved public sources, fetching the sources when none *)
(* of them has a recent item.  POST /research/query and                    *)
(* POST /research/topic-digest-suggestion are the same query here; what    *)
(* they make of the answer is left out, and so are the endpoints that only *)
(* read.                                                                   *)
(*                                                                         *)
(* A query is one transaction: it reads a snapshot when it starts, fetches *)
(* one source after another, and then writes and commits as a whole.  An   *)
(* item's id is a hash of source, URL, title and date: here the source's   *)
(* position in the registry and an entry number.  words are the terms a    *)
(* text contains.                                                          *)
(***************************************************************************)
EXTENDS Integers, SequencesExt

CONSTANTS
  Reader,         \* concurrent queries
  OwnFeeds,       \* the registry's own sources:
                  \*   [type, mode, enabled, public, max, categories, words, about]
  FeedTable,      \* rows of an included table: [feed, fit, public, categories, words, about]
  TableShare,     \* max_items of a source that comes from a table
  FeedAnswers,    \* FeedAnswers[n]: what source n may answer: [ok, entries]
  ResearchRequests,  \* [ids, categories, words, limit, fetch, refresh, maxAge]
  CacheFloor,     \* stored items a query reads at least (50 in the code)
  LastHour        \* bound on the clock

ASSUME ResearchAssumption ==
  /\ CacheFloor \in Nat \ {0} /\ TableShare \in Nat \ {0} /\ LastHour \in Nat
  /\ ResearchRequests # {}
  /\ \A r \in ResearchRequests : r.limit \in Nat \ {0} /\ r.maxAge \in Nat /\ r.fetch \in BOOLEAN

\* The validator of a request drops ids it has seen already.
ASSUME RequestAssumption ==
  \A r \in ResearchRequests : /\ r.ids \in Seq(Range(r.ids))
                              /\ \A i, j \in DOMAIN r.ids : r.ids[i] = r.ids[j] => i = j

VARIABLES
  stored,  \* table research_items: from <<source, entry>> to [at, words]
  query,   \* query[q]: what query q has done so far
  hour     \* the time

researchVars == <<stored, query, hour>>

\* source_rows_from_tsv: a source made of a table row; it is enabled, and how
\* it is read depends on its kind and on the fit column.
TableFeed(row) ==
  [type       |-> IF row.feed THEN "rss" ELSE "http",
   mode       |-> CASE row.feed                  -> "feed_metadata"
                    [] ~row.feed /\ row.fit = "A" -> "http_summary"
                    [] OTHER                     -> "metadata_only",
   enabled    |-> TRUE,
   public     |-> row.public,
   max        |-> TableShare,
   categories |-> {"preapproved"} \cup row.categories,
   words      |-> row.words,
   about      |-> row.about]

\* load_source_registry_sources: a registry's own sources, then the included ones.
ApprovedFeeds == OwnFeeds \o [n \in DOMAIN FeedTable |-> TableFeed(FeedTable[n])]

FeedNames == DOMAIN ApprovedFeeds

\* What a source answers is a sequence of entries; a page that answers is one.
ASSUME SourceAssumption ==
  /\ OwnFeeds \in Seq(Range(OwnFeeds)) /\ FeedTable \in Seq(Range(FeedTable))
  /\ \A n \in FeedNames :
       /\ ApprovedFeeds[n].max \in Nat /\ ApprovedFeeds[n].about.number \in Nat
       /\ \A answer \in FeedAnswers[n] :
            /\ answer.entries \in Seq(Range(answer.entries))
            /\ \A entry \in Range(answer.entries) : entry.number \in Nat
            /\ answer.ok /\ ApprovedFeeds[n].mode = "http_summary" => answer.entries # <<>>

Smaller(m, n) == IF m <= n THEN m ELSE n
Larger(m, n) == IF m <= n THEN n ELSE m

\* The elements of S as a sequence, where ahead[k] are those that come before k.
InOrder(S, ahead) == [n \in 1..Cardinality(S) |-> CHOOSE k \in S : Cardinality(ahead[k]) = n - 1]
Ascending(S) == InOrder(S, [n \in S |-> {m \in S : m < n}])

\* writes: from ids to what is to be stored, fetched: the same in order, twin:
\* one id was added twice, outcomes: how the sources answered.
\* beside and repeated are history: another query was open at the same time,
\* and a source listed one entry twice.
Idle == [step |-> "idle", request |-> CHOOSE r \in ResearchRequests : TRUE, todo |-> <<>>,
         view |-> <<>>, writes |-> <<>>, fetched |-> <<>>, twin |-> FALSE, outcomes |-> {},
         answer |-> <<>>, beside |-> FALSE, repeated |-> FALSE]

\* Types of the table and of the queries; an answer is as long as was asked,
\* and nothing in it or in the table is from the future or of no approved source.
ResearchTypeOK ==
  /\ \A k \in DOMAIN stored : k[1] \in FeedNames /\ stored[k].at \in 0..hour
  /\ hour \in 0..LastHour
  /\ \A q \in Reader :
       /\ query[q].step \in {"idle", "rejected", "fetching", "answered", "failed"}
       /\ query[q].request \in ResearchRequests
       /\ query[q].outcomes \subseteq {"error", "nothing", "items"}
       /\ Len(query[q].answer) <= query[q].request.limit
       /\ \A k \in Range(query[q].answer) : k[1] \in FeedNames

ResearchInit ==
  /\ stored = <<>>
  /\ query = [q \in Reader |-> Idle]
  /\ hour = 0

-----------------------------------------------------------------------------
(* Selecting sources *)

EnabledFeeds == {n \in FeedNames : ApprovedFeeds[n].enabled /\ ApprovedFeeds[n].type \in {"rss", "http"}}

FeedsOfCategory(request) ==
  {n \in EnabledFeeds : request.categories = {} \/ request.categories \cap ApprovedFeeds[n].categories # {}}

MatchingFeeds(request) == {n \in FeedsOfCategory(request) : request.words \cap ApprovedFeeds[n].words # {}}

\* select_sources: the sources named, all of which must be enabled, or those of
\* the categories that match the query, all of them when none does.  An empty
\* sequence stands for the ResearchError.
SelectSources(request) ==
  CASE request.ids # <<>> /\ Range(request.ids) \subseteq EnabledFeeds -> request.ids
    [] request.ids # <<>> /\ ~(Range(request.ids) \subseteq EnabledFeeds) -> <<>>
    [] OTHER -> Ascending(IF MatchingFeeds(request) # {} THEN MatchingFeeds(request) ELSE FeedsOfCategory(request))

-----------------------------------------------------------------------------
(* Stored items and answers *)

\* recent_cached_items: those fetched within maxAge, the newest first, up to a limit.
RecentItems(table, selected, request) ==
  LET recent == {k \in DOMAIN table : k[1] \in Range(selected) /\ table[k].at >= hour - request.maxAge}
      newer(j, k) == \/ table[j].at > table[k].at
                     \/ table[j].at = table[k].at /\ (j[1] < k[1] \/ (j[1] = k[1] /\ j[2] < k[2]))
      sorted == InOrder(recent, [k \in recent |-> {j \in recent : newer(j, k)}])
  IN  SubSeq(sorted, 1, Smaller(Len(sorted), Larger(4 * request.limit, CacheFloor)))

\* Mutant of Offered: what was just fetched is not offered when it is too old.
OfferedRecent(candidates, fetched) == candidates

\* Fetched items that have grown too old meanwhile are offered all the same.
Offered(candidates, fetched) ==
  IF candidates = <<>> /\ fetched # <<>> THEN fetched ELSE candidates

\* filter_items: no match at all filters nothing.
Filtered(table, ids, request) ==
  LET matches == {n \in DOMAIN ids :
                    request.words \cap (table[ids[n]].words \cup ApprovedFeeds[ids[n][1]].words) # {}}
  IN  IF matches = {} THEN ids ELSE [n \in 1..Cardinality(matches) |-> ids[Ascending(matches)[n]]]

\* Mutant of AnswerFrom: the answer is not cut to the limit.
AnswerUncut(table, selected, request, fetched) ==
  Filtered(table, Offered(RecentItems(table, selected, request), fetched), request)

AnswerFrom(table, selected, request, fetched) ==
  LET found == Filtered(table, Offered(RecentItems(table, selected, request), fetched), request)
  IN  SubSeq(found, 1, Smaller(Len(found), request.limit))

-----------------------------------------------------------------------------
(* Fetching *)

ItemIds(n, entries) == [i \in DOMAIN entries |-> <<n, entries[i].number>>]

\* The session's changes with those of entries: of a repeated entry the last text stands.
Updates(q, n, entries) ==
  LET ids == ItemIds(n, entries)
  IN  [k \in DOMAIN q.writes \cup Range(ids) |->
         IF k \notin Range(ids) THEN q.writes[k]
         ELSE [new   |-> k \notin DOMAIN q.view,
               at    |-> hour,
               words |-> entries[Max({i \in DOMAIN ids : ids[i] = k})].words]]

\* Mutant of StoreItems: an item is added although it is stored.
StoreAnew(q, n, entries) ==
  LET ids == ItemIds(n, entries)
  IN  [q EXCEPT !.twin = @ \/ \E i \in DOMAIN ids : ids[i] \in DOMAIN q.writes,
                !.fetched = @ \o ids,
                !.writes = [k \in DOMAIN Updates(q, n, entries) |->
                              [Updates(q, n, entries)[k] EXCEPT !.new = TRUE]]]

\* store_research_item for the entries of source n: a row of the snapshot is
\* updated, anything else is added; the session does not find rows it has added
\* but not yet written, so the same item is added twice.
StoreItems(q, n, entries) ==
  LET ids == ItemIds(n, entries)
  IN  [q EXCEPT !.twin = @ \/ \E i \in DOMAIN ids :
                                /\ ids[i] \notin DOMAIN q.view
                                /\ ids[i] \in DOMAIN q.writes \/ \E j \in 1..(i - 1) : ids[j] = ids[i],
                !.fetched = @ \o ids,
                !.writes = Updates(q, n, entries)]

\* fetch_source_items: the entries a source yields when it does not raise.
EntriesOf(n, answer, request) ==
  LET source == ApprovedFeeds[n]
      limit  == Smaller(request.limit, IF source.max = 0 THEN request.limit ELSE source.max)
  IN  CASE source.mode = "metadata_only" -> <<source.about>>
        [] source.mode # "metadata_only" /\ source.type = "rss" ->
             SubSeq(answer.entries, 1, Smaller(limit, Len(answer.entries)))
        [] source.mode = "http_summary" /\ source.type = "http" -> <<answer.entries[1]>>
        [] OTHER -> <<source.about>>

FetchRaises(n, answer) ==
  ApprovedFeeds[n].mode # "metadata_only" /\ (~ApprovedFeeds[n].public \/ ~answer.ok)

Repeats(entries) == \E i, j \in DOMAIN entries : i # j /\ entries[i].number = entries[j].number

\* What is left of a query when it is over.
Settled(q, step, answer) ==
  [Idle EXCEPT !.step = step, !.request = q.request, !.outcomes = q.outcomes, !.answer = answer,
               !.beside = q.beside, !.repeated = q.repeated]

\* One source of the loop of query_research; an error ends the source only.
Visited(q, n, answer) ==
  LET entries == EntriesOf(n, answer, q.request)
      rest    == [q EXCEPT !.todo = Tail(@)]
  IN  IF FetchRaises(n, answer) THEN [rest EXCEPT !.outcomes = @ \cup {"error"}]
      ELSE [StoreItems(rest, n, entries)
              EXCEPT !.outcomes = @ \cup {IF entries = <<>> THEN "nothing" ELSE "items"},
                     !.repeated = @ \/ Repeats(entries)]

-----------------------------------------------------------------------------
(* Queries *)

Open == {q \in Reader : query[q].step = "fetching"}

\* A query starts: refused without sources, answered from what is stored, or
\* about to fetch all its sources because none of them has a recent item.
StartQuery(q, request) ==
  LET selected == SelectSources(request)
      cached   == RecentItems(stored, selected, request)
      fetches  == request.fetch /\ (request.refresh \/ cached = <<>>)
      fresh    == [Idle EXCEPT !.request = request]
  IN  /\ q \notin Open
      /\ query' = [r \in Reader |->
           IF r = q
           THEN CASE selected = <<>> -> [fresh EXCEPT !.step = "rejected"]
                  [] selected # <<>> /\ ~fetches ->
                       [fresh EXCEPT !.step = "answered",
                                     !.answer = AnswerFrom(stored, selected, request, <<>>)]
                  [] selected # <<>> /\ fetches ->
                       [fresh EXCEPT !.step = "fetching", !.todo = selected, !.view = stored,
                                     !.beside = Open # {}]
           ELSE [query[r] EXCEPT !.beside = @ \/ (r \in Open /\ selected # <<>> /\ fetches)]]
      /\ UNCHANGED <<stored, hour>>

FetchSource(q) ==
  /\ q \in Open
  /\ query[q].todo # <<>>
  /\ \E answer \in FeedAnswers[Head(query[q].todo)] :
       query' = [query EXCEPT ![q] = Visited(@, Head(@.todo), answer)]
  /\ UNCHANGED <<stored, hour>>

\* The rows after the flush: a new row gets its time now, an update the time
\* of its fetch and, where the text differs from the snapshot, the text.
Flushed(table, q) ==
  [k \in DOMAIN table \cup DOMAIN q.writes |->
     CASE k \notin DOMAIN q.writes -> table[k]
       [] k \in DOMAIN q.writes /\ q.writes[k].new -> [at |-> hour, words |-> q.writes[k].words]
       [] OTHER -> [at    |-> q.writes[k].at,
                    words |-> IF q.writes[k].words = q.view[k].words THEN table[k].words
                              ELSE q.writes[k].words]]

DuplicateKey(q) == q.twin \/ \E k \in DOMAIN q.writes : q.writes[k].new /\ k \in DOMAIN stored

\* session.flush fails on a duplicate key, and the query with it.
FailFlush(q) ==
  /\ q \in Open
  /\ query[q].todo = <<>>
  /\ DuplicateKey(query[q])
  /\ query' = [query EXCEPT ![q] = Settled(@, "failed", <<>>)]
  /\ UNCHANGED <<stored, hour>>

\* Flush, answer from what the transaction sees, commit.
FinishQuery(q) ==
  LET mine == query[q]
      seen == Flushed(mine.view, mine)
  IN  /\ q \in Open
      /\ mine.todo = <<>>
      /\ ~DuplicateKey(mine)
      /\ stored' = Flushed(stored, mine)
      /\ query' = [query EXCEPT ![q] =
           Settled(@, "answered", AnswerFrom(seen, SelectSources(mine.request), mine.request, mine.fetched))]
      /\ UNCHANGED hour

HourPasses ==
  /\ hour < LastHour
  /\ hour' = hour + 1
  /\ UNCHANGED <<stored, query>>

ResearchNext ==
  \/ \E q \in Reader : \/ \E request \in ResearchRequests : StartQuery(q, request)
                       \/ FetchSource(q) \/ FailFlush(q) \/ FinishQuery(q)
  \/ HourPasses

ResearchSpec == ResearchInit /\ [][ResearchNext]_researchVars

-----------------------------------------------------------------------------
(* Properties *)

\* A query fails as a whole only for a reason outside of it: another query
\* fetched at the same time, or a source listed one entry twice.  What earlier
\* queries have stored never makes it fail.
FailsOnlyByRepetition ==
  \A q \in Reader : query[q].step = "failed" => query[q].beside \/ query[q].repeated

\* A query that may fetch is answered with nothing only when every source it
\* selected failed or had nothing: not because what it found was refused as
\* stored before, filtered away, or too old by the time of the answer.
EmptyOnlyWithoutItems ==
  \A q \in Reader :
    query[q].step = "answered" /\ query[q].request.fetch /\ query[q].answer = <<>>
      => query[q].outcomes # {} /\ query[q].outcomes \subseteq {"error", "nothing"}
=============================================================================
