----------------------------- MODULE MCResearch -----------------------------
(* Values of the constants of Research for TLC. *)
EXTENDS Research, TLC

CONSTANTS q1, q2

Entry(number, words) == [number |-> number, words |-> words]
FeedOf(enabled, words) ==
  [type |-> "rss", mode |-> "feed_metadata", enabled |-> enabled, public |-> TRUE, max |-> 2,
   categories |-> {"tech"}, words |-> words, about |-> Entry(0, {})]
TableRow(fit, public, category) ==
  [feed |-> FALSE, fit |-> fit, public |-> public, categories |-> {category}, words |-> {},
   about |-> Entry(0, {})]

\* A feed and one that is switched off; a page, a source of which only its
\* description is used, and a page on a private address.
MCOwnFeeds == <<FeedOf(TRUE, {"ai"}), FeedOf(FALSE, {})>>
MCFeedTable == <<TableRow("A", TRUE, "tech"), TableRow("B", TRUE, "press"), TableRow("A", FALSE, "press")>>

Unreachable == [ok |-> FALSE, entries |-> <<>>]
Reachable(entries) == [ok |-> TRUE, entries |-> entries]
MCFeedAnswers ==
  <<{Unreachable, Reachable(<<>>), Reachable(<<Entry(1, {"ai"}), Entry(2, {})>>), Reachable(<<Entry(1, {}), Entry(1, {})>>)},
    {Unreachable}, {Unreachable, Reachable(<<Entry(1, {})>>)}, {Unreachable}, {Reachable(<<Entry(1, {})>>)}>>

Ask(ids, categories, words) ==
  [ids |-> ids, categories |-> categories, words |-> words, limit |-> 1,
   fetch |-> TRUE, refresh |-> FALSE, maxAge |-> 0]
MCRequests ==
  {[Ask(<<3, 1>>, {}, {"ai"}) EXCEPT !.refresh = TRUE, !.limit = 2],
   Ask(<<>>, {"press"}, {"ai"}), [Ask(<<>>, {}, {"ai"}) EXCEPT !.fetch = FALSE, !.maxAge = 1],
   Ask(<<2>>, {}, {})}

SymmetricReaders == Permutations({q1, q2})
=============================================================================
