---------------------------- MODULE MCProposals ----------------------------
(* Values of the constants of Proposals for TLC. *)
EXTENDS Proposals, TLC

CONSTANTS c1, c2, c3

Url(host) == [scheme |-> "https", host |-> host, credentials |-> FALSE, path |-> 1]
News == [id |-> "news", type |-> "rss", url |-> Url("public_name"), mode |-> "feed_metadata",
         query |-> FALSE, secret |-> FALSE]

\* The same feed under two ids, a source on the local network, and one the
\* registry has.
MCSourceDrafts == {News, [News EXCEPT !.id = "feed"], [News EXCEPT !.url.host = "private_address"],
                   [News EXCEPT !.url.path = 2, !.id = "tech"]}
MCRegistry == {[News EXCEPT !.url.path = 2, !.id = "tech"]}

MCCapabilityDrafts ==
  {[id |-> "weather.v1", level |-> "L1_NOTIFY_ONLY", secret |-> FALSE, forbidden |-> FALSE],
   [id |-> "weather.v1", level |-> "L4_DESTRUCTIVE_OR_SECURITY_SENSITIVE", secret |-> FALSE, forbidden |-> FALSE]}
MCMemoryDrafts == {[category |-> "alias", secret |-> FALSE], [category |-> "credential", secret |-> FALSE]}

\* Bound: the three kinds share no rows and no registry, so that each is
\* explored with the other two left alone.
OneKind ==
  \A K \in {Source, Capability, Memory} :
    (\E k \in K : status[k] # "none") => \A k \in Key \ K : status[k] = "none"

Symmetric == Permutations({c1, c2, c3})
=============================================================================
