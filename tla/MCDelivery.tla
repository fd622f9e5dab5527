----------------------------- MODULE MCDelivery -----------------------------
(* Values of the constants of Delivery for TLC. *)
EXTENDS Delivery, TLC

Preferences == [discord |-> TRUE, onSuccess |-> TRUE, onFailure |-> TRUE, onEmpty |-> FALSE,
                collapse |-> TRUE, quiet |-> FALSE, anomalyOnly |-> TRUE, alertOnDelivery |-> TRUE]
TaskOf(type) == [type |-> type] @@ Preferences

MCTasks ==
  {TaskOf("topic_digest"),
   [TaskOf("topic_digest") EXCEPT !.discord = FALSE, !.alertOnDelivery = FALSE],
   [TaskOf("server_health") EXCEPT !.collapse = FALSE],
   [TaskOf("printer_supply_status") EXCEPT !.onFailure = FALSE, !.anomalyOnly = FALSE],
   [TaskOf("backup_verification") EXCEPT !.quiet = TRUE],
   TaskOf("n8n_webhook"), TaskOf("other")}

\* Two sections; a story may rank in either, in both or in none.
Item(key, keep, first, second) == [key |-> key, keep |-> keep, score |-> <<first, second>>]
Feed(entries) == [ok |-> TRUE, entries |-> entries]
Down == [ok |-> FALSE, entries |-> <<>>]

NewsFeed == [id |-> <<"news", 1>>, type |-> "rss", target |-> "feed", enabled |-> TRUE,
         mode |-> "feed_metadata", max |-> 1, about |-> Item("feed", TRUE, 0, 0)]
Page(target, fit) == [slug |-> "blog", feed |-> FALSE, fit |-> fit, target |-> target,
                      about |-> Item(target, TRUE, 0, 1)]
MCRegistryFiles ==
  {[own |-> <<NewsFeed>>, table |-> <<Page("blog", "A"), Page("lab", "B")>>],
   [own |-> <<[NewsFeed EXCEPT !.enabled = FALSE]>>, table |-> <<Page("lab", "B"), Page("blog", "A")>>]}

\* Both answer, one of the two is down, both are down.
MCWebs ==
  LET full == Feed(<<Item("a", FALSE, 1, 1), Item("b", TRUE, 2, 1)>>)
      feeds == {full, Feed(<<>>), Down}
      pages == {Feed(<<Item("b", TRUE, 1, 1)>>), Feed(<<Item("c", TRUE, 3, 0)>>), Down}
      web(f, b) == [target \in {"feed", "blog"} |-> IF target = "feed" THEN f ELSE b]
  IN  {web(f, Down) : f \in feeds} \cup {web(full, b) : b \in pages}
        \cup {web(Down, Feed(<<Item("c", TRUE, 3, 0)>>))}

MCBrief ==
  [sources |-> <<[id |-> <<"news", 1>>, type |-> "rss", target |-> "feed"],
                 [id |-> <<"blog", 1>>, type |-> "http", target |-> "blog"],
                 [id |-> <<"blog", 2>>, type |-> "http", target |-> "lab"]>>,
   maxItems |-> 2, requireSources |-> TRUE, sectioned |-> TRUE, quality |-> TRUE,
   minItems |-> 1, minSources |-> 3, alertOnErrors |-> FALSE, alertOnEmpty |-> FALSE,
   hook |-> [used |-> TRUE, named |-> TRUE, secret |-> TRUE]]

Answer(arrived, status) == [arrived |-> arrived, status |-> status]
MCHookAnswers == {Answer(TRUE, 200), Answer(FALSE, 0)}

MCChecks == {[name |-> "api", type |-> "worker_heartbeat", expected |-> 0]}
MCHealthAnswers == {[c \in {"api"} |-> [arrived |-> TRUE, status |-> s, body |-> b]] :
                      s \in {200, 503}, b \in {"good", "bad", "unreadable"}}

MCPrinters == {[name |-> "printer", expected |-> 200, threshold |-> 20]}
MCPrinterAnswers == {[p \in {"printer"} |-> [arrived |-> TRUE, status |-> 200, levels |-> l]] :
                       l \in {{}, {5, 805}, {205, 805}, {195}, {1100}}}

MCBackupRules == {[inside |-> i, maxAge |-> 26, scan |-> TRUE] : i \in BOOLEAN}
Backup(age, manifest, dump) ==
  [age |-> age, manifest |-> manifest, complete |-> manifest # "missing", dump |-> dump,
   commit |-> TRUE, secrets |-> FALSE]
MCBackupSets ==
  {{}, {Backup(20, "clean", "good")}, {Backup(40, "clean", "good")},
   {Backup(20, "clean", "good"), Backup(0, "missing", "small")}}
=============================================================================
