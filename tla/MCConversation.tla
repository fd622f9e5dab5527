--------------------------- MODULE MCConversation ---------------------------
\* Instances of Conversation for TLC.
EXTENDS Conversation

CONSTANT Docker

MCSource == {Docker}
MCBrief == {Docker}

\* What the patterns find in each sentence: sentences for every rule, for every way
\* an intent is confirmed, for every outcome of Heimdal, and for every request beside
\* an intake.
MCTraits == [
  hello       |-> {},                                         \* hello
  approve     |-> {"admin"},                                  \* approve task local_ai_brief
  remember    |-> {"remember", "context"},                    \* remember that I like short briefs
  recall      |-> {"recall", "context"},                      \* what do you remember
  show        |-> {"id", "show", "list", "operation"},        \* show intake X
  cancel      |-> {"id", "delete"},                           \* cancel intake X
  delete_it   |-> {"delete"},                                 \* delete it
  resume_it   |-> {"resume"},                                 \* continue request
  list        |-> {"list", "context"},                        \* list pending intakes
  confirm     |-> {"id", "confirm"},                          \* confirm intake X
  confirm_it  |-> {"confirm"},                                \* confirm that intake
  yes         |-> {"yes"},                                    \* yes
  proceed     |-> {"yes", "advances"},                        \* proceed
  sources_ok  |-> {"select", "yes", "advances", "describes", "context"},  \* confirm sources
  sources_for |-> {"id", "select", "confirm", "advances", "describes", "context"},
                                                              \* confirm sources for intake X
  use         |-> {"sec"},                                    \* docker blog please
  use_for     |-> {"id", "select", "slug"},                   \* use docker_blog for intake X
  run         |-> {"operation", "slug"},                      \* run local_ai_brief
  pause       |-> {"operation", "slug"},                      \* pause local_ai_brief
  pause_for   |-> {"id", "operation", "slug"},                \* pause local_ai_brief for intake X
  pause_too   |-> {"confirm", "operation", "slug"},           \* pause local_ai_brief and confirm the intake
  propose     |-> {"advances", "propose", "context", "url"},  \* propose https://example.org/feed.xml
  propose_too |-> {"confirm", "advances", "propose", "context", "url"},
                                                              \* propose https://... and confirm the intake
  sources     |-> {"advances", "describes", "catalog", "context"},  \* find sources for kubernetes
  reviews     |-> {"context"},                                \* which reviews are due
  reviews_for |-> {"id", "context"},                          \* which reviews are due for intake X
  tell        |-> {"auto", "boundary"},                       \* tell yggdrasil to do things
  topic       |-> {"advances", "describes", "sec"},           \* keep me updated on docker blog patch notes
  add_source  |-> {"advances", "auto", "sec", "build"},       \* add docker blog to the local ai brief
  add_found   |-> {"advances", "describes", "auto", "search", "build"},
                                                              \* add kubernetes sources to the local ai brief
  news        |-> {"advances", "auto", "build"},              \* create a digest about astronomy
  printers    |-> {"advances", "auto", "wish", "build"},      \* create a digest about printer news
  shell       |-> {"build"},                                  \* create a health check with shell access
  diagnose    |-> {"diagnose", "advances", "auto", "sec", "build"},
                                                              \* diagnose route: add docker blog to ...
  debug       |-> {"diagnose"}]                               \* debug route: yes

\* The intent a sentence asks for, and the operation it is.
Asked(k) ==
  CASE k \in {"add_source", "diagnose"} -> Change("brief", {Docker}, {}, TRUE)
    [] k = "add_found"                  -> Change("brief", {}, {}, TRUE)
    [] k = "news"                       -> Draft("digest", "news", {}, {})
    [] k = "printers"                   -> Draft("digest", "news", {}, {"printer"})
    [] k = "shell"                      -> Draft("health", "health", {}, {"unsafe"})
    [] OTHER                            -> NoIntent

Operation(k) ==
  CASE k = "run"                                   -> "run_l1"
    [] k \in {"pause", "pause_for", "pause_too"}   -> "pause_l1"
    [] k = "show"                                  -> "task_read"
    [] OTHER                                       -> "none"

MCSentence ==
  [k \in DOMAIN MCTraits |->
     [traits |-> MCTraits[k],
      names  |-> IF k \in {"use", "use_for", "topic", "add_source", "diagnose"} THEN {Docker} ELSE {},
      builds |-> Asked(k),
      action |-> Operation(k),
      behind |-> CASE k = "diagnose" -> "add_source" [] k = "debug" -> "yes" [] OTHER -> "none"]]

\* A channel that may not pause tasks.
MCAllowed == {"chat", "context", "draft_task", "memory", "task_read", "run_l1", "source_proposal"}

\* Explored from: two open intakes; one that is closed; or one with a registry
\* edit or a failed write.
StoredCount == Cardinality({i \in Intakes : intakes[i].status # "none"})
ClosedCount == Cardinality({i \in Intakes : intakes[i].status \notin ActiveStatuses \cup {"none"}})
TwoThings == StoredCount + ClosedCount + edits + faults <= 2

=============================================================================
