# DWITP: a verification project

TLA+ models of the DWITP collection platform (`README.md`, `features.md` and `src/` of this
repository), model-checked with TLC, with theorems checked by TLAPS. Every definition is
translated from the Python source; `PROJECT.json` maps each one to the lines it stands for.

## 1. Inventory

DWITP is a set of single-threaded Python processes, one per container, joined by RabbitMQ queues:

    crawler ──raw.crawl──┐
                         ├─> sanitizer ─sanitized─> analysis ─analysis.ready─> ai_layer ─ai.output─┐
    telegram_collector ──┘                             │                          ^                ├─> db_writer ─> PostgreSQL, OpenSearch, Neo4j
       telegram.raw                                    └────discovery.candidate───┼────────────────┘
    dashboard ──────────────control.ai (fanout)───────────────────────────────────┘

| component | state it keeps | operations | what makes it correct |
|---|---|---|---|
| `common/queue.py` over RabbitMQ | queues; one connection and channel per process; an attempt counter | publish, consume (acknowledge, *then* handle, swallow exceptions), fanout, poll, retry, reconnect, escalate | a handler's effect is not repeated; an escalation was earned; every message comes off its queue |
| `crawler` | seen-set (memory and file), publish buffer, a count of pages per Tor circuit; per target: queue of addresses, attempted set, page count | crawl cycle, fetch, publish or buffer, flush, rotate circuit, guard halt, save and load | content once, listings every cycle, no loss from a broker outage, the circuit renewed when the count says so, every target again and again |
| `telegram_collector` | high-water mark per group (memory and file), collection switch | collect a group, save, poll the switch, halt | each message at least once; only approved groups |
| `sanitizer` | none | redact injection patterns, republish | the patterns found reach the counters |
| `analysis` | none | extract entities, republish, publish candidates | the record goes first; each candidate on its own |
| `ai_layer` | operator switch, patterns per source, tripped sources (all in memory) | read commands, skip, trip, classify, strip, publish | the switch stops it; a poisoned source is cut off at its threshold; the page of a quarantine category never leaves it |
| `db_writer` | the rows of four stores | gates, first write with duplicate check, later writes, candidates | one evidence row per content; indexes point at evidence; reputation backed by evidence |
| `classifier.py` | none | score every category, subtract the penalty, choose one, quote | reference material only suppresses; a quote shows its phrase; high-risk labels need independent matches |
| `dashboard` | `sources.yaml`, proposals, candidates, registry, reputation, users, settings; a rate limiter's buckets | kill switch, source governance, users and sessions, paged lists and reviews, other pages | settings agree with the stages; file, reviews, registry and reputation account for each other; a decision stands; an administrator remains; the limit is exact; a walk through a list misses nothing |
| `graph_analytics` | a snapshot of rows and edges during a run | score the actor graph, write the scores to two stores; a pause flag | mention targets folded onto actors; scores follow the graph |
| `security.py`, `notifier.py` | none | URL validation, normalisation, calibration; audit and notify | pure functions over text and numbers; best effort |

What is hard to test here: a handler runs *after* its message was acknowledged, so every failure is
a loss; four stores are written without a common transaction; the operator's switch is read between
messages; the classifier's brakes live in memory; two sets of state (seen-set and buffer, stage and
setting, classifier count and stored count) drift apart under failure; the crawler's guard ends the
process at moments nobody saves at; three processes share `sources.yaml`, which is rewritten in place;
a session is never checked against the account it was issued for; a channel dies on one side before
the other notices, and the retry loop counts its attempts over the life of the process; a list is
paged while rows are added and reviewed. `PROJECT.json` lists these as `hazards`, each at its line.

## 2. The modules

| module | models | correspondence |
|---|---|---|
| `Envelope` | the message between stages | a record is one publication (a fresh `record_id`). What a stage computes from the text is a constant function of the record: the code is deterministic there. `content` says what of the collected text an envelope carries: the `"page"` (`raw_text`, `raw_content`, `content_sanitized`), the `"quotes"` of the classification (its summary and flat entities), or neither. |
| `Broker` | `queue.py` and RabbitMQ | `queue`, `discovery`: the queues. `hand[s]`, `step[s]`: the message a stage's handler works on and how far it is. `Take` is the acknowledgement; from then on the only copy is in `hand`. |
| `QueueClient` | `queue.py` again, the consuming side in detail | `pc` is the place in `consume_with_retry`; `connection` is what `_connection` and `_channel` are worth (`"dropped"`: dead, and nobody has noticed); `wire` holds the frames written and not yet read. Which messages are a process's own is `Message`; a handler is one step that publishes, stores or raises. `Broker` takes from it what `EffectOnce` says. |
| `MCQueueClient`, `QueueClientProofs` | instance and theorems | |
| `Sanitizer`, `Analysis`, `AiLayer`, `DbWriter` | the handlers | one action per visible effect (a publish, a store), one per early return; names follow the functions |
| `Pipeline` | the four stages, the operator and the faults | `Next`, the fairness, and the bounds |
| `EvidenceLedger` | the abstract promise | a record enters, travels, is stored at most once per content key while it travels, and never comes back |
| `PipelineProperties` | properties of the pipeline, and the refinement mapping `travelling <- InFlight, ledger <- Stored` | |
| `MCPipeline` | TLC instances | ten kinds of record (see its header) |
| `PipelineProofs` | theorems about the pipeline | |
| `Crawler` | `crawler/main.py` | `pc` is the place in `main`/`crawl_loop`/`crawl_url`; one action per turn of the loop in `crawl_url`. `client` is the cycle's connection: `"stale"` when the broker has dropped it and our side does not know. `up` is what the guard probes. `Place` is the order of the file; `Broken` and `Malformed` are the pages on which the code raises each time it reads them (`FetchRaises`, `ExtractLinks`), and such an exception ends the cycle (`BreakOff`). |
| `MCCrawler`, `CrawlerProofs` | instance and theorems | |
| `TelegramCollector` | `telegram_collector/main.py` | `pc` is the place in `main`/`collect_group`; one action per message of a group's history. `highwater` is `_highwater`, `file` the saved marks, `high` the mark `collect_group` is building. A message is its id; `HasText` says which ones carry text. |
| `MCTelegramCollector`, `CollectorProofs` | instance and theorems | |
| `Governance` | the dashboard's handlers over `sources.yaml`, `pending_sources`, `candidate_sources`, `source_registry` and `source_reputation`; what the crawler and `db_writer` do with them | one action per handler; a handler that writes the file and the database has a step for each (`request` is where it is). `sources.keyed` is FALSE when the `sources:` line is gone. An entry carries the proposal it came from (`from`), which the file does not; no guard reads it. |
| `MCGovernance`, `GovernanceProofs` | instance and theorems | |
| `Accounts` | the dashboard's users and sessions | `sessions`, `adminSessions`: who holds a token that still verifies. `password` says whether its owner knows it. |
| `MCAccounts` | instance | |
| `TelegramGraph` | `db_writer`'s `write_telegram_message` and `update_telegram_graph`, `graph_analytics/main.py` | one action per statement of the update (each commits on its own; `step` is the next one) and per read or write of a run (`phase`). `nodes` are the actor nodes with a `user_id`, `placeholders` those with a handle only. A score is represented by the weighted edges it is computed from. Messages come in any order, twice or never: that is what `Pipeline` delivers. |
| `MCTelegramGraph`, `TelegramGraphProofs` | instance and theorems | |
| `Classifier` | `ai_layer/classifier.py` | `text` is the page, a sequence of words, `verdict` what `classify` returns for it. A word is a phrase of the lexicon in one spelling, a marker, a line of credentials or other text. The scoring is written as operators over a page, in the order of the code's numbered parts. |
| `AccessQueue` | `fetch_url` and `handle_queue_if_needed` of the crawler | one action per request; `replies` are what each fetch returned, and `"raised"` is where a body that breaks off leaves both functions (`BodyBreaksOff`). `Crawler` takes from it that a page behind an access queue costs up to three fetches, may be the queue page, and may be an exception at any of the three. |
| `RateLimiter` | `rate_limit_middleware` of the dashboard | one action per request. A bucket is a set of passages, each a request's number and time: the number keeps equal times apart, as their places in the code's list do. |
| `Findings` | the paged lists of findings and of crawled pages, `review_finding` | one action per query of a page. `table` has the oldest row first; `Rank` is a row's place in the filtered list, newest first. `perPage` is the size of the page asked for, which the link to the next one sets back to the default. |
| `MCParts` | instance of the four modules above | they share no state; one of them runs in a behaviour, so their state spaces add up |
| `PartsProofs` | theorems about `Accounts`, `RateLimiter`, `Findings` and `Classifier` | |
| `Counting` | facts about finite sets, least elements and sums | cited by `PipelineProofs` and `PartsProofs` |

Variables marked *history* are in no line of the code; they record what a property needs to know of
the past: `released`, `sinceCommand`, `command` and `lost` (pipeline); `produced`, `delivered`,
`losses`, `overdue` (crawler); `published`, `setbacks`, `command`, `lost`, `late`, `missed` (collector); `crawled`, `torn`, `unsigned`, `stale`,
`hidden` (governance); `downgraded`, `outlived` (accounts); `answered`, `cited` (graph); `ended`,
`effects`, `ackLost`, `shocks` (queue client); `asked` (access queue); `answers` (rate limiter);
`opened`, `atStart`, `gone` (findings). No guard reads them, with one exception:
in `Governance`, `DiscoverCandidate` and `ScoreSource` ask `crawled`, because only a source that was
once crawled has records on their way to `db_writer`. Definitions introduced by "A mistake to catch" are wrong on
purpose: each is a plausible bug that the run's property must detect (`mutants` in `PROJECT.json`).

### Faults

Handlers raise at any step where the code can (`HandlerRaises`; in the classifier's check of its
control queue, after any part of the commands was drained, and with it lost: `CheckControlRaises`); stores fail and are swallowed
(`DbFails`); `db_writer` stops between two stores; `ai_layer` restarts; the broker restarts and
forgets its tmpfs (`BrokerFails`); an acknowledgement is lost and the message comes again
(`Redelivery`); the kill switch's setting is not stored (`SettingNotStored`). In the crawler: Tor or
broker outages, dropped connections (under a flush too, which then delivers some of its records:
`FlushPartly`), kills, interrupts, exceptions out of a cycle, failed rotations and failed saves. An
exception a page raises each time it is read is no fault of the bounded kind: `FetchRaises` and
`ExtractLinks` are part of the process's own work. In the collector: stops at
every place, failed polls (which take the commands they fetched with them), unreachable groups, errors
in the middle of a group, failed saves, and a broker restart that forgets the control queue. In the
governance: a commit that fails after the file was written, a rewrite of the file cut short after it
was truncated, and stops of `db_writer`. In the graph: an error or stop between two statements of an
update, a pause flag that cannot be read (it then does not pause), and a run that fails at any point.
In the queue client: dropped connections, channels closed by the
broker, broker stops (which forget the tmpfs) and kills, each at any moment, and handlers that raise.
In the accounts: restarts at any moment (the key that signs
tokens survives them). `Redelivery` concerns `db_writer` only: the stages before it publish on the very
connection whose acknowledgement was lost, so their handling has no effect.

## 3. Runs

| run | config | question | bounds |
|---|---|---|---|
| `web` | `MCPipelineWeb.cfg` | what the web path stores, indexes, scores and corroborates; refinement of `EvidenceLedger` | four records: `page1`, `mirror` (same bytes, other source), `page2`, `mail` (a source that is not stored); two faults |
| `mixed` | `MCPipelineMixed.cfg` | quarantine, Telegram's natural key and sender counts, the operator's switch against traffic; does everything drain, and is everything accounted for? | three records: a page with a link and patterns, a quarantine page, a Telegram message; one fault; one command; fairness |
| `switch_lost` | `MCPipelineSwitchLost.cfg` | *violated*: see findings | three records; one command |
| `crawl` | `MCCrawler.cfg` | crawl-once, fresh listings, no loss, circuits, progress | two sites in the order of the file, the first with links into the second; seven addresses, among them a malformed listing and a page whose body breaks off; two pages per target and cycle, two faults, deadlock checked |
| `crawl_loss` | `MCCrawlerLoss.cfg` | *violated*: see findings | two sites, one fault |
| `collector` | `MCTelegramCollector.cfg` | at least once, replays, the collection switch, catching up | two groups, three messages with a media-only one first, a history limit smaller than the history, two faults, one command |
| `governance` | `MCGovernance.cfg` | do file, reviews, registry and reputation account for each other? | two sources (one shipped, one proposed, with a seeded reputation row), two proposals, one address, two status changes or resets, one fault; three of the four statuses (`retired` is treated as `quarantined` everywhere but in the map) |
| `accounts` | `MCAccounts.cfg` | who administers, and on which sessions? | three users; everything else is unbounded |
| `telegram_graph` | `MCTelegramGraph.cfg` | does each node carry a mention at most once, and one of the actor's nodes every mention, and do the scores follow? | five messages of two senders and one without, in any order; three handles (a rename, a hidden username); one fault |
| `consumer` | `MCQueueClient.cfg` | are effects repeated, is an escalation earned, does every message come off its queue? | one process on two queues, three messages, two attempts, two disturbances; a process that publishes and one that stores |
| `parts` | `MCParts.cfg` | the sequential parts, each over all its bounded inputs | pages of up to four words over a lexicon of six categories, with three markers, one of which holds a phrase; five requests of two clients in five ticks, two a window; three fetches of two redirects each; five findings, a first page of one, two or three, two on every further one |
| `spelling` | `MCPartsSpelling.cfg` | *violated*: see findings | as `parts` |

Why the bounds are enough: the hazards need two records of one content and a third that overlaps
(or the same message twice), one or two faults (a fault and a redelivery; a fault in each of two
stores), and one or two commands (a command before and one after the queue is bound). The crawler's
hazards need a listing, a post reached twice, a quota smaller than the site, a gated page, a site
with an access queue, pages that raise for good (one that is published first and one that is not) and a
listing that another site links to; its cycles are unbounded. The collector's need a group that takes two cycles, a
mark that must pass a message without text, a second group behind it, and a fault that follows
another. Governance needs one name proposed twice (so that a failed approval, a retry and a second
proposal meet), a change that races `db_writer`'s start, and a change or reset that follows another.
The queue client needs as many
disturbances as attempts, so that an escalation is reached, and a disturbance that nobody notices
followed by one that somebody does. The parts need a page with two phrases, a marker and filler that pushes a
phrase to the edge of its quote or past what is read; a window that is full and empties; a queue that is
passed at each of the three tries; and a walk of three pages.
The accounts need two administrators beside the one the bootstrap makes; the accounts' run has no
counter at all. The graph's need an actor mentioned before and after its first message, under a handle it
keeps, one it gives up and none, a reply to oneself, and a reply processed before its original. The threshold of the pipeline runs is the code's
default, 5, with sources whose pages carry two and three patterns, so that it is met exactly. The
pipeline runs switch deadlock checking off, as do `consumer`, `parts` and `spelling`: with every message
handled and the budgets spent, or the input used up, the system rests. All others check for deadlock.

Properties, in short (each is stated in full beside its definition):

* `EvidenceUnique`, `IndexedWasStored`, `ReputationBacked`, `StoresAgree`, `FindingsCorroborated`,
  `MessageCountExact`: the stores against each other under duplicates, redelivery and crashes.
* `NeverRetained`: quarantine categories, from the classifier on. It is about the page: what the
  classification quotes from it does travel on (see the findings).
* `PoisonBudget`, `KillSwitchWindow`: the two brakes, within one life of the process. A disable can be
  lost or forgotten in four ways (no bound queue, a check that raises after the drain, a restart of the
  broker, a restart of the stage); `lost` records each where it happens, the property holds until then,
  and after it the stage publishes until it is told again, without bound.
* `AtMostOnce`: the pipeline implements `EvidenceLedger`.
* `Drains`, `NothingLost`: every record leaves the queues; without a fault or a command each is
  stored, escalated or stopped by a brake.
* `EffectOnce`, `EscalationEarned`, `Recovers`: the retry loop. `EffectOnce` is what the pipeline's
  `Broker` assumes of it.
* `CrawlOnce`, `ListingsStayFresh`, `SeenAccounted`, `CircuitBound`, `TargetsRevisited`,
  `BufferDrains`: the crawl cycle. `ListingsStayFresh` is about the listings no other target's crawl takes
  for content, `CircuitBound` about the pages the code counts, `TargetsRevisited` about the targets no page
  that raises for ever precedes: the findings say why no more can be claimed.
* `NothingSkipped`, `ReplayBound`, `SwitchStopsCycles`, `CaughtUp`: the collector. Its switch can lose a
  disable as the classifier's can, and `lost` says when.
* `SourcesUnique`, `ReviewsAccounted`, `RegistryAgrees`, `FrozenShown`: the five places in which a
  source's standing is kept, against each other. Their exceptions are named, and each is a way in which
  the code does let them drift apart: a failed commit, a rewrite cut short, `db_writer` inserting what
  it read before the change, a reset that ignores the file.
* `ReviewsFinal`, `RetirementTakesEffect`: a decision stands, and the crawler obeys it.
* `AdministratorRemains`, `AdminSessionsEarned`, `PowerEnds`: the accounts.
* `AttentionCounted`: the graph's counts against the distinct messages they stand for, whichever node
  they are on. `ScoresCatchUp`: rows and nodes end up with the scores of the graph as it is.
* `MarkersOnlySuppress`, `QuoteHoldsPhrase`: the classifier. `LimitExact`, `ResultEarned`,
  `WalkComplete`: the rate limiter, the access queue, the paged lists.

### Fairness

`FairSpec` of the pipeline asks weak fairness of each stage's own steps: a stage is an endless
consumer loop in a process that compose restarts (`restart: always`), and nothing else competes for
its message. Collectors, the operator and the faults are under no obligation. `FairSpec` of the
crawler asks weak fairness of the process's own work, for the same reason, and of the recovery of
Tor and the broker, which compose restarts too. The collector's asks it of the process's own work
(`Work`), which includes starting again. Governance asks that the crawler keeps starting cycles
(`main` loops for ever) and that a handler that has begun goes on (`Handling`: it never awaits);
administrators and `db_writer` are under no obligation. The graph asks that `db_writer` goes on with the
message in hand and that `graph_analytics` runs again and again (`main` loops for ever, and catches what
a run raises); nothing about messages, the pause flag or faults. The queue client's
asks that the broker delivers, reads what is written and is started again, and that the process runs and
is started again (`restart: always` for both); nothing about arrivals or disturbances. Accounts asks only that tokens end: the
serializer refuses them after `SESSION_MAX_AGE`. Choices inside a step (which address is taken next,
whether a fetch succeeds) carry no fairness: the liveness properties hold if every fetch fails.

### Findings

* `switch_lost`: the control queue is bound while a message is processed, so a disable sent before
  the first message reaches nobody, and the panel shows it as in force (`features.md:60`).
* `crawl_loss`: a broker outage followed by the guard's halt loses buffered pages for good
  (`features.md:27`).
* `spelling`: a phrase counts once for every spelling it is met in, so that one phrase, written twice,
  can make a high-risk finding (`classifier.py:27`, `THREAT_LEXICON.md:19`).

More disagreements are visible in the models and have no run of their own:

* A disable that the stage or the collector has bound a queue for may still be lost: `poll_queue`
  acknowledges each command as it reads it and raises with the ones it has read (`queue.py:145-153`), the
  control queue goes with the broker, and the switch is in memory. The classifier's handler then dies
  unheard, the collector swallows the error, and both go on (`features.md:60`; `lost`).
* `ai_layer/main.py:176-178`, "strip page content from the envelope so it never even transits the queue":
  `raw_content` and `content_sanitized` are stripped, while the summary of the classification quotes the
  matched phrases and indicators (`classifier.py:964-981`) and its entities the first of each kind, names
  of persons included (`classifier.py:1043-1063`); they reach `db_writer`, which drops them. And the links of
  such a page became candidates a stage earlier. `NeverRetained` claims neither.
* `features.md:67`, "a finding stays `UNCONFIRMED` until …": corroboration is counted when a finding is
  written and never again, so the earlier of two matching findings stays uncorroborated
  (`FindingsCorroborated` asks it of the later one only).
* `features.md:20`, `crawler/main.py:441-446`, "re-fetched each cycle": whether a page is a listing is asked of
  the target in hand. Redirects (279-287) and selector links (336-348) lead to other targets' sites, and a
  listing of one target that the crawl of another comes to is content there, remembered, and skipped
  for good at its own.
* `features.md:16`, "new identity … every N requests": only a fetch that returns a text page is counted
  (`crawler/main.py:311`), so a target whose fetches fail, or redirect, keeps a circuit for any number of
  requests; and a cycle that breaks off skips the rotation.
* Nothing catches what a single page raises: a malformed address on it (`urljoin`, 323-334) or a body that
  breaks off (301, outside the `try` of 254-266). The whole cycle ends, and as targets are walked in the order
  of the file, those behind a page that raises in every cycle are never crawled, and the seen-set is never
  saved (`EndsEveryCycle`, `Served`).
* The link to the next page of a list drops `per_page` (`dashboard/main.py:1885`, 1958): behind a first page
  shorter than the default, the rows up to the default are on no page (`Skipped`); behind a longer one, rows
  are shown twice.
* `features.md` and the compose file call the approval the only write path to `sources.yaml`;
  `OpenForRewrite` is another one.
* An approval whose commit fails leaves a source that is crawled although its proposal is pending or,
  later, rejected (`unsigned`).
* `graph_analytics/main.py:67-69` promises that folding placeholders keeps an actor's signal in one
  piece, while from the moment an actor has both a placeholder and a node with its handle every mention
  is drawn to both (`Holders`), and the fold adds them up: such an actor's mentions weigh twice.
  `AttentionCounted` therefore bounds each node, not their sum, from above. And after a rename the mentions
  left on the old handle's placeholder are dropped by the fold, which knows current handles only
  (`graph_analytics/main.py:81-82`, 110).
* `features.md:59`: a source the classifier reports as degraded stays active, because the flag is
  ignored once the source has a row (`db_writer/main.py:251`), and the row's count misses what was
  skipped.
* `features.md:20`, `crawler/main.py:445`: the page an access queue's root redirects to is published
  in every cycle, because the branch at 481 does not ask the seen-set. (`CrawledOnce` is proved where no page behind
  an access queue is found through a redirect.)
* `features.md:121`, "auto-reconnect … escalate after max retries": `reconnect` runs in the `except`
  branch, and what it raises ends the process with no word (`ReconnectRaises`); and attempts are never
  reset, so an escalation may be about failures that were all overcome.
* `crawler/main.py:423` logs that the last response is used; the first one is returned
  (`HandleReply`).
* `THREAT_LEXICON.md:103`: a `child_exploitation` hit must bypass the normal findings and review queue;
  `classify` keeps the category with the highest score only, so a hit beside a heavier category is an
  ordinary finding. And the quote is the heaviest phrase of *all* categories, not of the category
  it is shown for (`features.md:57`, `BestMatch`).
* `ai_layer/classifier.py:864-866` says of the reference markers that "these knock those pages down". The
  marker `anti-money laundering` (weight 1.4) holds the phrase `money laundering` (333, weight 1.6),
  which the word boundary of 407-408 finds behind the hyphen. A compliance page that writes it in two
  capitalisations counts the phrase twice and the marker once, and is a `money_laundering` finding
  with a confidence of 0.66. `MarkersOnlySuppress` is therefore about the markers that hold no phrase
  (`Markers`); said of all of them (`DOMAIN MarkerWeight`), TLC finds it violated by that page.
* The rate limiter never removes an address from its buckets.

## 4. Proofs

All theorems hold for every value of the constants that satisfies the named assumptions
(`EnvelopeAssumption`, `NoMessageAssumption`, `ThresholdAssumption`, `SeededAssumption`,
`BoundsAssumption`, `CrawlerAssumption`, `CollectorAssumption`, `GovernanceAssumption`,
`AccountsAssumption`, `GraphAssumption`, `QueueClientAssumption`, `LimiterAssumption`,
`PerPageAssumption`, `ClassifierAssumption`), each of which only types a constant, with these
exceptions: high-risk and quarantine categories are disjoint, thresholds, quotas, limits and page
sizes are positive (the code's constants are; `per_page` is checked with `ge=1`); no two targets have the
same place in the file; the shipped
`sources.yaml` is not empty and lists a name once, and no shipped name has a seeded reputation row
(`config/sources.yaml` and `init-db.sql` are so); the bootstrap's user is a user; messages and handles
are finitely many, and a handle belongs to one sender for good (Telegram's usernames do, at a time);
the classifier has a category and finitely many entity types, a line of credentials is no marker, and
no phrase is longer than the radius of a quote (150 characters, `classifier.py:931`).

| theorem | shows | inductive invariant and why it is needed |
|---|---|---|
| `PipelineProofs!TypeCorrect`, `TypeSafe` | `[]TypeOK` | `TypeInv`: a stage that is not idle has a message in hand (otherwise its next publish could be of nothing) |
| `EvidenceStaysUnique` | `EvidenceUnique`, `IndexedWasStored` | `StoreInv`: from the first store on, `db_writer`'s record *is* stored, so what the later stores write is backed; and each table holds its own platform only |
| `QuarantineHolds` | `NeverRetained` | `StoreInv` and `RedactInv`: the page is out of the envelope in the classifier's hand, in `ai.output` and in `db_writer`'s hand |
| `PoisonBudgetHolds` | `PoisonBudget` | `PoisonInv`: what was released, plus the envelope still in hand, is within what was counted, as long as the source is not tripped |
| `SwitchHolds` | `KillSwitchWindow` | `SwitchInv`: as long as a command is not lost, the drain would show it; an envelope past its control check under a disable implies that none was published since |
| `CorroborationHolds` | `FindingsCorroborated` | the property itself, with types: the later of two findings reads the earlier |
| `CountsExact` | `MessageCountExact` | `CountInv`: the property with finiteness of the stored set, for the cardinality lemmas |
| `StoresStayInAgreement` | `StoresAgree` | `AgreeInv`: index and graph lack the record in hand at most, and only until `db_writer` has come to them (`Pending`) |
| `ReputationHolds` | `ReputationBacked` | `HonestInv`: no message claims more patterns than the gateway found in its record; `ReputationInv`: the count plus what the record in hand still owes it (`Owed`) is within the sum over the stored evidence, because a record pays once and only after it was stored |
| `ImplementsLedger` | `AtMostOnce` | `StoreInv`; every step maps to a step of the ledger or a stutter, by lemmas on what publish, take and finish do to the set of records in flight |
| `CrawlerProofs!TypeCorrect` | `[]TypeOK` | inductive as it stands |
| `NothingForgotten` | `SeenAccounted` | `SeenInv`: when the process is down and nothing was ever lost, the file lists delivered pages only |
| `CrawledOnce` | `CrawlOnce`, if no page behind an access queue is found through a redirect (`NoRedirects`) | `OnceInv`: a page not remembered has been produced no more often than there were losses; `GateInv`: the gate does not ask the seen-set, but until a target's first page nothing that waits is remembered, except its root |
| `ListingsFresh` | `ListingsStayFresh`, for every link structure | `SiteInv`: what is still to visit is what the target's crawl can come to (`Site`); a page is remembered by such a crawl only, when it is no listing there |
| `CircuitsBounded` | `CircuitBound`, for a finite set of addresses | `CircuitInv`: what is still to visit was never attempted, so every fetch pays with a new address; and a target whose circuit was not renewed, or that ended early, pays with a fault or an overdue cycle |
| `ResultsEarned` (about `AccessQueue`) | `ResultEarned` | `AccessInv`: until the end, every reply so far was short of the page and the first was a queue page; so too where a body breaks off |
| `CollectorProofs!TypeCorrect` | `[]TypeOK` | inductive as it stands |
| `AtLeastOnce`, `ReplaysExplained`, `MarksAdvance` | `NothingSkipped`, `ReplayBound`, `MarksMonotone` | `CollectInv`: what the process has read so far, in a group it has not finished too, was published; what it has not read was published no more often than there were setbacks; while it reads, the mark it builds is not behind the old one |
| `SwitchHolds` | `SwitchStopsCycles` | `LateInv`: as long as a command is not lost, the drain would show it; between a poll that did not show the disable and the listing of groups, one late cycle is still to come, so the count is one short of the bound |
| `GovernanceProofs!TypeCorrect` | `[]TypeOK` | inductive as it stands |
| `SourcesStayUnique` | `SourcesUnique` | `LinesInv`, about the text of the file *or* in the hands of the handler that rewrites it: the file alone is empty in between and says nothing |
| `DecisionsStand` | `ReviewsFinal` | `LinesInv`: the proposal about to be committed is still pending |
| `ReviewsHold` | `ReviewsAccounted` | `ReviewInv`, the property over the same text |
| `RegistryHolds` | `RegistryAgrees` | `RegistryInv`: what `db_writer` has read and not yet inserted agrees with the file wherever a row is missing, or the name is excused |
| `FrozenHolds` | `FrozenShown` | `FrozenInv`: a frozen source without a reputation row was never crawled, so no record can make it a row |
| `PartsProofs!TypeCorrect`, `AdministratorHolds`, `SessionsEarned` (about `Accounts`) | `[]TypeOK`, `AdministratorRemains`, `AdminSessionsEarned` | each inductive with the types |
| `LimiterExact` | `LimitExact` | `BucketsInv`: a bucket holds requests that were let through, and every recent one; pruning at a request of the client's own is therefore enough |
| `WalkHolds` | `WalkComplete` | `WalkInv`: the findings of the start that were not shown and are no longer ahead of the walk (`Missed`) are at most `gone`, plus what a short first page skips (`Skipped`); a new row moves every other one backwards, a review moves at most one of them forward past the page boundary |
| `MarkersHold` | `MarkersOnlySuppress` | types only. A marker leaves every raw score as it was and the penalty only grows (`MarkerScores`), and a larger penalty never makes another category the label (`LabelFalls`) |
| `QuoteHolds` | `QuoteHoldsPhrase` | types only. Words start in order and end within the text (`StartsFacts`), the chosen match is within what is read (`BestMatchFacts`), and widening to a space keeps it in the quote (`QuoteBounds`) |
| `TelegramGraphProofs!TypeCorrect` | `[]TypeOK` | `HandInv`: the message in hand has no node before the first statement, and none of the edges still to be drawn |
| `AttentionHolds` | `AttentionCounted` | `HandInv` and `AttentionInv`: the property for every handle a sender ever had, not only the one its row shows now, which a late message may bring back; and the handles of rows and nodes are their senders' |
| `QueueClientProofs!TypeCorrect`, `OneConnectionHolds` | `[]TypeOK`, `OneConnection` (queue.py:33) | `Sockets`: what the broker holds open is what the process thinks it has |
| `EscalationHolds` | `EscalationEarned` | `AttemptsAccounted`: attempts never exceed the disturbances, and stay one short while a dead connection has not been noticed (`Due`) |
| `EffectHolds` | `EffectOnce` | `Custody`, `Wire`, `Published`, `Stored`: a message is in one place only, and what is on the wire behind an acknowledgement can have an effect once; a message that is back in its queue after an effect has lost an acknowledgement |

Frame lemmas (`DbFrame`, `AiFrame`, `OutputFrame`, `CrawlFrame`, `AttentionFrame`) state once which steps can touch what
an invariant speaks of, so that each invariant's proof looks only at the actions that matter.

Induction over data is out of the provers' reach as a schema, but not over one set of numbers: a
claim about every place of a sequence is proved by looking at the least place where it fails
(`Counting!LeastNumber`, from the well-foundedness of the naturals). A sum of the community modules
(`MapThenSumSet`) is treated so once, in `Counting!SumIsUnits`: it is the cardinality of a set of units,
as many for each element as it weighs. What the proofs need of sums (adding an element, a larger
weight, a smaller set) then follows from the library's facts about cardinality.

Only model-checked: the liveness properties (`Drains`, `NothingLost`, `TargetsRevisited`,
`BufferDrains`, `CaughtUp`, `RetirementTakesEffect`, `PowerEnds`, `ScoresCatchUp`, `Recovers`), which
need fairness and `ENABLED`. Every other property of a passing run is a theorem. `CrawlOnce`
and `CircuitBound` are theorems under a hypothesis about the sites, named in the
table; the sites of the run `crawl` meet it, and where an access queue's root redirects `CrawlOnce` is
false (see the findings).

## 5. Not modelled

Left out for good: HTML parsing, entity regexes and the wording of log lines; TLS, cookies and
headers; the dashboard's pages that only read and render, and its templates; the graph library's
numeric scores; the pure functions of `security.py` over text and numbers (URL validation,
normalisation, log encryption, calibration), which `AccessQueue` and `Envelope` take as parameters; what
`notifier.py` writes; images and network layout.

Modelled with a simplification worth knowing:

* `sources.yaml` is taken to be smaller than one write buffer (it is half of one as shipped), so a
  rewrite cut short leaves it empty, never half.
* The order of links on a page is abstracted away, that of targets is not. Which pages raise is a constant of the site (`Broken`,
  `Malformed`): an exception that strikes once is a fault (`CycleError`).
* A fetch is one step in `Crawler` and counted as the code counts it; the requests it makes are in
  `AccessQueue`.
* The start-up checks of the collector that halt before any work, and its idle state without
  credentials, change nothing.
* A source's patterns and the limit at which it is degraded are in `DbWriter`, so `Governance` lets
  scoring choose.
* In `Classifier` a word matches one phrase of the lexicon at most, a phrase is no longer than the radius of a
  quote, and weights are tenths; the thresholds are compared with the score, of which the
  confidence is a monotone function (a score of exactly 0.5 is taken to reach 0.5).
* The handlers of the dashboard await nothing between their queries, so in `Findings` only another
  process (`db_writer`) comes between the two queries of a page. `db_writer` is one process, so rows
  appear in the order of their `created_at`.
* In `RateLimiter` time passes in ticks; several requests may share one.

What could still be added: a composition of the collector with the natural key of `telegram_messages` under
replays (the two halves are `ReplayBound` and `EvidenceUnique`).
