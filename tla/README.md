# WikiSurge in TLA+

WikiSurge follows the live stream of Wikipedia edits. An *ingestor* reads the
stream and writes the edits to Kafka; a *processor* runs five Kafka consumers
(spikes, edit wars, trending pages, selective indexing, WebSocket relay) over
Redis and Elasticsearch; an *API* serves the results and pushes edits and alerts
to browsers; a *digest* scheduler sends e-mail.

This directory models the parts of it where the order of steps matters: channels
that fill up, goroutines that stop, keys that expire, requests whose answer is
lost, processes that die. TLC checks small instances, TLAPS proves the main
properties for every value of the constants. `PROJECT.json` lists every run, the source lines behind
every definition, the hazards, and for each property a mutant of the code's
model that violates it.

    tlc -workers 2 -config MCIngestor.cfg MCIngestor       # model-check
    tlapm IngestorProofs.tla                               # prove

## 1. Inventory

| component | state | operations | interacts with |
|---|---|---|---|
| stream client (`ingestor/client.go`) | last event id, backoff delay, a channel of events | event loop, subscription goroutine, preflight, backoff, `Stop` | Wikimedia's SSE server; producer |
| event filter (`client.go`, `models/edit.go`) | none | `ShouldProcess`, `Validate` | stream client |
| Kafka producer (`kafka/producer.go`) | channel, batch, stop channel | `Produce`, batching loop, `writeBatch`, `Close` | Kafka |
| ingestor process (`cmd/ingestor/main.go`) | - | connect retries, signals, stop order | the three above |
| Kafka consumer (`kafka/consumer.go`) | message in hand, offsets to commit | `consumeLoop`, `Stop` | Kafka; a handler |
| indexing strategy (`storage/storage_strategy.go`) | watchlist, 1 s cache of page contexts | `ShouldIndex` | Redis |
| selective indexer (`processor/indexer.go`) | channel, batch | `ProcessEdit`, batching goroutine with drain, `Stop` | strategy; Elasticsearch client |
| Elasticsearch client (`storage/elasticsearch.go`) | channel, batch | `IndexDocument`, bulk processor, `Stop` | Elasticsearch |
| processor process (`cmd/processor/main.go`) | - | start and stop order, health checks | all consumers |
| hot pages (`storage/redis_hot_pages.go`) | Redis: activity counters, windows, metadata; a cached count | `ProcessEdit`, promotion, cleanup | spike and edit-war detectors, strategy |
| spike detector (`processor/detector.go`) | per-page cooldown, Redis marker | `ProcessEdit` | hot pages, alert streams |
| edit war detector (`processor/edit_war_detector.go`) | Redis: editors, changes, timeline, marker; active set | `ProcessEdit`, sweeper, final snapshot | hot pages, alerts, analysis |
| analysis (`llm/analysis.go`) | Redis cache with two TTLs | `Analyze`, `Reanalyze`, `FinalizeAnalysis` | LLM; detector, API |
| trending (`storage/redis_trending.go`) | Redis: sorted set and hashes | `IncrementScore`, pruner | aggregator, strategy |
| alert streams (`storage/redis_alerts.go`) | Redis streams | publish, `SubscribeToAlerts` | detectors, alert hub |
| WebSocket hub (`api/websocket.go`) | set of clients, a send channel each | register, unregister, broadcast, stale check, panic restart, `Stop` | pumps, relay |
| alert hub (`api/alert_hub.go`) | subscribers, their channels | `Subscribe`, broadcast | alert streams, sockets |
| rate limiter (`api/rate_limiter.go`) | Redis window per client | `checkRateLimit` | requests |
| response cache (`api/cache.go`) | map with expiry, capacity | `Get`, `Set`, cleanup | handlers |
| circuit breaker (`resilience/circuit_breaker.go`) | state, counts | `Call`, transitions | wrapped calls |
| degradation (`resilience/degradation.go`) | level, causes, feature flags | checks, recovery | resource monitor, config |
| digest scheduler (`digest/scheduler.go`) | the day and week last run (memory) | loop, `runDigest`, `processUser` | user store, e-mail |
| dashboard socket (`web/src/hooks/useWebSocket.ts`) | socket, timers, message buffer | connect, close, flush | WebSocket hub |

What is hard in each, and the property that makes it right:

- *Stream client.* A lost connection throws away what was received and not yet
  taken; the id to resume from is the last one **taken**. Right: no gap between
  two events one process takes, and no event handed on twice.
- *Producer.* Drops when full, fails batch by batch, retries per partition, stops
  through a `select` that may prefer the stop channel. Right: order per page,
  every edit accounted for, `Close` ends.
- *Consumer.* Commits in the background, whatever the handler said, across
  rebalances and crashes. Right: at least once, in partition order.
- *Indexing path.* Two bounded channels with non-blocking sends, two batching
  goroutines, partial bulk answers, three stops in a row. Right: no edit vanishes
  but in listed ways, the stop order empties the indexer, failing Redis reads
  never let an edit in.
- *Detectors.* Several Redis keys with different TTLs written by separate
  commands, read by a sweeper. Right: one alert per page and process within the
  cooldown, the limit on hot pages, counters that outlive the marker they
  explain, a final snapshot for every war.
- *Hubs.* A channel is closed by one of several goroutines while another sends.
  Right: closed once, no send afterwards, nobody waits for ever.
- *Limits.* Rate limiter, breaker, hot-page limit: checked, then acted on. Right:
  the limit holds, or exceeds by a known number of actors.
- *Cached answers.* An answer with a gap is cached like any other, a failed
  lookup like "there is none", and a place under a title that several editions
  share. Right: for how long others see it.
- *Trending.* A score is read, decayed, raised and written back in two pipelines
  next to a pruner; the second may break off between its commands. Right: nothing
  counts twice.
- *Digest.* Which digests ran is in memory only, mail is sent before it is
  recorded; a run may start while the shutdown waits for those under way. Right:
  at most one mail per user and period without a restart in the minute of the
  runs, and none that uses a closed store.
- *Degradation.* Reports of several components come in any order, and switch the
  same features off and on. Right: what is off has a cause that goes on.

`PROJECT.json` has the full list of components with their status, and every
hazard at its line.

## 2. The modules

| group | modules | composed in | abstract specification | proofs |
|---|---|---|---|---|
| ingestion | `KafkaProducer`, `StreamClient`, `EditFilter` | `Ingestor` | `EditChannel`: ordered lossy channel | types, gap-free, once, order, accounting, `EditChannel` |
| indexing | `KafkaConsumer`, `IndexingStrategy`, `BulkIndexer`, `SelectiveIndexer` | `IndexPipeline` | `AtLeastOnce` delivery | types, delivery, accounting, justification, drain |
| push | `WebSocketHub`, `AlertHub` | hub or alert loop with its connections | `Feed`: members get what they are owed, in order, once | types, no send after close, nothing lost silently, no gap, `Feed` |
| spikes | `HotPages` | `SpikeDetector` | - | limit on hot pages, spacing of alerts |
| edit wars | `AnalysisCache` | `EditWar` | - | types, counters outlive the marker |
| services | `Faults`, `RateLimiter`, `ApiRequests`, `GeoLookup`, `Accounts`, `Digest`, `Trending`, `CircuitBreaker`, `Degradation` | `Services` | - | types, excess, freshness, places, mails, shutdown, scores, breaker, recovery; all together |

An `MC` module and a `.cfg` give each of them a small instance. There is one
safety run per group, a liveness run where something must eventually happen, and
one run for each of two disagreements between code and comment. What would come
next: the reads and statistics of the indexing strategy with the writers of the
keys they read, and the dashboard's socket hook against `WebSocketHub`.

## 3. The ingestion model

| module | models | state |
|---|---|---|
| `KafkaProducer` | `producer.go` | `buffer`/`bufferOpen` = `p.buffer`; `stopChan`; `loop`, `batch` = `batchingLoop`; `sent`, `attempt` = kafka-go's write of one batch; `topic` = the partitions |
| `StreamClient` | `client.go` | `pc` = the event loop; `sub`, `next`, `eventChan` = the subscription goroutine; `lastEventID`; `delay` |
| `EditFilter` | `ShouldProcess`, `Validate` | none: predicates on what the filters tell apart |
| `Ingestor` | `main.go`, `processEvent`, `Stop` | `main`, `crashes` |
| `EditChannel` | abstract | what a producer promises: what it accepted is delivered in order, or lost, and never stays undecided behind a later edit |

An action is one step of one goroutine between two points where another can be
seen: a channel operation, a network call that returns, a write of a shared
field. `Go`'s `select` is a choice among the cases that are ready.

Abstractions. An event is its position in the stream and carries an id (an
event without one would leave `lastEventID` alone); `lastEventID = 0` is none.
`json.Marshal` of an edit does not fail. The broker appends message by message,
which is finer than kafka-go's requests, and `WriterRetries` repeats messages
whose acknowledgement was lost; a write that lands after the writer gave up on it
is not modelled. Every page has a partition of its own (pages that share one
share its order too). The rate limiter only delays. A SIGTERM that arrives during
`Connect` waits for the next select. `taken`, `dropped` and `lost` are history
variables. A process is restarted after a crash, not after a stop
(`restart: unless-stopped` in `deployments/docker-compose.prod.yml`).

Runs.

- `ingest_safety` (3.1 million states): five events of two pages, one of them
  filtered; channel of events 2, buffer 1, batch 2, two write attempts, delays
  1..3, one crash. This is the smallest instance in which a buffer can be full
  while a batch is written, a partition can get a batch in part and again, a
  reconnect loses events, and the backoff doubles, is capped and is reset.
  Checks `TypeOK`, `GapFree`, `HandedOnce`, `PartitionOrder`, `Accounted`, and
  that the producer implements `EditChannel`.
- `ingest_live` (117 thousand states): three events, under `FairSpec`:
  `EventuallyDecided` (a batch that never fills is flushed) and `StopCompletes`.
- `ingest_graceful` **violates** `StopIsGraceful`: `Stop` closes the producer
  before it waits for the event loop, which may then send on a closed channel.

What `Accounted` accepts as lost: the stop case of the batching loop writes its
batch and returns with edits still in the channel (`producer.go:140`), where the
comment at `client.go:536` promises a flush. And the backoff is reset only when
`processStream` returns nil, that is on a stop (`client.go:199`): hours of healthy
streaming do not shorten the next delay.

## 4. The indexing model

| module | models | state |
|---|---|---|
| `KafkaConsumer` | `consumer.go`, and kafka-go's reader as configured | `consumer`, `message` = `consumeLoop`; `position`, `stash` = the reader; `committed` = Kafka; `handled` history |
| `IndexingStrategy` | `ShouldIndex`, `getPageContext` | none: which decisions are possible when some reads fail |
| `SelectiveIndexer` | `indexer.go` | `indexBuffer`, `indexBatch`, `indexer` = `startBulkIndexer`; `indexStop` |
| `BulkIndexer` | `elasticsearch.go`, bulk path | `bulkBuffer`, `bulkBatch`, `bulk` = `bulkProcessor`; `bulkStop`; `indexed` = Elasticsearch; `givenUp`, `unrecorded` history |
| `IndexPipeline` | `main.go`, `gracefulShutdown` | `main`, `rebalances`, `restarts` |
| `AtLeastOnce` | abstract | messages are handled in order, an offset is committed only when all before it were handled |

Abstractions. A document is its edit, since its id is a hash of the edit
(`models/document.go`), and a repeated request changes nothing. The status of a
page is fixed for each edit, and every read of it may fail on its own: this
includes a cancelled context (all fail) and covers what the one-second cache of
contexts may answer from failed reads. Sampling, when on, is a choice.
`close(c.stopChan)` and `c.cancel()` are one step, as nothing between them can
tell. The background commit may be accepted for some partitions only; the commits
at a rebalance and at `Close` may fail. `kafka-go` may return a message although
its context was cancelled. A bulk request indexes its documents one by one, its
answer may be lost, or may refuse the request as a whole. `givenUp` collects the
edits that a step counts in some metric (skipped, dropped, failed) and those that
were in memory when a process ended; `unrecorded` those that nothing counts.
The ends of a process reset its memory in the same step, and `Restart` starts the
next. The other consumers touch none of this state and are not in the model.

Runs.

- `index_safety` (3.1 million states): two edits on one partition (a watched page,
  a page in the trending list) and one on another (an unranked page), one place
  in each channel, indexer batches of two, bulk requests of one, one rebalance
  and one restart. Channels fill, a batch meets a full client, a rebalance or a
  crash repeats messages, and the stop finds the goroutines anywhere. Checks
  `TypeOK`, `Accounted`, `IndexerEmptied`, `IndexedJustified`, and that the
  consumer implements `AtLeastOnce`.
- `index_live` (24 thousand states): an edit, an unreadable message and a copy of
  the edit, bulk requests of two, under `FairSpec`: `EventuallyDecided` and
  `ShutdownCompletes`.

What `Accounted` accepts as lost: the indexer drains into `bulkBuffer`, and the
client's stop case does not read it any more (`elasticsearch.go:258`, where
`cmd/processor/main.go:606` promises that everything is flushed). `unrecorded`
holds the edits of a batch refused as a whole: the answer has no items, so
they are neither indexed nor counted (`elasticsearch.go:320`). The statistics count
an edit as indexed before it is sent to a channel that may refuse it
(`indexer.go:224`), and a context built from failed reads is cached for a second
like any other (`storage_strategy.go:345`).

## 5. The push model

| module | models | state |
|---|---|---|
| `WebSocketHub` | `api/websocket.go`, the relay of `server.go` | `clients`, `register`, `unregister`, `broadcast` = the fields; `hub`, `message`, `hubTodo`, `slow` = `Run`; `relay`, `relayTodo` = `BroadcastEditFiltered`; for each client `reader` = `readPump`, `writer` and `batch` = `writePump`, `send` and `closed` = its channel, `conn` = its socket; `got` = what the browser has |
| `AlertHub` | `api/alert_hub.go`, `api/websocket_alerts.go`, `SubscribeToAlerts` and `publishAlert` of `storage/redis_alerts.go` | `tail` = the two Redis streams; `hub`, `following`, `ids`, `at`, `todo` = the XREAD loop; `canceled`, `stopped` = `Stop`; `subscribers`, `channel` = the fields; for each connection `reader`, `writer`, `frame`, `conn`, `got` as above |
| `Feed` | abstract | whoever is a member when a message it wants is published is owed it; a subscriber receives only what it is owed, in order and once |

Four places close a send channel (unregister, slow client, stale check, stop) and
two goroutines send on it (the event loop and the relay). Only the mutex keeps
them apart. It is modelled by what it excludes: the relay holds it for reading
from `RelayReceives` to `RelayReleases`, and `WriteLock` lets the event loop change
`clients` only outside of that; the event loop's own read lock needs no state since
nobody else writes. The map of clients is visited in any order, as in Go.

Abstractions. A filter is the set of edits it lets through; alerts go to all. A
message is its source and number. `conn` is *gone* when the browser has left and
the server has not noticed, *closed* when the server has closed it; a write to a
gone peer may succeed or fail. A write fails in any state, because `writeWait` may
pass. The first ping comes 30 s after the connection; `PingFails` assumes that
the registration has been taken by then (without it, an unregistration could be
taken before the registration of a client whose ping failed). A message that finds
`broadcast` full is dropped before anybody is owed it and is no step. Joining a
frame's messages by newlines, and the browser splitting them, is the
concatenation of `batch`. `Feed` also allows a client to miss messages;
`NothingLostSilently` says when. The event loop restarts after a panic;
`NoSendOnClosed` rules out the panics of its sends, and the restart is not modelled.
`owed` and `missed` are history variables. In production only the relay sends;
`BroadcastEdit` and `BroadcastAlert` are called by tests alone, and are modelled
because the slow-client path hangs on them.

In `AlertHub` a stream's entry is its number. A broadcast is one step: it holds the
mutex for reading, so that nobody subscribes or leaves meanwhile, and each channel
it sends to is read by one goroutine that nothing else orders. Redis answers an
XREAD that waits before it takes the next command, which is the guard of
`Publish`. `Run` creates its context and sends its first XREAD in one step. A
malformed alert is one `parseAlertMessage` refuses; none of the processes writes
one. The restart after a panic is not modelled, nor the backoff behind
`SubscribeToAlerts`, which returns only when its context is done.

Three things the models make plain. The comment at `websocket.go:644` leaves a
client that is slow in a filtered broadcast to the main loop: that removes it
only if its channel is full again when the next stale check comes, so that a
client may go on missing edits; `missed` records them. And after `Stop` nobody
reads `unregister`: more than 64 pumps then block in their deferred send until the
process ends. And the alert loop moves an id only for an alert it has handled: an
answer with nothing but malformed alerts (ten of them in the code) is read again
for ever, without a pause. `AlertsFollow` says so with `Barrier`.

Runs.

- `hub_safety` (1.2 million states): two clients, one edit and one alert, one
  place in every channel, both clients admitted. Each loop can find a channel
  full, and each way of closing a channel can meet each loop half way. Checks
  `TypeOK`, `NoSendOnClosed` and `NothingLostSilently`.
- `hub_live` (248 thousand states), under `FairSpec`: two clients behind one
  address of which one is admitted at a time, two edits, so that a registration
  can be refused, and a frame can hold two edits. Checks that the hub implements
  `Feed`, and `ClientsLeave`: whichever of the registration and the two
  unregistrations of a client the event loop takes first, the client does not
  stay in the set nor its goroutines alive.
- `alert_hub` (151 thousand states), under `FairSpec`: two connections of which one
  at a time is admitted, two spikes and a malformed edit-war alert, one place in a
  channel, one alert of a stream in an answer. Answers come in pieces, are empty
  or lost, a channel is full, a place is given back while the loop handles an
  alert. Checks `TypeOK`, `FollowsWithoutGap`, that the hub implements `Feed`,
  `AlertsFollow` and `SubscribersLeave`.
- `alert_resume` **violates** `GuaranteedDelivery`: until a stream has given its
  first alert every XREAD starts at its end, and an alert published between two
  of them, or in an answer that is lost, is skipped (the repository's `README.md`
  promises "Guaranteed alert delivery with resume support").

## 6. The detection models

| module | models | state |
|---|---|---|
| `HotPages` | `storage/redis_hot_pages.go` | Redis: `activity`, `activityTTL`, `window` (the ages of its members), `windowTTL`; of each process `cache`, `fresh` = the cached count, `step`, `page` = `ProcessEdit`; `cleanup`; `owner` history |
| `SpikeDetector` | `processor/detector.go` on the tracker | `cooldowns` = the map of each process; `spiking` = the markers; `quiet` history |
| `AnalysisCache` | `llm/analysis.go` | `timelineTTL`, `analysis` = Redis; `task`, `topic` = each goroutine in `Analyze`, `Reanalyze` or `FinalizeAnalysis` |
| `EditWar` | `processor/edit_war_detector.go` | Redis: `editors`, `changes`, `countersTTL`, `marker`, `active`, the `latest` entry of a page's alerts; `detector`, `inHand`, `cooling` = `ProcessEdit`; `sweep`, `seen`, `todo` = the sweeper; `clean` history |

Every call to Redis is a step of its own, and `MaxFaults` of them fail, with or
without their effect, or in between for a pipeline. Time is a `Tick`, of five
minutes for spikes and ten for wars; it ages what Redis keeps and expires it. The
handlers of several processes interleave; edits may reach the tracker late
(`MaxLag`). Pages that are not hot make no step in `EditWar`: its handler returns.

Abstractions. A window is a bag of ages. The ratio of a spike is compared without
division. Of an edit's bytes `EditWar` keeps what `countReverts` compares. An
analysis is only how long it is kept. The alert streams of `AlertHub` begin where
`Published` ends. The metadata beside a window and the per-wiki marker are left out.

Runs.

- `spikes` (209 thousand states), under `FairSpec`: two pages of which one may be
  hot, one process, five edits, one failed call. `PromotedWithinLimit`: what a
  process lets in by a count never exceeds the limit, however old the count is.
  `AlertsSpaced`: it decides to alert on a page again only after the cooldown.
  `HotPagesCool`: windows that lost their expiry are reclaimed. Five edits allow a
  second alert to be tried within the cooldown, not one after it; the theorems
  are about any number.
- `wars` (263 thousand states), under `FairSpec`: one page, two users, a reader, one
  failed call, one restart, a sweep in every tick. `CountersOutliveMarker`: while
  a page is marked the counters last as long, through gaps longer than the
  detection window. `WarsAreClosed`: every published war comes to an end with a
  final snapshot, also one declared anew while the sweeper closes it. Both are
  about wars none of whose calls failed: a failed SADD and a marker that expires
  before the next sweep leave a war open for ever, and the code does not look back.

What the models make plain, beside the properties. The limit is one of each
process: each counts what it has let in, two may let in twice as many between
two counts; a failed SCAN counts 0 and lets in anything; an EXISTS that fails
falls through to a promotion. A window trimmed to `MaxMembers` loses the older
edits first, and with them the hour an edit burst is compared with. The cooldown
is noted before the alert is published, so that an alert that could not be
published is lost and the next one suppressed (`detector.go:169`). The counters
of a page without a marker live for the detection window after each edit, so
that edits far more than ten minutes apart add up when each gap is shorter
(`docs/ARCHITECTURE.md:685` speaks of a war "within window"). A final analysis is
kept for seven days (`docs/FEATURES_GUIDE.md:411`) unless an analysis that was
under way overwrites it with one for hours.

## 7. The service models

| module | models | state |
|---|---|---|
| `RateLimiter` | `api/rate_limiter.go` | `gate` = each request, `counted` = what it read, `inWindow` = the sorted sets |
| `ApiRequests` | the read endpoints of `api/handlers.go`, `api/middleware.go`, `api/cache.go` | `serving`, `query`, `position`, `spent`, `gone`, `answer` = each request; `cache` |
| `GeoLookup` | `lookupArticleCoordinates` and its sources | `looking`, `article`, `read`, `cut` = each lookup; `placed`, `heldFor` = the cache in Redis, by title; `source`, `sinceFail` history |
| `Accounts` | `storage/sqlite_users.go`, `api/user_handlers.go` | `accounts`, `dbOpen` = SQLite; `registering`, `whose`, `newAccount` = each registration |
| `Digest` | `digest/scheduler.go`, `collector.go`, `email/sender.go`, the end of `cmd/api/main.go` | `loop`, `wg` = the scheduler's loop and its `WaitGroup`; `sinceRun` = the days of the last runs, `runs`, `todo`, `inHand` = the workers, `process`; `mails`, `boots` history |
| `Trending` | `storage/redis_trending.go`, `processor/aggregator.go`, `storage/redis_stats.go` | `rawScore`, `decay`, `undated`, `serverURL`, `ranking` = Redis; `updating`, `title`, `newScore` = each aggregator; `pruner`, `excess`; `exact` history |
| `CircuitBreaker` | `resilience/circuit_breaker.go`, `retry.go` | `breaker`, `failures`, `successes`, `timedOut` = the breaker; `call`, `attempt` = each caller |
| `Degradation` | `resilience/degradation.go`, `config/features.go`, `monitoring/resource_monitor.go` | `health`, `level`, `enabled`, `maxTracked`; `monitor`, `wasHigh`; `troubled` history |
| `Faults` | what they call | `faults` |

They share nothing that is modelled, so `Services` puts them side by side and a
behaviour is about one of them, its `subject`: interleavings would multiply
states and show nothing more.

Abstractions. An entry of the limiter's window leaves it at any time after it was
counted. A handler is the list of the calls it makes, each needed or not, each
ended by its client's leaving or not; an answer is its age and whether it is
whole. A lookup is of an article, a title in the edition its caller's server URL
names; a source tells the article's place or not, and so does its next answer. The
key of the cache is the title alone. A score is a multiple of the least one that
is kept, and halves in a tick. The write of a score sends several commands; all are
carried out, or those before the one at which the connection breaks, and a score
without `last_updated` does not decay. A digest is a mail; its text, and what
makes a user be skipped, is a choice. Failed calls are bounded by `MaxFaults` except
where a cause lasts: a closed database, a context that has ended, and the reports to
the degradation manager. These come in any order, the second stage of memory
pressure also without the first.

One run, `services` (2.0 million states): three callers of two limited
endpoints and an exempt address, two requests for three endpoints with a cache
of one entry, two lookups of one title in three editions whose sources tell
different things, two registrations and a daily digest through a shutdown at any
point and one restart, two aggregators on two pages with three edits, three
callers of a breaker that opens after two failures, and every order of reports.
Checks

- `OvershootBounded`: the entries of a client exceed its limit by less than the
  requests served at once (the comment at `rate_limiter.go:156` calls the two
  pipelines atomic);
- `ServedFresh`: an answer, with the gaps somebody else's failure made, is at most
  a request and a cache life old;
- `LocationRecovers`: a title is cached as "nowhere" only after a lookup of it
  that either had a call fail no longer ago than a day, or was of an edition no
  source of which tells a place: nothing is lost between the sources, and no failure
  nor another edition's answer lasts longer than a day;
- `OneMailPerRun`: one mail of a period a day, and one more for each start of the
  process in the minute of the runs;
- `RunsEndBeforeStores`: when Redis and the database close no digest is under way
  and none can start. After `Stop` has closed `stopCh` the `select` may still take a
  tick and add a run while `Stop` waits; the loop's own place in the `WaitGroup` is
  what keeps the wait from ending before it;
- `ScoreWithinEdits`: overlapping updates and the pruner lose edits, they never
  count one twice nor keep a score from decaying;
- `ClosedWhileFewFailures`: the breaker is closed exactly while fewer failures than
  the threshold are counted, whichever calls report late;
- `NothingOutlastsItsCause`: a feature that the configuration enables is off, or the
  limit on hot pages reduced, only while a component that takes it away was
  reported in trouble and not recovered since, in every order of reports; with no
  such component the level is none;
- the types, with the uniqueness of e-mail addresses.

What the models make plain, beside the properties. Half-open does not limit the
probes: `successes` counts outcomes, not admissions, and after `GetState` it keeps
what an earlier half-open counted. The recovery of Elasticsearch switches indexing
on while Kafka's lag still holds it off, and the other way round; it also switches
on what the configuration had off. `HandleRedisMemoryCritical` without
`HandleRedisMemoryLimit` before it switches trending off and leaves Redis healthy and
the level none, of which `degradation.go:18` says "everything is operational". A
title cached as nowhere by a lookup of one edition hides the place another
edition's article has, for a day and with no call that failed: the callers
pass the server URL of the war or page, which may be empty (`handlers.go:1092`, `1162`,
`1259`), and the key does not have it (`handlers.go:1307`). A hash without a score, which HSETNX makes for
a page that was pruned meanwhile, is deleted by a verdict from before the page was
edited again; and ZREM removes from the ranking a page edited since it was read. An
e-mail that fails for its sender may have been delivered, and nobody reads the date
`MarkDigestSent` writes: only memory keeps a digest from being sent twice, and a
process that is down in the minute of the runs sends none. The loser of two
registrations of one address gets 500, not 409. `SetVerified` may fail unnoticed,
and the account then never gets a digest.

## 8. Bounds and fairness

`MaxCrashes`, `MaxRestarts`, `MaxRebalances`, `MaxAttempts`, `MaxFaults`, `MaxEdits`,
`MaxScored`, `MaxFailures`, `MaxAccounts` and `Longest` bound what is unbounded outside;
one crash, restart or failed call is enough to put a repetition after every state
the first life of a process can reach, and the proofs do not depend on the
number. The streams and logs are finite, so deadlock is not checked: the program
may have nothing left to do, or have stopped.

Fairness is per goroutine step. A step that stays possible is taken (WF): the
scheduler runs goroutines, tickers fire, and every network call has a timeout.
The stop case of a `select` gets SF: `Go` picks at random among ready cases, so a
closed stop channel cannot lose for ever. The same holds for the hub's queues: SF
for taking a registration or an unregistration, since the `select` picks at random
and a writer that waits for Go's `RWMutex` keeps new readers out, so that a busy
relay cannot starve the event loop. The stale check and the stop get none.
`AlertsFollow` needs an XREAD that is answered at some time, SF for `PollServed`.
`HotPagesCool` and `WarsAreClosed` assume that time passes (WF for `Tick`), that a
handler, an analysis and a sweep go on (WF), and that the cleanup, every few
minutes, gets to each window at some time (SF for its scan and its deletion, which
edits may interrupt). Calls that fail are bounded by `MaxFaults`, so that each is
followed by one that works; a handler returns after a failure anyway. Nothing else is assumed of Wikimedia,
Kafka, Elasticsearch, Redis, of browsers, of signals, of crashes or of restarts.

## 9. Proofs

`IngestorProofs` (from the `ASSUME`s of the modules: capacities positive, delays
ordered, titles given for every edit):

- `TypeCorrect`: `Spec => []TypeOK`; the types are inductive with the fact that a
  batch in the `select` is not full.
- `ReconnectsGapFree`: `StreamInv` says what the channel holds (consecutive
  events that end just before `next`) and that what was taken is an interval
  that ends at `lastEventID`; `GapFree` alone is not inductive because it says
  nothing about what the channel will deliver next.
- `NothingHandedTwice`: `HandedInv`, everything handed to the producer is at or
  before the last id, and before it while an event is in hand.
- `PagesInOrder`: `OrderInv`, the batch and buffer are ascending and newer than
  the partition, except for the part of the batch already sent.
- `NothingVanishes`: `Spec => []Accounted`. `AccountInv` says it in terms of
  `Handed`, what was handed over and is pending, on the topic, dropped or lost.
  No step takes anything out of `Handed`, and
  `processEvent` puts there the edit it has in hand before it takes another.
- `ProducerIsChannel`: `Spec => ImplementsChannel`. The batch followed by the buffer
  is the abstract queue. `EmptyInv` says where it must be empty for a step to lose
  nothing silently: no batch is left when the loop is over, and neither batch nor
  buffer in a dead process. A message that reaches a partition is `Deliver`, the
  end of a write or what a stop or crash gives up is `Settle`, and `Produce` is `Accept`.

`IndexPipelineProofs` (from the `ASSUME`s of its modules, for all logs,
capacities, rebalances and restarts):

- `DeliversAtLeastOnce`: `Spec => ImplementsAtLeastOnce`. `DeliveryInv` adds what
  the refinement needs: everything up to the reader's position is handled but for
  the message in hand, also when a rebalance has moved the position back behind
  it; so is everything up to a noted or committed offset.
- `FailSafe`: a page that is significant in a context with failed reads is
  significant. With `StepFlow` (what a step can add to the pipeline) it gives
  `IndexesOnlyJustified`: `Spec => []IndexedJustified`.
- `AccountsForEdits`: `Spec => []Accounted`, because no step shrinks the set of
  edits that are indexed, on the way or recorded, and the handler adds its edit.
- `NothingLeftBehind`: `Spec => []IndexerEmptied` from `StopInv`, the order of the
  stops: the indexer is told to stop only after the consumer has left its loop,
  so nothing enters the channel that is being drained.
- `TypeCorrect`: with `BatchBound`, which bounds the drained batch by a full batch
  and a full channel.

`WebSocketHubProofs` (from `HubAssumption`, for all clients, filters, limits and
capacities):

- `HubCorrect`: `TypeOK /\ ChannelInv /\ FeedInv` is invariant; the other theorems
  follow from it.
- `NeverSendsOnClosed`: `ChannelInv` says that a registered client's channel is
  open, that a client in the queue of registrations is not registered yet nor
  queued twice, and that a client a loop has still to reach is registered. The
  last part is where the mutex is used.
- `LosesNothingSilently`: `FeedInv` says, for each client, that what it has, what
  is in its frame and what is in its channel form one sequence in order, all of it
  owed and published, without what a loop is about to send; and that what is owed to a
  registered client with a working connection is in that sequence, in a loop's
  hand or in `missed`.
- `DeliversFeed`: `Spec => ImplementsFeed`. A frame written is `Receive`, an
  admission is `Join`, the four removals are `Leave`, an edit that arrives and a
  message that is taken from `broadcast` are `Publish`; everything else stutters.

`AlertHubProofs` (from `AlertAssumption`, for all clients, any number of alerts of
which any are malformed, all limits and capacities):

- `FollowsStreams`: `Spec => FollowsWithoutGap`. `LoopInv` says that everything
  between the place the XREAD began and the id of a stream is broadcast or
  malformed, and that an alert still in the answer lies ahead of the id, of those
  before it, and of nothing else that is not settled.
- `DeliversFeed`: `Spec => ImplementsFeed`. What was broadcast lies at or before its
  stream's id, so an alert handled is newer than all of them; `LineInv` follows
  it through channel and frame to the peer.
- `TypeCorrect`, with the limit of subscribers and the capacity of channels.

`SpikeDetectorProofs` (from `HotPagesAssumption` and `DetectorAssumption`, for any
pages, processes, thresholds and numbers of edits and failures):

- `LimitKept`: `Spec => []PromotedWithinLimit`. `LimitInv` adds `CountCovers`, that a
  fresh count, or one a promotion is based on, lists every page the process let in,
  and `OwnedHot`, that those pages are in Redis for the next SCAN to find.
- `CooldownKept`: `Spec => AlertsSpaced`. `EntriesKept` says that an alert not older
  than the cooldown still has its entry, and the entry is no older: a purge
  (`PurgeKeepsYoung`) takes only what has expired.

`EditWarProofs` (from `AnalysisAssumption` and `WarAssumption`, for any pages,
users, kinds of edits, thresholds, times to live and numbers of edits, failed calls
and restarts):

- `WarTyped`: `Spec => []TypeOK`. `TypeInv` adds what the types need of the pipeline:
  what the handler has in hand at each stage (`HandOK`), that an edit is counted
  at most once and the list of changes is cut to `KeepChanges` (`CountersOK`), and
  that no key lives longer than the code lets it (`TimesOK`).
- `CountersLast`: `Spec => []CountersOutliveMarker`, which is not inductive, since
  an edit sets the time of the counters from a marker it read some stages
  before. `OutliveInv` adds that the counters still have the time in hand until
  they are extended, and that it is the longer one whenever the page is marked and
  none of its calls failed. No time passes while the handler is at work (the
  model's tick), a page whose call failed leaves `clean`, and a war is clean again
  only when it is declared without a marker.

`ServicesProofs` (from the `ASSUME`s of each module; the first theorems are about
one module's own specification, the last two about `Services`):

- `LimitExceededByFewer`: `CountedInv` bounds the window plus the requests let in but
  not yet added by the limit and the requests that counted before them.
- `BreakerConsistent`: calls and counts are separate parts, `CallsOK` and `CountsOK`;
  each outcome, of whichever state the call began in, keeps the second.
- `DegradationEnds`: `CauseInv` adds to `NothingOutlastsItsCause` that an unhealthy
  component is in trouble and that the level is the one its components give. Trouble
  is wider than being unhealthy: the critical stage of memory pressure does not mark Redis.
- `AnswersFresh`: `AnswersOK` bounds the age of what is cached by the time of a request.
- `PlacesRecover`: `StagesKnow` says what each stage of a lookup knows of the sources
  asked when no call about its article has failed; `CachedSinceFailure` that a
  cached "nowhere" comes from an article without a place, or is no older than the
  last failure about it. An article is title and edition, for any of each.
- `MailsOnce` and `StoresCloseLast`: `DigestInv` says that users wait and are in hand
  only while their run is on and the stores are open (`RunsTidy`), and that while
  a mail may yet come there is room for one more (`MailsCovered`). `RunsCounted`
  adds that the `WaitGroup` counts the runs and, while it goes on, the loop. So a
  count of zero means that the loop has ended, and without it nothing starts a run.
- `ScoresBoundedByEdits`: `ScoreInv`. The undecayed value an aggregator is about to
  write is within the edits handled as well (`WritesWithinEdits`), so that an
  overlapping update loses increments and never adds one twice; a write that breaks
  off leaves the new score without a time, within the same bound. The decay is an
  integer division by a power of two, and `HalfOnceMore` shows that halving the
  divisor's result once more never gives more than half of the bound.
- `ServicesTyped` and `ServicesSafe`: `ServicesInv`, the conjunction of the invariants
  above with those that bound the map of places, the cache and the registrations
  (`MapInv`, `ApiInv`, `OneEach`), is kept by every step of `Services`. With
  it the safety properties of the services hold together in the very specification
  the run checks. That two registrations never give an address two accounts is the
  part of the types that follows from the column's constraint alone.

`SequenceFacts` holds the lemmas on the elements of sequences they share.

Every invariant, action property and refinement that a passing run checks is
stated by one of these theorems. Only model-checked are the liveness properties
(`EventuallyDecided`, `StopCompletes`, `ShutdownCompletes`, `ClientsLeave`,
`AlertsFollow`, `SubscribersLeave`, `HotPagesCool`, `WarsAreClosed`), which rest on
fairness and `ENABLED` and are beyond the prover, and the two violated
properties: findings, described in `PROJECT.json` with the comments they contradict.

## 10. Not modelled

- Authentication signs and checks tokens without state. Configuration, metrics and
  the models' plain data are read once or only written.
- What an answer, an alert's text, a prompt, a digest or an e-mail says; pagination,
  compression, entity tags, the health pages and the OpenAPI document. They parse
  and format.
- The dead-letter queue and `optimizations.go` are called by no command, the
  demo and preview commands are developer tools.
- Elasticsearch's index lifecycle and cleanup are single administrative requests.
- Of the indexing strategy, the watchlist's changes and the cache of page contexts:
  the status of a page is fixed for each edit, with every read failing or not.
- The live edit forwarder publishes each edit with one command that nothing
  repeats; the relay of `WebSocketHub` receives any of them.
- The restarts of the hubs after a panic.
- The dashboard's TypeScript: its socket is the environment of `WebSocketHub`.
- Of the detectors, the metadata of a hot page and the statistics of wars.
- Watchlists, administrators and logins of the user store change nothing a digest's
  delivery depends on.

`PROJECT.json` says for each component which part is left out.
