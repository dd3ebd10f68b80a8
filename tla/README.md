# TLA+ specifications of barito-flow

barito-flow moves log messages: a *producer* process takes them over gRPC and
stores them in Kafka, and *consumer* processes read them from Kafka and write
them to Elasticsearch or to Google Cloud Storage (GCS). This directory holds
TLA+ models of the parts in which concurrency and failure decide whether logs
are lost, refused or never read; TLC configurations that check them on small
instances; and TLAPS proofs that hold for every instance.

## 1. Inventory

### The parts, their state and their operations

| Part (under `src/`) | State | Operations | Talks to |
|---|---|---|---|
| Producer service, `flow/grpc_producer.go`, `flow/kafka_admin.go` | Kafka clients; `kafkaAdmin.topics`, the list of known topics (the refresh is locked, `Exist` and `AddTopic` are not) | `Start`, `Close`, `Produce`, `ProduceBatch`, `createTopicIfNotExist`, `sendLogs`, `sendCreateTopicEvents` | limiter (call), Kafka, consumers (announcements on the event topic) |
| Local rate limiter, `flow/rate_limiter.go`, `flow/leaky_bucket.go` | `bucketMap` (no lock); per bucket `max`, `token` and a mutex that only part of the code takes | `IsHitLimit`, `UpdateMax`, `Take`, `Refill`, `Start`, `Stop` | called by concurrent gRPC handlers; its own refill goroutine |
| Redis rate limiter, `flow/redis_rate_limiter.go` | one counter per topic in Redis; `isUsingLocal`; a local limiter to fall back on | `IsHitLimit`, connect hook, `Start`, `Stop` | Redis, local limiter |
| Gubernator rate limiter, `flow/gubernator_rate_limiter.go` | none of its own | `IsHitLimit` | the gubernator library |
| Consumer-group adapter, `flow/kafka_factory.go` | current session, message channel | `Setup`, `Cleanup`, `ConsumeClaim`, `MarkOffset`, `CommitOffsets`, `Close` | Kafka group coordinator, worker (channel) |
| Consumer worker, `flow/consumer_worker.go` | stop channel, callbacks | `Start`, `loopMain`, `OnConsumerFlush`, `Stop` | adapter, success callback |
| GCS output, `flow/consumer_output_gcs.go` | buffer file, `bytesCounter` (under `mu`), `isStop` (not under it) | `OnMessage`, `Start` (flush loop), `Stop`, `Flush`, `uploadToGCS` | worker (callback), bucket, adapter (flush hook) |
| consumer-gcs service, `flow/barito_kafka_consumer_gcs_service.go` | `workerMap`, `gcsOutputMap` | `Start` (looks for topics every minute), `spawnLogsWorker`, `Close` | Kafka admin, workers, outputs |
| Consumer service, `flow/barito_consumer_service.go` | `workerMap` (no lock), event worker, `isHalt` | `Start`, `spawnLogsWorker`, `onNewTopicEvent`, `onStoreTimber`, `HaltAllWorker`, `Close` | Kafka admin, event topic, Elasticsearch |
| Elasticsearch client, `flow/elastic.go`, `flow/elastic_retrier.go` | index cache, bulk processor, retrier | `Store`, `OnFailure`, `Retry` | Elasticsearch, consumer service (halt) |
| Redaction, `redact/` | rules per application, reloaded periodically | `NewRedactor`, `Redact` | rule server |
| Conversion, metrics, command line, mocks | none, or never read by the program | | |

### What is hard here, and what makes each part correct

* **GCS path.** Four goroutines per process (adapter, worker, flush loop, the
  goroutine of the termination signal), a process that may die at any point,
  several replicas that take a partition over from each other, a storage and a
  broker whose answers may be lost. Correct means: an offset is committed only
  when its message is in the bucket; commits do not go back; everything
  produced is stored in the end; a clean stop leaves next to nothing behind.
* **Local limiter.** A map without a lock, a test before the lock, a refill
  without it. Correct means: no token is spent twice; a bucket overruns its
  limit only by what is in flight.
* **Topic discovery.** Producers create and announce topics in separate steps
  each of which may fail; consumers learn of topics from a list and from
  announcements, in two goroutines that share a map, and either of them, a halt
  or a signal closes the service one worker at a time while the others go on.
  Correct means: only topics that exist are used and announced, and each by one
  call; no announcement a consumer gets is lost; every topic with messages is
  consumed; one worker per topic, or at most one more.
* **Redis limiter.** A counter that several processes share, counted up and
  given its expiry by two commands, each of which may fail, be repeated or not
  be sent, and cut to `int32` on the way back. Correct means: all processes
  together let through no more than the limit, but for what they let through
  while Redis refuses connections; a counter goes away again, so that a topic at
  its limit gets a new interval.
* **Elasticsearch path.** Commits that do not wait for storage: a message is
  marked when its documents are in the queue of the bulk processor, and marks
  are committed every second. Workers share the processor, the index cache and
  the halt that the retrier triggers. Correct means: documents are lost only in
  the ways the design accepts, and a bounded number of them; the workers that a
  halt stops leave what they had in hand to whoever reads it next; everything
  else is stored.
* **Topics of consumer-gcs.** A loop that looks for topics every minute and the
  goroutine of the termination signal share a map without a lock. Correct
  means: every topic gets an output in the end, and `Close` stops every output
  that was running when it was called. (One that the loop starts while `Close`
  is under way may be missed; what it has not uploaded is not committed, and is
  read again.)

`PROJECT.json` lists every such hazard at the line where it bites.

## 2. Modules

| Module | What it is |
|---|---|
| `LogSink` | Abstract specification: an at-least-once sink of one partition |
| `GCSConsumer` | The replicas of consumer-gcs for one partition: adapter, worker, GCS output, broker |
| `GCSBucket` | `GCSConsumer` with the objects in the bucket, their names and the clock |
| `GCSConsumerProofs` | Proofs about `GCSConsumer`, among them that it implements `LogSink` |
| `GCSService` | The topics of a consumer-gcs process: the minute loop of `Start`, `spawnLogsWorker`, `Close` |
| `GCSServiceProofs` | Proofs about `GCSService` |
| `ElasticConsumer` | The workers of a consumer process, the Elasticsearch client and its bulk processor |
| `ElasticConsumerProofs` | Proofs about `ElasticConsumer` |
| `RateLimiter` | The local limiter and its buckets, for the requests of one topic |
| `RateLimiterProofs` | Proofs about `RateLimiter` |
| `RedisRateLimiter` | The limiter that producer processes share through Redis, for one topic |
| `RedisRateLimiterProofs` | Proofs about `RedisRateLimiter` |
| `Kafka` | The broker as producers and consumers of topics see it (external) |
| `Producer` | Producer processes, their calls and their list of topics |
| `ConsumerService` | Consumer services: `Start`, the event worker, `workerMap`, `Close` for each of its callers |
| `TopicDiscovery` | `Producer` and `ConsumerService` composed over `Kafka` |
| `TopicDiscoveryProofs` | Proofs about `TopicDiscovery` |
| `MC...` | What TLC needs in addition: symmetry sets, sets of workers, contents of messages |

### GCSConsumer

*State.* `adapter[c]`, `worker[c]` and `gcs[c]` are the structs
`consumerGroupAdapter`, `consumerWorker` and `GCS` of replica `c`, with the
program counters of their goroutines; `up` are the replicas whose process runs.
`logEnd`, `committed` and `owner` are the broker's: end of the log, committed
offset of the group, member of the current generation. `uploaded` collects
every message that ever reached an object.

*Actions.* `Receive` takes a message from the channel and converts it;
`OnMessageCheck` is the unlocked test of `isStop`; `OnMessageFull`,
`OnMessageWrite` and `OnMessageWriteFails` are the three outcomes of the
critical section; `MarkOffset` is what `loopMain` does when the callback has
returned. `StartFull`, `StartTick` and `StartReturn` are rounds of the flush
loop. `FlushUpload` to `FlushCommit` are `Flush` for either caller. `Setup`,
`Cleanup` and `ConsumeClaim` are the callbacks of the group library. `Crash`,
`Rebalance` and `Produce` are the environment. A replica whose generation is
over does not know it until `Cleanup`: meanwhile it fetches, marks and uploads,
and only its commits are refused.

*Abstractions.* A message is its offset and counts as one byte, so the buffer
is full after `FlushMaxBytes` messages. A line that was written in part raises
`bytesCounter` without adding a message. A conversion either works or not
(`Bad`). An upload that reports an error may have stored the object.
`Flush` is two steps although it holds the lock throughout: while it waits for
the storage other goroutines can do only what they can do as well before it
takes the lock. Log lines and metrics are left out.

*GCSBucket* adds the names of objects. An object is named after the topic and
the current second; `fresh` is the content of the object with this second's
name and `sealed` of all earlier ones, so an upload replaces `fresh`. `last`
keeps what the code does to keep uploads apart: the loop sleeps for a second
after the flush of a full buffer, and the ticker does not fire twice in a second.
Nothing keeps the flush of `Stop`, or another replica, away from the loop's.
The module serves one run, `gcs_same_second`, which shows that this loses
acknowledged messages.

### GCSService

*State.* `loop` is the goroutine of `Start` with the topics of its round and the
topic in hand; `closer` is the goroutine of `Close`, which remembers in `held`
what was running when it was called; `admin` is the list of topics and the
client's metadata; `workerMap` the topics that have a worker, and
`gcsOutputMap[t]` the state of the output the map holds. `unmapped` would be the
topics whose running output was replaced in the map.

*Actions.* A round is `RefreshTopics` (also when the refresh fails and the old
list is used), then for each topic `SkipTopic` or the steps of
`spawnLogsWorker`: `MakeConsumerOutputGCS` maps the output,
`MakeClusterConsumer` maps the worker, `StartWorker` starts both;
`MakeClusterConsumerFails` leaves the output in the map and the topic to the
next round; `MakeOutputPanics` ends the process, like the concurrent write of
the map that the Go runtime may notice. `Close` sets `isStop`, and
`CloseOutput` goes through the map while the loop may still add to it: an
iteration reaches every output that was there when it began, and may or may not
reach one that came later. The workers are not stopped (the code says why in a
comment). What an output does between its start and its stop is `GCSConsumer`.

### ElasticConsumer

*State.* A worker `w` is named by its topic and by who spawns it: `Start` or
`onNewTopicEvent`. `adapter[w]` and `worker[w]` are its `consumerGroupAdapter`
and `consumerWorker`, the worker with its call of `onStoreTimber`: the
message, the document in hand, and the failed attempts of its request. `bulk`
is the bulk processor of the client library: the documents that wait, the
number of actions that wait (a document that is read again may wait twice), and
the request it is at. `service` is the process with `isHalt`, `workerMap`, and
for each caller of `Close` the topics it has still to come to. `index` says
whether the index exists and whether
the cache knows it. `setting` is the configuration (index method, source of the
redaction rules), chosen once. `lost`, `skipped` and `held` are history:
documents that were given up or were in the queue of a process that ended,
messages that a session started behind, and the workers that the halt found in
the map.

*Spawning and closing.* `spawnLogsWorker` starts one worker and puts it into
`workerMap`. Neither a halt nor a `Close` on another goroutine keeps `Start` or
`onNewTopicEvent` from spawning more. When both spawn a worker for a topic the
map keeps the later one and the earlier goes on as an orphan: two members of
one group, of which one has the partition. `Stop` reaches the worker that the
map holds for a topic when `Close` comes to it; a topic that is added while
`Close` ranges over the map is met or not. How the two spawners come to the
same topic is in `ConsumerService`; here they may do so in any order. Starting a
worker and putting it into the map are one step here, two statements in the
code: a replaced worker in between is as much out of reach as after it.

*Actions.* `Receive` is the beginning of `onStoreTimber`; `IndexCached`,
`IndexExists`, `CreateIndex` and `EnsureFails` are the loop in `Store` that
ensures the index; `ConvertFails`, `RedactPanics`, `bulkInsert`, `singleInsert`
and `singleInsertFails` are what comes after; `MarkOffset` is what `loopMain`
does when the callback has returned, with or without an error. The retrier is
in the steps `...Unanswered`: at the limit it calls `HaltAllWorker`, whose
`Close` stops worker after worker (`Stop`) while the goroutine of the request
waits (`Halted`, `BulkHalted`). `BulkFlush`, `BulkAnswered` and `BulkFails` are
the bulk processor: a request that fails stays in its queue, single documents
may be told to come again, and a refused document is only logged. `AutoCommit`
may come at any time; the end of a session commits its last marks or not.

*Abstractions.* One partition per topic, one index for all documents. A
document is fit, lacks fields, or is refused by Elasticsearch. The group may
have an offset from before (`known`); without one a session starts at the
newest message for topics that `Start` found, and at the oldest for announced
ones. Every answer of Elasticsearch and its absence are possible at every
request, and a request without an answer may have been performed.

*What the model shows besides its properties.* With `REDACTOR_RULES_MAP` set,
`setupRedactor` makes no redactor and does not read the rules; the nil pointer
it returns is not a nil interface, so the test against nil passes and the first
document ends the process (`RedactPanics`), again after every restart. With the
rules from the market the process does not start while the market cannot be
reached. A single insert that gets an error is not repeated, and the rest of
its message is dropped with it. A second worker whose request reaches the limit
while `HaltAllWorker` is still closing other groups finds `isHalt` set and goes
on: its message can be marked and committed without being stored (it is in
`lost`). The same holds for good of an orphan, and of a worker that is spawned
after a halt: it keeps consuming, and since `isHalt` stays set, every message
whose request reaches the limit is given up and committed.

### RateLimiter

*State.* A bucket is named after the handler that created it; `bucketMap` is
the topic's entry. `handler[h]` is a call of `IsHitLimit` with its arguments,
its bucket and the token it has read; `refill` is the refill goroutine.
`admitted` and `lowered` are history: what a bucket let through since its last
refill, and by how much its maximum was lowered.

*Actions.* One per read or write of shared state: `IsHitLimit` (lookup),
`PutNewBucket`, `CompareMax`, `UpdateMaxRead`/`UpdateMaxWrite`, the unlocked
test of `Take` (`TakeRefuse`, `TakeCheck`), `TakeRead`/`TakeWrite`,
`RefillRead`/`RefillWrite`. Go ends a process in which it notices concurrent
access to a map while one goroutine writes: `ConcurrentMapWrite`. The handlers are finitely many and
requests have a largest size (`LoadAssumption`), since a process has finitely many
goroutines and gRPC limits the size of a message. Values are far below 2^31, where the conversions to `int32` would matter. Raising a limit adds tokens and lowering
it takes none away, so requests that alternate between two limits pass more
messages than either allows, with one request at a time: that is the term
`lowered` of `NoTokenSpentTwice`.

### RedisRateLimiter

*State.* `key` is the topic's key in Redis: whether it exists, its counter, and
whether it has an expiry. `call[p]` is the call of `IsHitLimit` that holds the
mutex of process `p`; `setupRedisRateLimiter` sets that mutex, so there is one.
`isUsingLocal[p]` is the switch to the fallback. `granted` is history: what was
let through, by Redis or by a local limiter, since the last expiry; `fallback`
is the local limiters' part.

*Actions.* `IsHitLimit` is the beginning of a call, `incrBy` and `expireNx` are
the two commands, with `Answer` for what the call makes of the counter.
`incrByFails` and `expireNxFails` are `onErr` (Redis may have performed the
command; a refused connection sets `isUsingLocal`), `incrByRepeated` is a retry
by the client. `Expire` may come between the two commands of a call. The hook
`onConnect` may run at any time, and no property relies on its running.
`IsHitLimitLocal` is a call while `isUsingLocal`: the local limiter may let any
request through here (what it decides is in `RateLimiter`).

*Integers.* `incrBy` cuts the counter to `int32`, and so does the model:
`Int32` wraps at `MaxInt`, which is 2^31 - 1 in the code and small in the runs,
so that they go beyond it. A counter that passes it is read as a negative number
and every request is let through, until it wraps again. `LimitAssumption` says
that the limits themselves, `maxTokenIfNotExist` times the seconds of the
interval, fit.

### Kafka, Producer, ConsumerService, TopicDiscovery

*State.* `producer[p]` has the metadata of the Kafka client and
`kafkaAdmin.topics`; `call[p][h]` is a gRPC call. `service[s]` is the goroutine
of `Start` with the topics it has still to spawn; `workerMap[s]` maps topics to
workers, `orphan[s]` counts running workers that are no longer in the map;
`closer[s][k]` is the call of `Close` by caller `k` (the loop of `Start`,
`onNewTopicEvent`, a halt, the signal) with the topics it has still to come to;
`eventWorker[s]` is the worker of the event topic with its session, its channel
and the topic `onNewTopicEvent` has in hand.

*Actions.* `Exist` is three steps (search, refresh, search again), `AddTopic`
two (read, write), every call to Kafka one, each with its failure. A call that
fails may have been performed, and an announcement may be sent twice by the
client's retries. `Start` lists the topics after it has started the event
worker; `EventJoin` starts the session at the newest announcement. A spawn that
fails calls `Close` and its goroutine waits for it, while all other goroutines
go on. `Close` takes its steps one by one: `CloseWorker` for each mapped topic,
`CloseAdmin`, and `CloseEventWorker` last, so that in between a live event
session spawns workers into a service that is half closed. `Exit` ends the
process when the `Close` of a signal has returned. `EventLose` ends a session
with all, some or none of its marks committed.

*Abstractions.* All topics have the consumer's prefix and suffix (the code tests
both in `Start` and only the prefix in `onNewTopicEvent`). The list of
topics is a set: its order and duplicates change no decision, and the bytes of
a slice header that is read while it is written are not modelled. What a worker
does with the messages of its topic is in `ElasticConsumer`. The loop of `Start`
does not look into `workerMap`, so a topic that is both listed and announced may
get two workers; the map keeps one, and `Close` never stops the other (`orphan`).

## 3. Runs

Passing runs:

* `gcs_threads`: one replica that crashes, is signalled and restarts, log of 3,
  buffer of 2, channel of 1, message 1 unconvertible. The smallest sizes at which
  the buffer fills while messages wait, a flush overlaps the next messages, and a
  message arrives after `Stop`. `TypeOK`, `CommittedUploaded`,
  `StopLeavesAtMostOne`, and under fairness `EveryMessageUploaded`.
* `gcs_takeover`: two symmetric replicas, log of 2 whose second message is
  unconvertible, buffer and channel of 1. Both can hold the same messages, be
  fenced with a full buffer, come back with a stale channel, and mark a message
  that never enters the buffer. (With two convertible messages the run takes
  three times as long and passes too; the theorems of section 5 cover both.) `DeliveryInv` (the inductive invariant),
  `CommitsNeverRegress`, `ImplementsSink`.
* `limiter_concurrent`: two handlers, requests of 1 or 2 messages, limits of 1
  or 2, three requests between two refills, a refill. Two handlers are enough
  for every race there is between two steps of `Take`, `UpdateMax` and the
  creation of the bucket. `NoTokenSpentTwice`, `OverrunBounded`. The bounds on
  requests and refills end every behaviour, hence no deadlock check.
* `redis_window`: two processes, requests of 0 to 2 messages, limits of 2 or 3,
  two faults (failed or repeated commands, crashes). Requests up to the limit
  fill the counter, go beyond it, and meet each other and the expiry between
  their two commands; with `MaxInt = 7` the counter also leaves its range.
  `GrantedWithinLimit`, `ExpiryInHand`, and under fairness
  `KeyExpires`.
  Here every single request fits its limit; `redis_no_expiry` is about those
  that do not. The bound on the counter can end a behaviour, hence no deadlock
  check.
* `discovery`: a producer with two concurrent calls of one message, a service,
  one topic, one failure of the service, every caller of `Close`, crashes and
  restarts of both. `SendsToExistingTopics`, `AnnouncedTopicsExist`,
  `AnnouncedOnce`, `FetchedAnnouncementsServed`, `OneOrphan`, and under fairness
  `AnnouncementsServed`. One topic keeps the liveness check small; the five
  invariants are proved for any number of topics and sizes of batches
  (section 5). `discovery_missed` has batches of two.
* `elastic`: one topic with two workers, that of `Start` and that of an
  announcement, spawned in either order and before, during or after a halt or
  another `Close`; one message of two documents, every request of one document, a
  limit of one attempt, all index methods, both sources of rules, one lost
  session, failed spawn, crash or shutdown. Two workers are needed for the
  shared bulk processor, the race for the index, the orphan, and requests that
  reach the limit while the other halts the service; one message is enough,
  because it can be in the log, the channel, the worker, the queue and the
  committed part, and two documents are, because the second is handed over while
  the first waits. `TypeOK`, `CommittedAccounted`, `LossBounded`,
  `HaltKeepsOffsets`. The bounded log and a halted service end every behaviour,
  hence no deadlock check.
* `elastic_liveness`: the worker of `Start`, two batches of two documents, one
  that cannot be converted before one that could, and one that is refused after
  one that is stored; requests of two documents, so that the flush interval is
  needed; a limit of two attempts, so that a request is also repeated below it;
  two of the index methods; one trouble. `CommittedAccounted`, `QueueDrains`,
  `EveryMessageHandled`. A second worker of the topic makes the graph too large
  for a liveness check.
* `gcs_topics`: three topics, two of which match the pattern, failed refreshes
  and spawns, crashes and termination signals at any time. Two matching topics
  let `Close` be between them while the loop is at either. `ServiceInv` (the
  inductive invariant), `CloseStopsOutputs`, `EveryTopicHandled`.

Runs in which TLC finds that the code does not do what the repository says;
`PROJECT.json` quotes the lines:

* `gcs_no_compressor` (`CommittedUploaded`): with `GCS_COMPRESSOR` empty, its
  default, the data goes through a gzip writer that is never closed, so the end
  of every object is missing while its offsets are committed. A test upload
  expects the whole payload.
* `redis_no_expiry` (`KeyExpires`): the first request of an interval is larger
  than its limit. It creates the counter and is refused before it sets the
  expiry. No later request sets it either, because the counter is never again
  equal to the count of a request: the topic is refused until someone removes
  the key, or until the counter passes 2^31 and everything is let through.
* `gcs_same_second` (`CommittedRetained`): the loop flushes and commits, and in
  the same second `Stop` flushes what came since. Both objects have the same
  name, so the acknowledged messages of the first are gone.
* `discovery_missed` (`EveryTopicConsumed`): the announcement of a topic is
  attempted once, after the topic has been created and listed, and reaches only
  sessions that have started. If it fails, or comes too early, a running
  consumer never reads the topic, although later calls store messages there.

Every property of a passing run has a mutant in `PROJECT.json`: a plausible
mistake in one definition under which TLC finds the property violated.

## 4. Fairness

*GCSConsumer.* The Go scheduler runs every goroutine that can run, so steps of
goroutines are weakly fair, and so are the restart of a process, the library's
callbacks and the coordinator's removal of a dead member. Three steps are
strongly fair, because what enables them comes and goes: taking the mutex in
`OnMessage` and succeeding to write, taking it in `Flush` and succeeding to
upload, and joining the group. The mutex is starvation-free in Go; that a retry
which is repeated for ever succeeds at some point is the assumption without
which no delivery is possible. Crashes, signals and rebalances may happen
any number of times but not for ever (`<>[][~Disruption]_vars`).

*TopicDiscovery.* Weak fairness of the goroutines of running processes and of
the start of a service. No failure, crash or restart of a producer is fair, and
none is excluded: `AnnouncementsServed` allows for them in its conclusion.

*RedisRateLimiter.* Weak fairness of commands, which are answered or run into
their timeout (`defaultTimeout`), and of the removal of expired keys by Redis.
No request ever has to come. `KeyExpires` speaks of behaviours without faults:
a process that ends between the two commands leaves a key without expiry, and
so does a command that fails there.

*GCSService.* Weak fairness of the loop and of the client's refresh of its
metadata. Strong fairness of a refresh of the topics and of making a consumer
group: both are tried again every minute, and one that is tried for ever
succeeds at some time. `Close`, crashes and restarts are not fair;
`EveryTopicHandled` speaks of processes that stay up.

*ElasticConsumer.* Weak fairness of the goroutines, of the restart of a process,
and of the library's callbacks. Strong fairness of answers by Elasticsearch, to
a bulk request and to each request of `Store`: a request that is repeated for
ever is answered at some time. Without it nothing is ever stored. An index that
someone else creates between the question and the creation makes the creation
fail, and that failure is fair. Nothing is assumed of crashes and lost sessions
except the bound `MaxTroubles`. `Start` spawns its workers, and every call of
`Close` goes on; an announcement never has to come. `EveryMessageHandled` speaks
of topics that keep a worker nobody has stopped, since nothing calls
`ResumeWorker`.

`RateLimiter` makes no fairness assumption.

## 5. Proofs

Checked by TLAPS, for every value of the constants that satisfies the named
`ASSUME`s (sizes are natural numbers, the channel holds at least one message,
"none" is not a member):

* `GCSConsumerProofs`: `TypeCorrect`, and, when the compressor is closed
  (`ClosesCompressor`, which `gcs_no_compressor` shows to be needed):
  `DeliveryInvariant`, `AtLeastOnce` (`CommittedUploaded`), `MonotonicCommits`
  (`CommitsNeverRegress`) and `Refinement` (`ImplementsSink`).

  `CommittedUploaded` alone is not inductive: a commit takes its offset from
  the session, whose marks come from the worker, whose messages come from the
  channel, which the claim fills. `DeliveryInv` follows a message along that
  way. Everything below what a replica holds at one place is stored,
  unconvertible, or at a place further on (`SessionInv`, `ChannelInv`,
  `WorkerInv`); what is marked has reached the buffer or the bucket; and while
  `Flush` holds the lock the whole buffer is in the bucket (`FlushInv`,
  `MutexInv`), so that the commit inside `Flush` covers nothing else, even if
  the worker marks a message meanwhile. A stale channel is harmless because it
  is contiguous with what the replica has handled, and a stale mark because a
  session keeps its largest one. `Frame`, `Grow` and `OneReplica` reduce a step
  to the replica that takes it.

  `AtMostOneLeft` (`StopLeavesAtMostOne`) holds for every compressor. The
  property speaks only of the moment after `Stop`; `StopInv` adds that
  `bytesCounter` counts at least the lines of the buffer, so that a `Flush`
  which finds it zero leaves nothing, that the flag is up as soon as `Stop` has
  begun, and that the one message that came in was the one whose `OnMessage`
  was already waiting for the lock.

* `GCSServiceProofs`: `ServiceInvariant` (`ServiceInv`) and `CloseStopsAll`
  (`CloseStopsOutputs`), for any set of topics. `CloseStopsOutputs` speaks only
  of the moment `Close` returns. The invariant adds why it gets there: an output
  runs only when its worker is in `workerMap`, the loop spawns only topics that
  are not, so what `Close` found running stays in the map until `Close` has
  stopped it. The order of the two writes in `spawnLogsWorker` does not matter
  for this, but that the worker is mapped before the output starts does.

* `RateLimiterProofs`: `LimiterInvariant`, `TokensSpentOnce`
  (`NoTokenSpentTwice`) and `OverrunIsBounded` (`OverrunBounded`). The first
  invariant says who holds which lock, that a bucket
  which is about to be put is not in use, and that a token read inside a
  critical section still adds up when it is written, whether or not a refill
  came between: such a refill is lost, not doubled. For the overrun, the
  invariant counts the handlers that have passed the unlocked test and have
  not yet taken their tokens: what was let through exceeds the maximum by at
  most the largest request for each handler that is *not* among them. A handler
  that passes the test does so while tokens are left, which makes room for all
  handlers; one that takes tokens uses up its own share. A refill while
  handlers are on their way only makes room.

* `RedisRateLimiterProofs`: `SharedLimit` (`GrantedWithinLimit`), for any
  number of processes and faults and any limits that fit in an `int32`.
  `GrantedWithinLimit` is not inductive: nothing in it bounds what the next
  request finds. `CounterInv` adds that the counter and the fallback together
  count at least what was let through, which a lost or repeated `INCRBY` cannot
  break (it only counts more) and an expiry resets on all sides. The property
  ends where the counter exceeds `MaxInt`; up to there `Int32` is proved to
  change nothing. And `SomeCallSetsExpiry` (`ExpiryInHand`), the part of
  `KeyExpires` that needs no fairness, under `RequestsFit`: no request alone
  exceeds its limit (`redis_no_expiry` shows what happens otherwise).
  `ExpiryInv` adds that a key that does not exist counts nothing, so that the
  call which creates it finds its own count and is not refused before it sets
  the expiry.

* `TopicDiscoveryProofs`: `DiscoveryInvariant`, `ExistingTopics`
  (`SendsToExistingTopics`), `AnnouncementsSound` (`AnnouncedTopicsExist`),
  `NoFetchedAnnouncementLost` (`FetchedAnnouncementsServed`), `AtMostOneOrphan`
  (`OneOrphan`) and `OneAnnouncement` (`AnnouncedOnce`). The invariant traces
  what calls know of topics back to the broker, ties the topic in hand to the
  head of the channel, and says that a service has a stopped worker only when a
  `Close` is under way or the event session is over: `Close` stops the event
  worker last, and no caller of it fails to get there. For the orphans it says
  that a worker is lost when one of `Start` and `onNewTopicEvent` spawns a topic
  that the other has mapped, and that only one of them can still do so. For the
  announcements `AnnounceInv` says that the call which has created a topic and
  not yet announced it is the only one.

* `ElasticConsumerProofs`, for any topics and workers, any messages (which
  documents they hold and in what state, which cannot be parsed), any sizes,
  index methods and number of troubles:

  - `TypeCorrect` (`TypeOK`), together with `QueueInv`: the documents that wait
    are finitely many and no more than the actions that wait.
  - `LossIsBounded` (`LossBounded`). `QueueInv` also says that a request is under
    way as soon as `BulkSize` actions wait, and that none is added to it: `Add`
    waits meanwhile. A failed request is the only way out of this bound.
  - `HaltKeepsEveryOffset` (`HaltKeepsOffsets`). `HaltInv` says that a worker
    which the halt found in the map and has passed has a closed session, and
    that sessions stay closed; `DownInv` that a process which starts has
    neither a flag nor a session of the one before. A worker that a spawn
    replaces before `Close` comes to its topic leaves `held`.
  - `DeliveryInvariant` and `CommittedIsAccounted` (`CommittedAccounted`). The
    property itself is `CommittedInv` and says nothing of what the next commit
    takes. `SessionInv` adds that a session has marked only what is accounted
    for and has passed only what is accounted for, in hand or in the channel;
    `ChannelInv` that whatever precedes a message of the channel in the log
    precedes it in the channel, is in hand or is accounted for, which holds
    across sessions although the channel keeps messages of old ones; and
    `WorkerInv` that the documents before the one in hand are done, and all of
    them when the message is about to be marked. `Keeps` is the other half: no
    step forgets a document, and the end of a process moves what waits to
    `lost`.

Only model-checked: the liveness properties (`EveryMessageUploaded`,
`AnnouncementsServed`, `KeyExpires`, `QueueDrains`, `EveryMessageHandled`,
`EveryTopicHandled`), which need fairness and `ENABLED` and are outside what
TLAPS handles here. Every invariant and every action property of a passing run
is stated by a theorem.

## 6. Not modelled

* Redaction rules and their reload. `UpdateRulesMap` replaces the whole map
  under the lock that `Redact` takes, so a reader sees one map or the other; the
  rules are regular expressions over JSON text. Where the redactor comes from,
  and what happens without one, is in `ElasticConsumer`.
* The gubernator limiter: no state of its own.
* The text that conversions make, by the protobuf and JSON libraries; their
  outcomes are in the models.
* Several indices: `Store` names the index after the application and the day.
  Each has its own entry in the cache, and they share nothing else.
* Metrics: nothing reads them. Command line and configuration: read once, and
  the settings that matter are constants of the modules.
* `ResumeWorker`, `Halt`, `PutBucket`, `Bucket`: no callers outside tests.
* `GCS_FLUSH_MAX_BYTES=0` makes `OnMessage` refuse everything; the proofs of
  safety include it, and no liveness is claimed for it.

## 7. Plan

Done, in the order of importance: the GCS path with its abstract specification
and proofs; the local limiter and its proofs; topic discovery and its proofs;
the redis limiter and its proofs; the way to Elasticsearch and its proofs; the
topics of consumer-gcs and its proofs; the bucket. `Close` of the consumer
service in its single steps, and the workers it cannot reach, in both modules
that have it.

Next:

1. The safety part of the other liveness properties, as `ExpiryInHand` is of
   `KeyExpires`: that a worker waits in `Add` only while a bulk request is under
   way or halting (`QueueDrains`), and that no goroutine of `GCSConsumer` waits
   for a lock that nobody will release (`EveryMessageUploaded`).
2. `ElasticConsumer` as an implementation of a sink that may lose documents in
   the known ways, beside `LogSink`.
