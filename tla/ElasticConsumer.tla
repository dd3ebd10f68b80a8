-------------------------- MODULE ElasticConsumer --------------------------
(***************************************************************************)
(* The way of a log message to Elasticsearch in the consumer mode          *)
(* (flow/barito_consumer_service.go, flow/elastic.go,                      *)
(* flow/elastic_retrier.go, redact/redactor.go): the workers of a process  *)
(* convert and redact the documents of a message and hand them to a bulk   *)
(* processor, which sends them in requests of its own.  A message is       *)
(* marked when its documents have been handed over, and the marks are      *)
(* committed every second.                                                 *)
(*                                                                         *)
(* The workers are spawned one by one, by Start and by onNewTopicEvent.    *)
(* Each of the two spawns at most one for a topic; when both do, workerMap *)
(* keeps the later one, and the other goes on as an orphan (how the two    *)
(* come to that is in ConsumerService).  Close reaches what is in the map. *)
(*                                                                         *)
(* External: Kafka (one partition per topic), Elasticsearch, the bulk      *)
(* processor of the client library and the market that serves the rules.   *)
(***************************************************************************)
EXTENDS Naturals, Sequences, FiniteSets

CONSTANTS
    Topic,              \* the topics
    Worker,             \* the workers that may be spawned, see below
    MaxLog,             \* bound: messages produced to a topic
    Content,            \* the documents of each message, see below
    Unparsable,         \* offsets whose message is not a protobuf
    ChannelCap,         \* capacity of the adapter's channel of messages
    BulkSize,           \* BARITO_ELASTICSEARCH_BULK_SIZE
    MaxRetry,           \* elasticRetrierMaxRetry; 0: retry for ever
    IndexMethods,       \* values of BARITO_ELASTICSEARCH_INDEX_METHOD
    Redactions,         \* where the redaction rules come from
    MaxTroubles         \* bound: sessions lost, crashes and shutdowns

Offset == 0 .. MaxLog - 1

(* A document is fit to be stored, lacks what the conversion needs, or is  *)
(* refused by Elasticsearch.                                               *)
Quality == {"ok", "noFields", "refused"}

(* A worker is named by its topic and by who spawns it. *)
Spawner == {"start", "event"}

TopicOf(w) == w[1]

SpawnerOf(w) == w[2]

(* Who calls Close: Start and onNewTopicEvent, when a spawn fails,         *)
(* HaltAllWorker, and the signal.                                          *)
Closer == {"start", "event", "halt", "signal"}

ASSUME WorkerAssumption == Worker \subseteq Topic \X Spawner

ASSUME ContentAssumption ==
    /\ MaxLog \in Nat \ {0}
    /\ Content \in [Offset -> Seq(Quality)]
    /\ Unparsable \subseteq Offset

ASSUME SizeAssumption ==
    /\ ChannelCap \in Nat \ {0}
    /\ BulkSize \in Nat \ {0}
    /\ MaxRetry \in Nat
    /\ MaxTroubles \in Nat

ASSUME SettingAssumption ==
    /\ IndexMethods \subseteq {"BulkProcessor", "DataStream", "SingleInsert"}
    /\ Redactions \subseteq {"market", "static"}

VARIABLES
    logEnd,             \* Kafka: end of each topic's log
    committed,          \* Kafka: committed offset of the group
    known,              \* Kafka: topics for which the group has an offset
    service,            \* the process, its halt flag and its workerMap
    adapter,            \* consumerGroupAdapter of each worker
    worker,             \* consumerWorker, with the call of onStoreTimber
    bulk,               \* the bulk processor
    index,              \* whether the index exists, and is in the cache
    setting,            \* index method and source of the rules
    stored,             \* documents that reached Elasticsearch
    lost,               \* history: documents that Store gave up on, or that
                        \* were committed and still in the bulk processor
                        \* when the process ended
    skipped,            \* history: messages a session started behind
    troubles            \* number of troubles so far, for the bound

kafka == <<logEnd, committed, known>>
elastic == <<index, setting, stored>>
history == <<lost, skipped, troubles>>
vars == <<kafka, service, adapter, worker, bulk, elastic, history>>

-----------------------------------------------------------------------------

Document(t, o, i) == <<t, o, i>>

ServiceState ==
    [pc        : {"down", "up", "closed"},
     isHalt    : BOOLEAN,
     workerMap : SUBSET Worker,             \* at most one of each topic
     closing   : [Closer -> SUBSET Topic],  \* topics a Close will come to
     held      : SUBSET Worker]             \* history, see HaltAllWorker

AdapterState ==
    [session  : {"none", "live", "closed"},
     pos      : 0 .. MaxLog,                \* next offset to fetch
     messages : Seq(Offset),
     marked   : 0 .. MaxLog]

WorkerState ==
    [pc    : {"none",                       \* not spawned yet
              "select", "ensure", "create", "insert", "mark", "returned",
              "haltEnsure", "haltInsert"},  \* waits for HaltAllWorker
     stop  : BOOLEAN,                       \* the stop signal waits
     msg   : Offset,
     item  : Nat,                           \* the document in hand
     retry : Nat]                           \* failed attempts of its request

BulkState ==
    [pc      : {"select", "commit", "halt"},
     queue   : SUBSET (Topic \X Offset \X Nat),
     actions : Nat,                         \* a document may be there twice
     retry   : Nat,
     failed  : BOOLEAN]                     \* the last request failed

newConsumerGroupAdapter ==
    [session |-> "none", pos |-> 0, messages |-> <<>>, marked |-> 0]

Down ==
    [pc |-> "down", isHalt |-> FALSE, workerMap |-> {},
     closing |-> [k \in Closer |-> {}], held |-> {}]

NotSpawned ==
    [pc |-> "none", stop |-> FALSE, msg |-> 0, item |-> 1, retry |-> 0]

NewConsumerWorker == [NotSpawned EXCEPT !.pc = "select"]

NewBulkProcessor ==
    [pc |-> "select", queue |-> {}, actions |-> 0, retry |-> 0,
     failed |-> FALSE]

(* The group may have an offset for a topic from before. *)
Init ==
    /\ logEnd = [t \in Topic |-> 0]
    /\ committed = [t \in Topic |-> 0]
    /\ known \in SUBSET Topic
    /\ service = Down
    /\ adapter = [w \in Worker |-> newConsumerGroupAdapter]
    /\ worker = [w \in Worker |-> NotSpawned]
    /\ bulk = NewBulkProcessor
    /\ index \in [exists : BOOLEAN, cached : {FALSE}]
    /\ setting \in [indexMethod : IndexMethods, redaction : Redactions]
    /\ stored = {}
    /\ lost = {}
    /\ skipped = {}
    /\ troubles = 0

-----------------------------------------------------------------------------
(* Kafka and the group library. *)

Trouble ==
    /\ troubles < MaxTroubles
    /\ troubles' = troubles + 1

Produce(t) ==
    /\ logEnd[t] < MaxLog
    /\ logEnd' = [logEnd EXCEPT ![t] = @ + 1]
    /\ UNCHANGED <<committed, known, service, adapter, worker, bulk, elastic,
                   history>>

(* Where a session starts: at the committed offset, or, when the group has *)
(* none, at initialOffset: the oldest message for a topic that was         *)
(* announced, the newest for one that Start found.                         *)
FirstOffset(w) ==
    IF TopicOf(w) \in known THEN committed[TopicOf(w)]
    ELSE IF SpawnerOf(w) = "start" THEN logEnd[TopicOf(w)] ELSE 0

(* The partition is given to one member of the group.  Two workers of a    *)
(* topic are two members.                                                  *)
Setup(w) ==
    LET t == TopicOf(w) IN
    /\ worker[w].pc # "none"
    /\ adapter[w].session = "none"
    /\ \A v \in Worker : TopicOf(v) = t => adapter[v].session # "live"
    /\ adapter' = [adapter EXCEPT ![w].session = "live",
                                  ![w].pos = FirstOffset(w),
                                  ![w].marked = committed[t]]
    /\ skipped' = skipped \cup
                    {<<t, o>> : o \in committed[t] .. FirstOffset(w) - 1}
    /\ UNCHANGED <<kafka, service, worker, bulk, elastic, lost, troubles>>

(* The marks of a session are committed. *)
Commit(w) ==
    LET t == TopicOf(w) IN
    /\ committed' = [committed EXCEPT ![t] = adapter[w].marked]
    /\ known' = IF adapter[w].marked > committed[t] THEN known \cup {t}
                ELSE known

AutoCommit(w) ==
    /\ adapter[w].session = "live"
    /\ adapter[w].marked > committed[TopicOf(w)]
    /\ Commit(w)
    /\ UNCHANGED <<logEnd, service, adapter, worker, bulk, elastic, history>>

(* Mutant of Cleanup: consume does not join the group again. *)
CleanupForGood(w) ==
    /\ adapter[w].session = "live"
    /\ Trouble
    /\ Commit(w) \/ UNCHANGED <<committed, known>>
    /\ adapter' = [adapter EXCEPT ![w].session = "closed"]
    /\ UNCHANGED <<logEnd, service, worker, bulk, elastic, lost, skipped>>

(* The session is lost; its last marks are committed or not. *)
Cleanup(w) ==
    /\ adapter[w].session = "live"
    /\ Trouble
    /\ Commit(w) \/ UNCHANGED <<committed, known>>
    /\ adapter' = [adapter EXCEPT ![w].session = "none"]
    /\ UNCHANGED <<logEnd, service, worker, bulk, elastic, lost, skipped>>

ConsumeClaim(w) ==
    /\ adapter[w].session = "live"
    /\ adapter[w].pos < logEnd[TopicOf(w)]
    /\ Len(adapter[w].messages) < ChannelCap
    /\ adapter' = [adapter EXCEPT ![w].messages = Append(@, adapter[w].pos),
                                  ![w].pos = @ + 1]
    /\ UNCHANGED <<kafka, service, worker, bulk, elastic, history>>

-----------------------------------------------------------------------------
(* The life of a process. *)

(* setupRedactor reads the rules from the market and panics when it cannot *)
(* (nothing has started then).  With rules in REDACTOR_RULES_MAP it does   *)
(* not read those, and there is no redactor.                               *)
NewBaritoConsumerService ==
    /\ service.pc = "down"
    /\ service' = [service EXCEPT !.pc = "up"]
    /\ UNCHANGED <<kafka, adapter, worker, bulk, elastic, history>>

(* Close is called; it will come to the topics in workerMap. *)
Close(k) ==
    [service.closing EXCEPT ![k] = {TopicOf(w) : w \in service.workerMap}]

(* Start spawns until it returns, which it does before a signal is awaited;*)
(* onNewTopicEvent whenever an announcement is handled.  A halt or a Close *)
(* on another goroutine stops neither.                                     *)
MaySpawn(w) ==
    /\ worker[w].pc = "none"
    /\ \/ service.pc = "up"
       \/ service.pc = "closed" /\ SpawnerOf(w) = "event"
    /\ service.closing[SpawnerOf(w)] = {}

(* Some calls of Close will come to a topic that is new in workerMap. *)
Met(K, t) ==
    [k \in Closer |-> service.closing[k] \cup (IF k \in K THEN {t} ELSE {})]

(* A worker is started and put into workerMap, in the place of another one *)
(* perhaps.  A topic that is new in the map may be met by a Close that is  *)
(* ranging over the map, or not.                                           *)
spawnLogsWorker(w) ==
    LET t == TopicOf(w)
        replaced == {v \in service.workerMap : TopicOf(v) = t}
        ranging == {k \in Closer : service.closing[k] # {}} IN
    /\ MaySpawn(w)
    /\ \E K \in IF replaced = {} THEN SUBSET ranging ELSE {{}} :
          service' = [service EXCEPT
             !.workerMap = (@ \ replaced) \cup {w},
             !.closing = Met(K, t),
             !.held = IF t \in service.closing["halt"] THEN @ \ replaced ELSE @]
    /\ worker' = [worker EXCEPT ![w] = NewConsumerWorker]
    /\ UNCHANGED <<kafka, adapter, bulk, elastic, history>>

(* The consumer cannot be made: the caller closes the service and goes on. *)
(* Start does not come back to the topic; another announcement may.        *)
spawnLogsWorkerFails(w) ==
    /\ MaySpawn(w)
    /\ Trouble
    /\ service' = [service EXCEPT !.closing = Close(SpawnerOf(w))]
    /\ IF SpawnerOf(w) = "start"
       THEN /\ adapter' = [adapter EXCEPT ![w].session = "closed"]
            /\ worker' = [worker EXCEPT ![w].pc = "returned"]
       ELSE UNCHANGED <<adapter, worker>>
    /\ UNCHANGED <<kafka, bulk, elastic, lost, skipped>>

(* The process ends, and with it what the bulk processor holds.  What is   *)
(* committed will not be read again.                                       *)
Vanish ==
    /\ service' = Down
    /\ adapter' = [w \in Worker |-> newConsumerGroupAdapter]
    /\ worker' = [w \in Worker |-> NotSpawned]
    /\ bulk' = NewBulkProcessor
    /\ index' = [index EXCEPT !.cached = FALSE]
    /\ lost' = lost \cup {d \in bulk.queue \ stored :
                            d[2] < committed[d[1]]}
    /\ UNCHANGED <<kafka, setting, stored, skipped>>

Crash ==
    /\ service.pc # "down"
    /\ Trouble
    /\ Vanish

(* The termination signal; the process ends when Close has returned. *)
GracefullShutdown ==
    /\ service.pc = "up"
    /\ service.closing["start"] = {}
    /\ Trouble
    /\ service' = [service EXCEPT !.pc = "closed", !.closing = Close("signal")]
    /\ UNCHANGED <<kafka, adapter, worker, bulk, elastic, lost, skipped>>

(* A Close has stopped the worker of a topic. *)
Visited(k, t) == [service.closing EXCEPT ![k] = @ \ {t}]

(* Mutant of Stop: Halt, which leaves the group alone. *)
Halt(k, w) ==
    /\ w \in service.workerMap
    /\ TopicOf(w) \in service.closing[k]
    /\ service' = [service EXCEPT !.closing = Visited(k, TopicOf(w))]
    /\ worker' = [worker EXCEPT ![w].stop = TRUE]
    /\ UNCHANGED <<kafka, adapter, bulk, elastic, history>>

(* Close stops the workers one after the other, of each topic the one that *)
(* is mapped when Close comes to it: the group is closed, which commits    *)
(* the last marks if it can, and loopMain gets a signal that it takes when *)
(* it is back in its select.  The bulk processor is left alone.            *)
Stop(k, w) ==
    /\ w \in service.workerMap
    /\ TopicOf(w) \in service.closing[k]
    /\ service' = [service EXCEPT !.closing = Visited(k, TopicOf(w))]
    /\ \/ adapter[w].session = "live" /\ Commit(w)
       \/ UNCHANGED <<committed, known>>
    /\ adapter' = [adapter EXCEPT ![w].session = "closed"]
    /\ worker' = [worker EXCEPT ![w].stop = TRUE]
    /\ UNCHANGED <<logEnd, bulk, elastic, history>>

Exit ==
    /\ service.pc = "closed"
    /\ service.closing["signal"] = {}
    /\ Vanish
    /\ UNCHANGED troubles

-----------------------------------------------------------------------------
(* The retrier, which the client asks after every attempt without answer.  *)

(* The attempts are counted only where the count matters. *)
Attempts(n) == IF MaxRetry = 0 THEN 0 ELSE n

MaxRetryReached(n) == MaxRetry > 0 /\ n >= MaxRetry

(* The first request that reaches the limit closes the service, and its    *)
(* goroutine waits for that; later ones go on at once.  held is what Close *)
(* has to stop: the workers that are mapped now, but for those that a      *)
(* spawn replaces before Close comes to them.                              *)
HaltAllWorker ==
    service' = IF service.isHalt THEN service
               ELSE [service EXCEPT !.isHalt = TRUE,
                                    !.held = service.workerMap,
                                    !.closing = Close("halt")]

AfterHalt(waiting, done) == IF service.isHalt THEN done ELSE waiting

-----------------------------------------------------------------------------
(* A worker: loopMain, onStoreTimber and Store. *)

(* The state of a worker whose callback is done with the message. *)
Handled(w) == [worker[w] EXCEPT !.pc = "mark", !.retry = 0]

(* The state of a worker after Store returned without error. *)
NextItem(w) ==
    IF worker[w].item < Len(Content[worker[w].msg])
    THEN [worker[w] EXCEPT !.pc = "ensure", !.item = @ + 1, !.retry = 0]
    ELSE Handled(w)

(* The documents found in a message; none in one that is not a protobuf,   *)
(* which is only logged.                                                   *)
ItemsOf(m) == IF m \in Unparsable THEN <<>> ELSE Content[m]

(* Mutant of Receive: the message is marked before it is stored. *)
ReceiveMarksFirst(w) ==
    LET m == Head(adapter[w].messages) IN
    /\ worker[w].pc = "select"
    /\ adapter[w].messages # <<>>
    /\ adapter' = [adapter EXCEPT
                     ![w].messages = Tail(@),
                     ![w].marked = IF adapter[w].session = "live" /\ m + 1 > @
                                   THEN m + 1 ELSE @]
    /\ worker' = [worker EXCEPT
                    ![w].pc = IF ItemsOf(m) = <<>> THEN "mark" ELSE "ensure",
                    ![w].msg = m, ![w].item = 1]
    /\ UNCHANGED <<kafka, service, bulk, elastic, history>>

(* onStoreTimber begins with the first document, if there is one. *)
Receive(w) ==
    LET m == Head(adapter[w].messages) IN
    /\ worker[w].pc = "select"
    /\ adapter[w].messages # <<>>
    /\ adapter' = [adapter EXCEPT ![w].messages = Tail(@)]
    /\ worker' = [worker EXCEPT
                    ![w].pc = IF ItemsOf(m) = <<>> THEN "mark" ELSE "ensure",
                    ![w].msg = m, ![w].item = 1]
    /\ UNCHANGED <<kafka, service, bulk, elastic, history>>

(* ensureIndexIsExists: the cache knows the index ... *)
IndexCached(w) ==
    /\ worker[w].pc = "ensure"
    /\ worker[w].retry = 0
    /\ index.cached
    /\ worker' = [worker EXCEPT ![w].pc = "insert"]
    /\ UNCHANGED <<kafka, service, adapter, bulk, elastic, history>>

(* ... or Elasticsearch is asked. *)
IndexExists(w) ==
    /\ worker[w].pc = "ensure"
    /\ worker[w].retry = 0 => ~index.cached
    /\ index' = [index EXCEPT !.cached = index.exists]
    /\ worker' = [worker EXCEPT
                    ![w].pc = IF index.exists THEN "insert" ELSE "create",
                    ![w].retry = 0]
    /\ UNCHANGED <<kafka, service, adapter, bulk, setting, stored, history>>

(* ... and asked to create it; for a data stream only its template is made *)
(* and the first document creates the stream.                              *)
CreateIndex(w) ==
    /\ worker[w].pc = "create"
    /\ setting.indexMethod = "DataStream" \/ ~index.exists
    /\ index' = [exists |-> index.exists \/ setting.indexMethod # "DataStream",
                 cached |-> TRUE]
    /\ worker' = [worker EXCEPT ![w].pc = "insert", ![w].retry = 0]
    /\ UNCHANGED <<kafka, service, adapter, bulk, setting, stored, history>>

(* An error, for instance because someone else has created the index: Store*)
(* sleeps and begins again.                                                *)
EnsureFails(w) ==
    /\ worker[w].pc \in {"ensure", "create"}
    /\ worker[w].pc = "ensure" => ~index.cached \/ worker[w].retry > 0
    /\ worker' = [worker EXCEPT ![w].pc = "ensure", ![w].retry = 0]
    /\ UNCHANGED <<kafka, service, adapter, bulk, elastic, history>>

(* No answer; a request that is given up ends like another error. *)
EnsureUnanswered(w) ==
    LET n == worker[w].retry + 1 IN
    /\ worker[w].pc \in {"ensure", "create"}
    /\ worker[w].pc = "ensure" => ~index.cached \/ worker[w].retry > 0
    /\ IF MaxRetryReached(n)
       THEN /\ HaltAllWorker
            /\ worker' = [worker EXCEPT
                            ![w].pc = AfterHalt("haltEnsure", "ensure"),
                            ![w].retry = 0]
       ELSE /\ worker' = [worker EXCEPT ![w].retry = Attempts(n)]
            /\ UNCHANGED service
    /\ UNCHANGED <<kafka, adapter, bulk, elastic, history>>

-----------------------------------------------------------------------------
(* The index exists: the document is converted, redacted and inserted.     *)

InHand(w) == Document(TopicOf(w), worker[w].msg, worker[w].item)

QualityOf(d) == Content[d[2]][d[3]]

Fit(D) == {d \in D : QualityOf(d) = "ok"}

(* The documents of the message that have not been handed over yet. *)
Remaining(w) ==
    Fit({Document(TopicOf(w), worker[w].msg, i) :
            i \in worker[w].item .. Len(Content[worker[w].msg])})

(* The document cannot be converted: onStoreTimber leaves the rest of the  *)
(* message, and returns.                                                   *)
ConvertFails(w) ==
    /\ worker[w].pc = "insert"
    /\ QualityOf(InHand(w)) = "noFields"
    /\ worker' = [worker EXCEPT ![w] = Handled(w)]
    /\ UNCHANGED <<kafka, service, adapter, bulk, elastic, history>>

(* Without a redactor the interface is not nil, its lock is: a panic. *)
RedactPanics(w) ==
    /\ worker[w].pc = "insert"
    /\ QualityOf(InHand(w)) # "noFields"
    /\ setting.redaction = "static"
    /\ Vanish
    /\ UNCHANGED troubles

Redacted(w) ==
    /\ worker[w].pc = "insert"
    /\ QualityOf(InHand(w)) # "noFields"
    /\ setting.redaction = "market"

(* Mutant of bulkInsert: the size of a request is not limited. *)
bulkInsertUnlimited(w) ==
    /\ Redacted(w)
    /\ setting.indexMethod \in {"BulkProcessor", "DataStream"}
    /\ bulk.pc = "select"
    /\ bulk' = [bulk EXCEPT !.queue = @ \cup {InHand(w)}, !.actions = @ + 1]
    /\ worker' = [worker EXCEPT ![w] = NextItem(w)]
    /\ UNCHANGED <<kafka, service, adapter, elastic, history>>

(* Add waits until the bulk processor takes the document, which it does    *)
(* between two requests; a request is due when BulkSize are waiting.       *)
bulkInsert(w) ==
    /\ Redacted(w)
    /\ setting.indexMethod \in {"BulkProcessor", "DataStream"}
    /\ bulk.pc = "select"
    /\ bulk' = [bulk EXCEPT !.queue = @ \cup {InHand(w)},
                            !.actions = @ + 1,
                            !.pc = IF bulk.actions + 1 >= BulkSize
                                   THEN "commit" ELSE "select"]
    /\ worker' = [worker EXCEPT ![w] = NextItem(w)]
    /\ UNCHANGED <<kafka, service, adapter, elastic, history>>

singleInsert(w) ==
    /\ Redacted(w)
    /\ setting.indexMethod = "SingleInsert"
    /\ QualityOf(InHand(w)) = "ok"
    /\ stored' = stored \cup {InHand(w)}
    /\ worker' = [worker EXCEPT ![w] = NextItem(w)]
    /\ UNCHANGED <<kafka, service, adapter, bulk, index, setting, history>>

(* The answer is an error: Store returns it, and onStoreTimber leaves the  *)
(* rest of the message.                                                    *)
singleInsertFails(w) ==
    /\ Redacted(w)
    /\ setting.indexMethod = "SingleInsert"
    /\ lost' = lost \cup Remaining(w)
    /\ worker' = [worker EXCEPT ![w] = Handled(w)]
    /\ UNCHANGED <<kafka, service, adapter, bulk, elastic, skipped,
                   troubles>>

(* No answer, although Elasticsearch may have stored the document. *)
singleInsertUnanswered(w) ==
    LET n == worker[w].retry + 1 IN
    /\ Redacted(w)
    /\ setting.indexMethod = "SingleInsert"
    /\ IF MaxRetryReached(n)
       THEN /\ HaltAllWorker
            /\ worker' = [worker EXCEPT
                            ![w].pc = AfterHalt("haltInsert", "mark"),
                            ![w].retry = 0]
            /\ lost' = lost \cup Remaining(w)
       ELSE /\ worker' = [worker EXCEPT ![w].retry = Attempts(n)]
            /\ UNCHANGED <<service, lost>>
    /\ stored' \in {stored, stored \cup Fit({InHand(w)})}
    /\ UNCHANGED <<kafka, adapter, bulk, index, setting, skipped, troubles>>

(* Close has returned: the request fails. *)
Halted(w) ==
    /\ worker[w].pc \in {"haltEnsure", "haltInsert"}
    /\ service.closing["halt"] = {}
    /\ worker' = [worker EXCEPT ![w].pc = IF @ = "haltEnsure" THEN "ensure"
                                          ELSE "mark"]
    /\ UNCHANGED <<kafka, service, adapter, bulk, elastic, history>>

(* Mutant of MarkOffset: the offset after the next message is marked. *)
MarkOffsetAfterNext(w) ==
    /\ worker[w].pc = "mark"
    /\ adapter' = [adapter EXCEPT
                     ![w].marked = IF adapter[w].session = "live"
                                      /\ worker[w].msg + 2 > @
                                   THEN worker[w].msg + 2 ELSE @]
    /\ worker' = [worker EXCEPT ![w].pc = "select", ![w].msg = 0,
                                ![w].item = 1]
    /\ UNCHANGED <<kafka, service, bulk, elastic, history>>

(* The callback has returned; only a live session keeps the mark. *)
MarkOffset(w) ==
    /\ worker[w].pc = "mark"
    /\ adapter' = [adapter EXCEPT
                     ![w].marked = IF adapter[w].session = "live"
                                      /\ worker[w].msg + 1 > @
                                   THEN worker[w].msg + 1 ELSE @]
    /\ worker' = [worker EXCEPT ![w].pc = "select", ![w].msg = 0,
                                ![w].item = 1]
    /\ UNCHANGED <<kafka, service, bulk, elastic, history>>

Return(w) ==
    /\ worker[w].pc = "select"
    /\ worker[w].stop
    /\ worker' = [worker EXCEPT ![w].pc = "returned", ![w].stop = FALSE]
    /\ UNCHANGED <<kafka, service, adapter, bulk, elastic, history>>

-----------------------------------------------------------------------------
(* The bulk processor of the client library. *)

(* Mutant of BulkFlush: there is no FlushInterval. *)
BulkFlushFull ==
    /\ bulk.pc = "select"
    /\ bulk.actions >= BulkSize
    /\ bulk' = [bulk EXCEPT !.pc = "commit"]
    /\ UNCHANGED <<kafka, service, adapter, worker, elastic, history>>

(* FlushInterval has passed. *)
BulkFlush ==
    /\ bulk.pc = "select"
    /\ bulk.queue # {}
    /\ bulk' = [bulk EXCEPT !.pc = "commit"]
    /\ UNCHANGED <<kafka, service, adapter, worker, elastic, history>>

(* An answer.  Documents that are told to come again later stay; they are  *)
(* sent again at once or with the next request.  The others are stored, or *)
(* refused, which getCommitCallback only logs.                             *)
BulkAnswered(again) ==
    /\ bulk.pc = "commit"
    /\ again \subseteq bulk.queue
    /\ stored' = stored \cup Fit(bulk.queue \ again)
    /\ index' = [index EXCEPT
                    !.exists = @ \/ Fit(bulk.queue \ again) # {}]
    /\ IF again = {}
       THEN bulk' = NewBulkProcessor
       ELSE \E pc \in {"select", "commit"},
               n \in Cardinality(again) .. bulk.actions :
               bulk' = [pc |-> pc, queue |-> again, actions |-> n,
                        retry |-> 0, failed |-> TRUE]
    /\ UNCHANGED <<kafka, service, adapter, worker, setting, history>>

(* The request as a whole fails, and stays: it is tried again at once, or  *)
(* with the next document or flush.                                        *)
BulkFails ==
    /\ bulk.pc = "commit"
    /\ \E pc \in {"select", "commit"} :
          bulk' = [bulk EXCEPT !.pc = pc, !.retry = 0, !.failed = TRUE]
    /\ UNCHANGED <<kafka, service, adapter, worker, elastic, history>>

BulkUnanswered ==
    LET n == bulk.retry + 1 IN
    /\ bulk.pc = "commit"
    /\ IF MaxRetryReached(n)
       THEN /\ HaltAllWorker
            /\ bulk' = [bulk EXCEPT !.pc = AfterHalt("halt", "select"),
                                    !.retry = 0, !.failed = TRUE]
       ELSE /\ bulk' = [bulk EXCEPT !.retry = Attempts(n), !.failed = TRUE]
            /\ UNCHANGED service
    /\ stored' \in {stored, stored \cup Fit(bulk.queue)}
    /\ UNCHANGED <<kafka, adapter, worker, index, setting, history>>

BulkHalted ==
    /\ bulk.pc = "halt"
    /\ service.closing["halt"] = {}
    /\ bulk' = [bulk EXCEPT !.pc = "select"]
    /\ UNCHANGED <<kafka, service, adapter, worker, elastic, history>>

-----------------------------------------------------------------------------
(* The cache of indices. *)

CacheExpires ==
    /\ index.cached
    /\ index' = [index EXCEPT !.cached = FALSE]
    /\ UNCHANGED <<kafka, service, adapter, worker, bulk, setting, stored,
                   history>>

(* Another replica creates the index. *)
IndexAppears ==
    /\ ~index.exists
    /\ index' = [index EXCEPT !.exists = TRUE]
    /\ UNCHANGED <<kafka, service, adapter, worker, bulk, setting, stored,
                   history>>

-----------------------------------------------------------------------------

Store(w) ==
    \/ IndexCached(w)
    \/ IndexExists(w)
    \/ CreateIndex(w)
    \/ EnsureFails(w)
    \/ EnsureUnanswered(w)
    \/ ConvertFails(w)
    \/ RedactPanics(w)
    \/ bulkInsert(w)
    \/ singleInsert(w)
    \/ singleInsertFails(w)
    \/ singleInsertUnanswered(w)
    \/ Halted(w)

WorkerNext(w) ==
    \/ spawnLogsWorker(w)
    \/ spawnLogsWorkerFails(w)
    \/ Setup(w)
    \/ AutoCommit(w)
    \/ Cleanup(w)
    \/ ConsumeClaim(w)
    \/ Receive(w)
    \/ Store(w)
    \/ MarkOffset(w)
    \/ Return(w)
    \/ \E k \in Closer : Stop(k, w)

ServiceNext ==
    \/ \E t \in Topic : Produce(t)
    \/ NewBaritoConsumerService
    \/ Crash
    \/ GracefullShutdown
    \/ Exit
    \/ BulkFlush
    \/ \E again \in SUBSET bulk.queue : BulkAnswered(again)
    \/ BulkFails
    \/ BulkUnanswered
    \/ BulkHalted
    \/ CacheExpires
    \/ IndexAppears

Next == ServiceNext \/ \E w \in Worker : WorkerNext(w)

Spec == Init /\ [][Next]_vars

-----------------------------------------------------------------------------
(* Fairness: goroutines are scheduled, a process that is down is started,  *)
(* Start spawns the workers of the topics it found, Kafka gives a session  *)
(* that was lost back, and Elasticsearch answers again and again: a        *)
(* request that is repeated for ever is answered.                          *)

Adapter(w) == Setup(w) \/ ConsumeClaim(w)

(* What loopMain does without waiting for anyone. *)
LoopMain(w) ==
    \/ Receive(w)
    \/ ConvertFails(w)
    \/ RedactPanics(w)
    \/ Halted(w)
    \/ MarkOffset(w)
    \/ Return(w)

Fairness ==
    /\ WF_vars(NewBaritoConsumerService \/ Exit)
    /\ WF_vars(BulkFlush \/ BulkHalted)
    /\ SF_vars(BulkAnswered({}))
    /\ \A k \in Closer : WF_vars(\E w \in Worker : Stop(k, w))
    /\ \A w \in Worker :
          /\ WF_vars(Adapter(w))
          /\ WF_vars(LoopMain(w))
          /\ SpawnerOf(w) = "start" => WF_vars(spawnLogsWorker(w))
          /\ SF_vars(IndexCached(w) \/ IndexExists(w))
          /\ SF_vars(CreateIndex(w))
          /\ WF_vars(EnsureFails(w) /\ worker[w].pc = "create" /\ index.exists)
          /\ SF_vars(bulkInsert(w) \/ singleInsert(w))
          /\ WF_vars(singleInsertFails(w) /\ QualityOf(InHand(w)) = "refused")

FairSpec == Spec /\ Fairness

-----------------------------------------------------------------------------
(* Properties. *)

TypeOK ==
    /\ logEnd \in [Topic -> 0 .. MaxLog]
    /\ committed \in [Topic -> 0 .. MaxLog]
    /\ known \subseteq Topic
    /\ service \in ServiceState
    /\ adapter \in [Worker -> AdapterState]
    /\ worker \in [Worker -> WorkerState]
    /\ bulk \in BulkState
    /\ index \in [exists : BOOLEAN, cached : BOOLEAN]
    /\ setting \in [indexMethod : IndexMethods, redaction : Redactions]
    /\ stored \subseteq Topic \X Offset \X Nat
    /\ lost \subseteq Topic \X Offset \X Nat
    /\ skipped \subseteq Topic \X Offset
    /\ troubles \in Nat

(* What the program does not store by design: a message it cannot parse, a *)
(* document Elasticsearch refuses, one that cannot be converted, and all   *)
(* that follow that one in its message.                                    *)
Doomed(o, i) ==
    \/ o \in Unparsable
    \/ Content[o][i] = "refused"
    \/ \E j \in 1 .. i : Content[o][j] = "noFields"

Accounted(t, o) ==
    \A i \in 1 .. Len(Content[o]) :
        \/ Doomed(o, i)
        \/ Document(t, o, i) \in stored \cup lost \cup bulk.queue
        \/ <<t, o>> \in skipped

(* Offsets are committed every second, whatever Elasticsearch does.  A     *)
(* document of a committed message that is fit to be stored is stored, or  *)
(* waits in the bulk processor, or was given up on by Store, or was in the *)
(* bulk processor when the process ended, or its message was older than    *)
(* the first session of a group that had no offset.  There is no other way *)
(* to lose one.                                                            *)
CommittedAccounted ==
    \A t \in Topic, o \in Offset : o < committed[t] => Accounted(t, o)

(* The end of a process costs at most one bulk request, as long as the     *)
(* last request did not fail: Add waits while a request is under way, so   *)
(* committed documents do not pile up behind it.                           *)
LossBounded ==
    [][ /\ service.pc # "down"
        /\ service'.pc = "down"
        /\ ~bulk.failed
        => Cardinality(lost' \ lost) <= BulkSize ]_vars

(* When the Close of HaltAllWorker has returned, the workers it had to     *)
(* stop commit nothing more: what they still handle, the message whose     *)
(* request reached the limit among it, is read again.  Only a worker that  *)
(* workerMap had lost before, or that was spawned since the halt began,    *)
(* can move an offset.                                                     *)
HaltKeepsOffsets ==
    [][ service.isHalt /\ service.closing["halt"] = {} =>
          \A t \in Topic :
             committed'[t] # committed[t] =>
                \E w \in Worker \ service.held :
                   TopicOf(w) = t /\ adapter[w].session = "live" ]_vars

(* The bulk processor gets rid of all that it holds, also when the workers *)
(* have been halted and no document comes after the last.                  *)
QueueDrains == bulk.queue # {} ~> bulk.queue = {}

(* A worker of the topic runs, and nobody has stopped it. *)
Served(t) ==
    \E w \in Worker : /\ TopicOf(w) = t
                      /\ worker[w].pc \notin {"none", "returned"}
                      /\ ~worker[w].stop

(* Every message is handed over, or falls under one of the cases above, as *)
(* long as Close does not leave the topic without a worker: lost sessions, *)
(* restarts, an index that someone else creates and requests without an    *)
(* answer only delay it.                                                   *)
EveryMessageHandled ==
    setting.redaction = "market" =>
        \A t \in Topic, o \in Offset :
            <>[]Served(t) => (logEnd[t] > o ~> Accounted(t, o))
=============================================================================
