-------------------------- MODULE ConsumerService --------------------------
(***************************************************************************)
(* The topics and workers of the consumer mode                             *)
(* (flow/barito_consumer_service.go).  Start spawns a worker for every     *)
(* topic it finds, while the worker of the event topic, which it started   *)
(* before that, spawns one for every topic announced to it.  The two       *)
(* goroutines share workerMap without a lock.  Close, which both of them,  *)
(* a halt and a termination signal may call, stops one worker after the    *)
(* other, then the admin and the event worker last, while all others go    *)
(* on.                                                                     *)
(*                                                                         *)
(* All topics of the model have the service's prefix and suffix.           *)
(***************************************************************************)
EXTENDS Kafka

CONSTANTS
    Service,            \* the consumer processes
    MaxFailures         \* bound: spawns that fail and sessions that are lost

ASSUME FailureAssumption == MaxFailures \in Nat

VARIABLES
    service,            \* the goroutine of Start, and the halt flag
    workerMap,          \* state of the mapped worker of each topic, if any
    orphan,             \* number of running workers that workerMap has lost
    closer,             \* the calls of Close that are under way
    eventWorker,        \* the worker of the event topic with its adapter
    failures            \* number of failures so far, for the bound

serviceVars == <<service, workerMap, orphan, closer, eventWorker, failures>>

-----------------------------------------------------------------------------

(* Who calls Close: Start's loop, onNewTopicEvent, HaltAllWorker (on the   *)
(* goroutine of a log worker or of the bulk processor), and the signal.    *)
Closer == {"start", "event", "halt", "signal"}

ServiceState ==
    [pc          : {"down", "admin", "started", "loop", "running"},
     found       : SUBSET Topic,    \* topics Start has still to spawn
     adminClosed : BOOLEAN,
     isHalt      : BOOLEAN]

(* A call of Close: it stops workers, or has only the event worker left to *)
(* stop; and the topics whose workers it will come to.                     *)
CloserState == [pc : {"idle", "workers", "event"}, left : SUBSET Topic]

(* The session: where it started, the next announcement to fetch, the last *)
(* one marked and the group's committed offset; the adapter's channel; and *)
(* the new topic that onNewTopicEvent has in hand.                         *)
EventWorkerState ==
    [session  : {"none", "joining", "live", "stopping", "stopped"},
     joined   : Nat,
     pos      : Nat,
     marked   : Nat,
     offset   : Nat,
     messages : Seq(Nat),
     topic    : Topic \cup {NoTopic}]

Down == [pc |-> "down", found |-> {}, adminClosed |-> FALSE, isHalt |-> FALSE]

NotClosing == [pc |-> "idle", left |-> {}]

NoEventWorker ==
    [session |-> "none", joined |-> 0, pos |-> 0, marked |-> 0, offset |-> 0,
     messages |-> <<>>, topic |-> NoTopic]

ServiceInit ==
    /\ service = [s \in Service |-> Down]
    /\ workerMap = [s \in Service |-> [t \in Topic |-> "none"]]
    /\ orphan = [s \in Service |-> [t \in Topic |-> 0]]
    /\ closer = [s \in Service |-> [k \in Closer |-> NotClosing]]
    /\ eventWorker = [s \in Service |-> NoEventWorker]
    /\ failures = 0

(* The process ends, and with it all of its workers. *)
EndService(s) ==
    /\ service[s].pc # "down"
    /\ service' = [service EXCEPT ![s] = Down]
    /\ workerMap' = [workerMap EXCEPT ![s] = [t \in Topic |-> "none"]]
    /\ orphan' = [orphan EXCEPT ![s] = [t \in Topic |-> 0]]
    /\ closer' = [closer EXCEPT ![s] = [k \in Closer |-> NotClosing]]
    /\ eventWorker' = [eventWorker EXCEPT ![s] = NoEventWorker]
    /\ UNCHANGED <<failures, kafka>>

-----------------------------------------------------------------------------
(* Start *)

(* The client of the admin has read which topics exist. *)
initAdmin(s) ==
    /\ service[s].pc = "down"
    /\ service' = [service EXCEPT ![s].pc = "admin", ![s].found = topics]
    /\ UNCHANGED <<workerMap, orphan, closer, eventWorker, failures, kafka>>

(* The event worker starts in a group of its own; joining the group takes  *)
(* as long as it takes.                                                    *)
initNewTopicWorker(s) ==
    /\ service[s].pc = "admin"
    /\ service' = [service EXCEPT ![s].pc = "started"]
    /\ eventWorker' = [eventWorker EXCEPT ![s] =
                         [NoEventWorker EXCEPT !.session = "joining"]]
    /\ UNCHANGED <<workerMap, orphan, closer, failures, kafka>>

(* admin.Topics, after the event worker has started: what the client knows *)
(* from its start or from a refresh in the background; nothing when Close  *)
(* has closed the client.                                                  *)
adminTopics(s) ==
    /\ service[s].pc = "started"
    /\ \E known \in IF service[s].adminClosed
                     THEN {{}} ELSE {service[s].found, topics} :
          service' = [service EXCEPT ![s].pc = "loop", ![s].found = known]
    /\ UNCHANGED <<workerMap, orphan, closer, eventWorker, failures, kafka>>

(* A topic that a spawn adds to workerMap may be met by a Close that is    *)
(* ranging over the map, or not.                                           *)
MeetNewTopic(s, t) ==
    \E K \in SUBSET {k \in Closer : closer[s][k].pc = "workers"} :
        closer' = [closer EXCEPT ![s] =
                     [k \in Closer |->
                        IF k \in K
                        THEN [closer[s][k] EXCEPT !.left = @ \cup {t}]
                        ELSE closer[s][k]]]

(* A worker for the topic is started and mapped; one that was mapped       *)
(* before and still runs is lost.                                          *)
spawnLogsWorker(s, t) ==
    /\ workerMap' = [workerMap EXCEPT ![s][t] = "running"]
    /\ orphan' = IF workerMap[s][t] = "running"
                 THEN [orphan EXCEPT ![s][t] = @ + 1] ELSE orphan
    /\ IF workerMap[s][t] = "none" THEN MeetNewTopic(s, t) ELSE UNCHANGED closer

(* Something fails, at most MaxFailures times. *)
Failure ==
    /\ failures < MaxFailures
    /\ failures' = failures + 1

(* Close is called. *)
Close(s, k) ==
    /\ closer[s][k].pc = "idle"
    /\ closer' = [closer EXCEPT ![s][k] =
                    [pc   |-> "workers",
                     left |-> {t \in Topic : workerMap[s][t] # "none"}]]

StartSpawn(s) ==
    /\ service[s].pc = "loop"
    /\ closer[s]["start"].pc = "idle"
    /\ \E t \in service[s].found :
          /\ spawnLogsWorker(s, t)
          /\ service' = [service EXCEPT ![s].found = @ \ {t}]
    /\ UNCHANGED <<eventWorker, failures, kafka>>

(* The loop closes the service and then goes on with the next topic. *)
StartSpawnFails(s) ==
    /\ service[s].pc = "loop"
    /\ Failure
    /\ \E t \in service[s].found :
          service' = [service EXCEPT ![s].found = @ \ {t}]
    /\ Close(s, "start")
    /\ UNCHANGED <<workerMap, orphan, eventWorker, kafka>>

StartReturn(s) ==
    /\ service[s].pc = "loop"
    /\ closer[s]["start"].pc = "idle"
    /\ service[s].found = {}
    /\ service' = [service EXCEPT ![s].pc = "running"]
    /\ UNCHANGED <<workerMap, orphan, closer, eventWorker, failures, kafka>>

-----------------------------------------------------------------------------
(* The event worker *)

(* The group has no offset until the session commits one: it starts at the *)
(* newest announcement (OffsetNewest).                                     *)
EventJoin(s) ==
    /\ eventWorker[s].session = "joining"
    /\ LET first == IF eventWorker[s].offset > 0
                    THEN eventWorker[s].offset ELSE Len(events) IN
       eventWorker' = [eventWorker EXCEPT ![s].session = "live",
                                          ![s].joined = first,
                                          ![s].pos = first,
                                          ![s].marked = first]
    /\ UNCHANGED <<service, workerMap, orphan, closer, failures, kafka>>

(* What is left of the event worker when its session is over. *)
WithoutSession(e) == [e EXCEPT !.joined = 0, !.pos = 0, !.marked = 0]

(* The session is lost.  Auto-commit has committed all, a part or none of  *)
(* what it marked.  The channel keeps what it holds.                       *)
EventLose(s) ==
    LET e == eventWorker[s] IN
    /\ e.session = "live"
    /\ Failure
    /\ \E o \in {e.offset} \cup (e.joined + 1 .. e.marked) :
          eventWorker' = [eventWorker EXCEPT
                            ![s] = [WithoutSession(e) EXCEPT
                                      !.session = "joining", !.offset = o]]
    /\ UNCHANGED <<service, workerMap, orphan, closer, kafka>>

EventFetch(s) ==
    /\ eventWorker[s].session = "live"
    /\ eventWorker[s].pos < Len(events)
    /\ eventWorker' = [eventWorker EXCEPT
                         ![s].pos = @ + 1,
                         ![s].messages = Append(@, eventWorker[s].pos + 1)]
    /\ UNCHANGED <<service, workerMap, orphan, closer, failures, kafka>>

(* The mark that loopMain sets when onNewTopicEvent returns; only a live   *)
(* session keeps it.                                                       *)
Mark(e, i) == IF e.session = "live" /\ i > e.marked THEN i ELSE e.marked

(* loopMain has the next announcement for onNewTopicEvent.  What is in the *)
(* channel it may still handle when the event worker is being stopped.     *)
EventNext(s) ==
    /\ eventWorker[s].session \in {"live", "joining", "stopping"}
    /\ closer[s]["event"].pc = "idle"
    /\ eventWorker[s].topic = NoTopic
    /\ eventWorker[s].messages # <<>>

(* onNewTopicEvent ignores a topic that is mapped ... *)
EventIgnore(s) ==
    LET e == eventWorker[s] IN
    /\ EventNext(s)
    /\ workerMap[s][events[Head(e.messages)]] # "none"
    /\ eventWorker' = [eventWorker EXCEPT
                         ![s].messages = Tail(@),
                         ![s].marked = Mark(e, Head(e.messages))]
    /\ UNCHANGED <<service, workerMap, orphan, closer, failures, kafka>>

(* Mutant of EventNew: the topic is not looked up in workerMap. *)
EventNewUntested(s) ==
    /\ EventNext(s)
    /\ eventWorker' = [eventWorker EXCEPT
                         ![s].topic = events[Head(eventWorker[s].messages)]]
    /\ UNCHANGED <<service, workerMap, orphan, closer, failures, kafka>>

(* ... and spawns a worker for another, after it has looked it up. *)
EventNew(s) ==
    LET e == eventWorker[s] IN
    /\ EventNext(s)
    /\ workerMap[s][events[Head(e.messages)]] = "none"
    /\ eventWorker' = [eventWorker EXCEPT ![s].topic = events[Head(e.messages)]]
    /\ UNCHANGED <<service, workerMap, orphan, closer, failures, kafka>>

(* Mutant of EventSpawn: the new worker is not put into workerMap. *)
EventSpawnUnmapped(s) ==
    LET e == eventWorker[s] IN
    /\ e.topic # NoTopic
    /\ orphan' = [orphan EXCEPT ![s][e.topic] = @ + 1]
    /\ eventWorker' = [eventWorker EXCEPT
                         ![s].topic = NoTopic,
                         ![s].messages = Tail(@),
                         ![s].marked = Mark(e, Head(e.messages))]
    /\ UNCHANGED <<service, workerMap, closer, failures, kafka>>

EventSpawn(s) ==
    LET e == eventWorker[s] IN
    /\ e.topic # NoTopic
    /\ spawnLogsWorker(s, e.topic)
    /\ eventWorker' = [eventWorker EXCEPT
                         ![s].topic = NoTopic,
                         ![s].messages = Tail(@),
                         ![s].marked = Mark(e, Head(e.messages))]
    /\ UNCHANGED <<service, failures, kafka>>

(* Mutant of EventSpawnFails: the error is logged, the service goes on. *)
EventSpawnFailsGoesOn(s) ==
    /\ eventWorker[s].topic # NoTopic
    /\ Failure
    /\ eventWorker' = [eventWorker EXCEPT ![s].topic = NoTopic,
                                          ![s].messages = Tail(@)]
    /\ UNCHANGED <<service, workerMap, orphan, closer, kafka>>

(* A spawn that fails closes the whole service; the process goes on.  The  *)
(* announcement is dropped: when Close returns, the session is over, and   *)
(* the mark that loopMain sets then has no effect.                         *)
EventSpawnFails(s) ==
    /\ eventWorker[s].topic # NoTopic
    /\ Failure
    /\ Close(s, "event")
    /\ eventWorker' = [eventWorker EXCEPT ![s].topic = NoTopic,
                                          ![s].messages = Tail(@)]
    /\ UNCHANGED <<service, workerMap, orphan, kafka>>

(* loopMain takes the stop signal. *)
EventStop(s) ==
    /\ eventWorker[s].session = "stopping"
    /\ closer[s]["event"].pc = "idle"
    /\ eventWorker[s].topic = NoTopic
    /\ eventWorker' = [eventWorker EXCEPT ![s].session = "stopped"]
    /\ UNCHANGED <<service, workerMap, orphan, closer, failures, kafka>>

-----------------------------------------------------------------------------
(* Close *)

(* Stop of the worker that is mapped when Close comes to it. *)
CloseWorker(s, k) ==
    /\ closer[s][k].pc = "workers"
    /\ \E t \in closer[s][k].left :
          /\ workerMap' = [workerMap EXCEPT ![s][t] = "stopped"]
          /\ closer' = [closer EXCEPT ![s][k].left = @ \ {t}]
    /\ UNCHANGED <<service, orphan, eventWorker, failures, kafka>>

CloseAdmin(s, k) ==
    /\ closer[s][k].pc = "workers"
    /\ closer[s][k].left = {}
    /\ service' = [service EXCEPT ![s].adminClosed = TRUE]
    /\ closer' = [closer EXCEPT ![s][k].pc = "event"]
    /\ UNCHANGED <<workerMap, orphan, eventWorker, failures, kafka>>

(* Mutant of CloseEventWorker: Close returns without stopping it. *)
CloseEventWorkerSpared(s, k) ==
    /\ k # "signal"
    /\ closer[s][k].pc = "event"
    /\ closer' = [closer EXCEPT ![s][k] = NotClosing]
    /\ UNCHANGED <<service, workerMap, orphan, eventWorker, failures, kafka>>

(* Stop of the event worker; Close returns. *)
CloseEventWorker(s, k) ==
    /\ k # "signal"
    /\ closer[s][k].pc = "event"
    /\ closer' = [closer EXCEPT ![s][k] = NotClosing]
    /\ eventWorker' = IF eventWorker[s].session \in {"live", "joining"}
                      THEN [eventWorker EXCEPT
                              ![s] = [WithoutSession(eventWorker[s]) EXCEPT
                                        !.session = "stopping", !.offset = 0]]
                      ELSE eventWorker
    /\ UNCHANGED <<service, workerMap, orphan, failures, kafka>>

(* The Close that the signal called stops the event worker and returns,    *)
(* and the process ends.                                                   *)
Exit(s) ==
    /\ closer[s]["signal"].pc = "event"
    /\ EndService(s)

CloseStep(s, k) ==
    \/ CloseWorker(s, k)
    \/ CloseAdmin(s, k)
    \/ CloseEventWorker(s, k)
    \/ k = "signal" /\ Exit(s)

-----------------------------------------------------------------------------

(* Elasticsearch stayed away for too long: the retrier of some worker, or  *)
(* of the bulk processor, halts the service, once.                         *)
HaltAllWorker(s) ==
    /\ ~service[s].isHalt
    /\ Failure
    /\ \E t \in Topic : workerMap[s][t] # "none"
    /\ service' = [service EXCEPT ![s].isHalt = TRUE]
    /\ Close(s, "halt")
    /\ UNCHANGED <<workerMap, orphan, eventWorker, kafka>>

(* A termination signal, which is awaited once Start has returned. *)
GracefullShutdown(s) ==
    /\ service[s].pc = "running"
    /\ Close(s, "signal")
    /\ UNCHANGED <<service, workerMap, orphan, eventWorker, failures, kafka>>

Start(s) ==
    \/ initAdmin(s)
    \/ initNewTopicWorker(s)
    \/ adminTopics(s)
    \/ StartSpawn(s)
    \/ StartSpawnFails(s)
    \/ StartReturn(s)

onNewTopicEvent(s) ==
    \/ EventIgnore(s)
    \/ EventNew(s)
    \/ EventSpawn(s)
    \/ EventSpawnFails(s)

ServiceNext ==
    \E s \in Service :
        \/ Start(s)
        \/ EventJoin(s)
        \/ EventLose(s)
        \/ EventFetch(s)
        \/ onNewTopicEvent(s)
        \/ EventStop(s)
        \/ HaltAllWorker(s)
        \/ GracefullShutdown(s)
        \/ \E k \in Closer : CloseStep(s, k)
        \/ EndService(s)
=============================================================================
