----------------------------- MODULE GCSService -----------------------------
(***************************************************************************)
(* The topics of a consumer-gcs process                                    *)
(* (flow/barito_kafka_consumer_gcs_service.go): once a minute the loop of  *)
(* Start lists the topics and spawns a worker and an output for each that  *)
(* matches the pattern and has none; on a termination signal Close stops   *)
(* the outputs.  The two goroutines share isStop and gcsOutputMap without  *)
(* a lock.  GCSConsumer models what a worker and its output do.            *)
(***************************************************************************)
EXTENDS Naturals, FiniteSets

CONSTANTS
    Topic,              \* the topics that may come into being
    Matching,           \* those that match TopicPattern
    NoTopic

ASSUME TopicAssumption ==
    /\ Matching \subseteq Topic
    /\ NoTopic \notin Topic

VARIABLES
    topics,             \* Kafka: the topics that exist
    admin,              \* kafkaAdmin and the metadata of its client
    loop,               \* the goroutine of Start
    closer,             \* the goroutine of Close
    isStop,
    workerMap,          \* the topics that are mapped to a worker
    gcsOutputMap,       \* state of the mapped output of each topic
    unmapped            \* topics with a running output that Close cannot see

vars == <<topics, admin, loop, closer, isStop, workerMap, gcsOutputMap,
          unmapped>>

-----------------------------------------------------------------------------

AdminState == [metadata : SUBSET Topic, topics : SUBSET Topic]

LoopState ==
    [pc    : {"down", "top", "range", "consumer", "start", "returned"},
     todo  : SUBSET Topic,          \* topics the round has yet to look at
     topic : Topic \cup {NoTopic}]  \* the topic in hand

(* held: the topics with a running output when Close was called. *)
CloserState ==
    [pc    : {"idle", "range", "returned"},
     todo  : SUBSET Topic,
     held  : SUBSET Topic]

OutputState == {"none", "made", "running", "stopped"}

Down == [pc |-> "down", todo |-> {}, topic |-> NoTopic]

NoCloser == [pc |-> "idle", todo |-> {}, held |-> {}]

Init ==
    /\ topics = {}
    /\ admin = [metadata |-> {}, topics |-> {}]
    /\ loop = Down
    /\ closer = NoCloser
    /\ isStop = FALSE
    /\ workerMap = {}
    /\ gcsOutputMap = [t \in Topic |-> "none"]
    /\ unmapped = {}

TypeOK ==
    /\ topics \subseteq Topic
    /\ admin \in AdminState
    /\ loop \in LoopState
    /\ closer \in CloserState
    /\ isStop \in BOOLEAN
    /\ workerMap \subseteq Topic
    /\ gcsOutputMap \in [Topic -> OutputState]
    /\ unmapped \subseteq Topic

-----------------------------------------------------------------------------
(* Kafka. *)

CreateTopic(t) ==
    /\ t \notin topics
    /\ topics' = topics \cup {t}
    /\ UNCHANGED <<admin, loop, closer, isStop, workerMap, gcsOutputMap,
                   unmapped>>

(* The client refreshes its metadata in the background. *)
RefreshMetadata ==
    /\ loop.pc # "down"
    /\ admin' = [admin EXCEPT !.metadata = topics]
    /\ UNCHANGED <<topics, loop, closer, isStop, workerMap, gcsOutputMap,
                   unmapped>>

-----------------------------------------------------------------------------
(* The life of a process. *)

NewBaritoKafkaConsumerGCSFromEnv ==
    /\ loop.pc = "down"
    /\ loop' = [loop EXCEPT !.pc = "top"]
    /\ admin' = [metadata |-> topics, topics |-> {}]
    /\ UNCHANGED <<topics, closer, isStop, workerMap, gcsOutputMap, unmapped>>

Vanish ==
    /\ admin' = [metadata |-> {}, topics |-> {}]
    /\ loop' = Down
    /\ closer' = NoCloser
    /\ isStop' = FALSE
    /\ workerMap' = {}
    /\ gcsOutputMap' = [t \in Topic |-> "none"]
    /\ unmapped' = {}
    /\ UNCHANGED topics

Crash ==
    /\ loop.pc # "down"
    /\ Vanish

(* The process ends when Close has returned. *)
Exit ==
    /\ closer.pc = "returned"
    /\ Vanish

-----------------------------------------------------------------------------
(* The loop of Start. *)

LoopReturn ==
    /\ loop.pc = "top"
    /\ isStop
    /\ loop' = [loop EXCEPT !.pc = "returned"]
    /\ UNCHANGED <<topics, admin, closer, isStop, workerMap, gcsOutputMap,
                   unmapped>>

(* A refresh that fails leaves the list of the last round; an empty list   *)
(* is refreshed again by Topics.                                           *)
RefreshTopics ==
    /\ loop.pc = "top"
    /\ ~isStop
    /\ \E list \in {admin.topics, admin.metadata} :
          /\ admin' = [admin EXCEPT !.topics = list]
          /\ loop' = [loop EXCEPT !.pc = "range", !.todo = list]
    /\ UNCHANGED <<topics, closer, isStop, workerMap, gcsOutputMap, unmapped>>

(* A topic that does not match, or that is handled already. *)
SkipTopic ==
    /\ loop.pc = "range"
    /\ \E t \in loop.todo :
          /\ t \notin Matching \/ t \in workerMap
          /\ loop' = [loop EXCEPT !.todo = @ \ {t}]
    /\ UNCHANGED <<topics, admin, closer, isStop, workerMap, gcsOutputMap,
                   unmapped>>

(* Mutant of MakeConsumerOutputGCS: the worker is mapped before it exists. *)
MakeOutputMapsWorker ==
    /\ loop.pc = "range"
    /\ \E t \in loop.todo :
          /\ t \in Matching
          /\ t \notin workerMap
          /\ loop' = [pc |-> "consumer", todo |-> loop.todo \ {t}, topic |-> t]
          /\ gcsOutputMap' = [gcsOutputMap EXCEPT ![t] = "made"]
          /\ workerMap' = workerMap \cup {t}
    /\ UNCHANGED <<topics, admin, closer, isStop, unmapped>>

(* spawnLogsWorker makes the output and maps it, in the place of what an   *)
(* attempt before it left there.                                           *)
MakeConsumerOutputGCS ==
    /\ loop.pc = "range"
    /\ \E t \in loop.todo :
          /\ t \in Matching
          /\ t \notin workerMap
          /\ loop' = [pc |-> "consumer", todo |-> loop.todo \ {t}, topic |-> t]
          /\ gcsOutputMap' = [gcsOutputMap EXCEPT ![t] = "made"]
          /\ unmapped' = IF gcsOutputMap[t] = "running"
                         THEN unmapped \cup {t} ELSE unmapped
    /\ UNCHANGED <<topics, admin, closer, isStop, workerMap>>

(* The output cannot be made, or the runtime finds that Close iterates     *)
(* over the map that is written: the process ends.                         *)
MakeOutputPanics ==
    /\ loop.pc = "range"
    /\ \E t \in loop.todo : t \in Matching /\ t \notin workerMap
    /\ Vanish

(* The group cannot be made: the next round tries the topic again. *)
MakeClusterConsumerFails ==
    /\ loop.pc = "consumer"
    /\ loop' = [loop EXCEPT !.pc = "range", !.topic = NoTopic]
    /\ UNCHANGED <<topics, admin, closer, isStop, workerMap, gcsOutputMap,
                   unmapped>>

(* Mutant of MakeClusterConsumer: the worker is not mapped. *)
MakeClusterConsumerUnmapped ==
    /\ loop.pc = "consumer"
    /\ loop' = [loop EXCEPT !.pc = "start"]
    /\ UNCHANGED <<topics, admin, closer, isStop, workerMap, gcsOutputMap,
                   unmapped>>

MakeClusterConsumer ==
    /\ loop.pc = "consumer"
    /\ workerMap' = workerMap \cup {loop.topic}
    /\ loop' = [loop EXCEPT !.pc = "start"]
    /\ UNCHANGED <<topics, admin, closer, isStop, gcsOutputMap, unmapped>>

(* The callbacks are set, the worker and the output start.  An output that *)
(* Close has stopped meanwhile stays stopped.                              *)
StartWorker ==
    /\ loop.pc = "start"
    /\ gcsOutputMap' = [gcsOutputMap EXCEPT ![loop.topic] =
                          IF @ = "made" THEN "running" ELSE @]
    /\ loop' = [loop EXCEPT !.pc = "range", !.topic = NoTopic]
    /\ UNCHANGED <<topics, admin, closer, isStop, workerMap, unmapped>>

Sleep ==
    /\ loop.pc = "range"
    /\ loop.todo = {}
    /\ loop' = [loop EXCEPT !.pc = "top"]
    /\ UNCHANGED <<topics, admin, closer, isStop, workerMap, gcsOutputMap,
                   unmapped>>

-----------------------------------------------------------------------------
(* Close, on a termination signal. *)

Running == {t \in Topic : gcsOutputMap[t] = "running"} \cup unmapped

Close ==
    /\ loop.pc # "down"
    /\ closer.pc = "idle"
    /\ isStop' = TRUE
    /\ closer' = [pc   |-> "range",
                  todo |-> {t \in Topic : gcsOutputMap[t] # "none"},
                  held |-> Running]
    /\ UNCHANGED <<topics, admin, loop, workerMap, gcsOutputMap, unmapped>>

(* The iteration goes to the next output.  It may also meet one that was   *)
(* added after it began.                                                   *)
CloseOutput ==
    /\ closer.pc = "range"
    /\ closer.todo # {}
    /\ \E t \in {u \in Topic : gcsOutputMap[u] \in {"made", "running"}} :
          /\ gcsOutputMap' = [gcsOutputMap EXCEPT ![t] = "stopped"]
          /\ closer' = [closer EXCEPT !.todo = @ \ {t}]
    /\ UNCHANGED <<topics, admin, loop, isStop, workerMap, unmapped>>

CloseReturn ==
    /\ closer.pc = "range"
    /\ closer.todo = {}
    /\ closer' = [closer EXCEPT !.pc = "returned"]
    /\ UNCHANGED <<topics, admin, loop, isStop, workerMap, gcsOutputMap,
                   unmapped>>

-----------------------------------------------------------------------------

Loop ==
    \/ LoopReturn
    \/ RefreshTopics
    \/ SkipTopic
    \/ MakeConsumerOutputGCS
    \/ MakeClusterConsumer
    \/ MakeClusterConsumerFails
    \/ StartWorker
    \/ Sleep

Next ==
    \/ \E t \in Topic : CreateTopic(t)
    \/ RefreshMetadata
    \/ NewBaritoKafkaConsumerGCSFromEnv
    \/ Crash
    \/ Exit
    \/ Loop
    \/ MakeOutputPanics
    \/ Close
    \/ CloseOutput
    \/ CloseReturn

Spec == Init /\ [][Next]_vars

(* Fairness: the loop and the client's refresh are scheduled; a group that *)
(* is asked for again and again is made, and a refresh that is repeated    *)
(* for ever succeeds at some time.                                         *)
Fairness ==
    /\ WF_vars(Loop)
    /\ WF_vars(RefreshMetadata)
    /\ SF_vars(RefreshTopics /\ admin'.topics = admin.metadata)
    /\ SF_vars(MakeClusterConsumer)

FairSpec == Spec /\ Fairness

-----------------------------------------------------------------------------
(* Properties. *)

(* Close stops every output that took messages when it was called, and so  *)
(* flushes it, whatever the loop adds to the map meanwhile: an output that *)
(* runs is never replaced in the map.                                      *)
CloseStopsOutputs ==
    closer.pc = "returned" =>
        \A t \in closer.held : gcsOutputMap[t] = "stopped" /\ t \notin unmapped

(* Why this holds: an output runs only once its worker is mapped, and a    *)
(* topic that is mapped is not spawned again.                              *)
LoopInv ==
    /\ loop.pc = "consumer" => loop.topic \in Topic \ workerMap
    /\ loop.pc = "start" => loop.topic \in workerMap

CloserInv ==
    /\ closer.held \subseteq workerMap
    /\ \A t \in closer.held :
          \/ gcsOutputMap[t] = "stopped"
          \/ gcsOutputMap[t] = "running" /\ t \in closer.todo
    /\ closer.pc = "returned" => closer.todo = {}

ServiceInv ==
    /\ TypeOK
    /\ unmapped = {}
    /\ \A t \in Topic : gcsOutputMap[t] = "running" => t \in workerMap
    /\ LoopInv
    /\ CloserInv

(* A topic that matches the pattern gets a worker with a running output in *)
(* a process that is not told to stop, whatever failed before: refreshes,  *)
(* outputs whose group could not be made, earlier processes.               *)
EveryTopicHandled ==
    <>[](loop.pc # "down" /\ ~isStop) =>
        \A t \in Matching : t \in topics ~> t \in Running
=============================================================================
