------------------------------ MODULE Producer ------------------------------
(***************************************************************************)
(* The producer mode (flow/grpc_producer.go) and its view of the topics    *)
(* (flow/kafka_admin.go).  Several processes, each with several concurrent *)
(* gRPC calls, create a topic when they first log to it and announce it.   *)
(*                                                                         *)
(* A step is one access to the list of topics or one call to Kafka.  Every *)
(* call may fail, a send or a creation also after the broker performed it. *)
(* A call the rate limiter refuses (module RateLimiter) changes nothing.   *)
(***************************************************************************)
EXTENDS Kafka

CONSTANTS
    Process,            \* the producer processes
    Call,               \* concurrent gRPC calls of a process
    BatchSizes          \* messages of a call that are sent one by one

ASSUME BatchAssumption == BatchSizes \subseteq Nat \ {0}

VARIABLES
    producer,           \* producerService with its kafkaAdmin
    call                \* the calls: program counter, topic, messages left

producerVars == <<producer, call>>

-----------------------------------------------------------------------------

ProducerState ==
    [up       : BOOLEAN,
     metadata : SUBSET Topic,       \* topics the client knows
     topics   : SUBSET Topic]       \* kafkaAdmin.topics

CallState ==
    [pc    : {"idle", "exist", "refresh", "again", "create", "add", "append",
              "event", "send"},
     topic : Topic \cup {NoTopic},
     left  : Nat,                   \* messages left to send
     seen  : SUBSET Topic]          \* the list that AddTopic has read

Stopped == [up |-> FALSE, metadata |-> {}, topics |-> {}]

Idle == [pc |-> "idle", topic |-> NoTopic, left |-> 0, seen |-> {}]

ProducerInit ==
    /\ producer = [p \in Process |-> Stopped]
    /\ call = [p \in Process |-> [h \in Call |-> Idle]]

Step(p, h, pc) == call' = [call EXCEPT ![p][h].pc = pc]

(* initProducer, initKafkaAdmin, initGrpcServer.  The client has read the  *)
(* metadata of all topics; kafkaAdmin.topics is still empty.  (A process   *)
(* that gives up connecting ends, and stays down.)                         *)
StartProducer(p) ==
    /\ ~producer[p].up
    /\ producer' = [producer EXCEPT ![p] =
                      [up |-> TRUE, metadata |-> topics, topics |-> {}]]
    /\ UNCHANGED <<call, kafka>>

(* GracefulStop waits for the calls. *)
CloseProducer(p) ==
    /\ producer[p].up
    /\ \A h \in Call : call[p][h].pc = "idle"
    /\ producer' = [producer EXCEPT ![p] = Stopped]
    /\ UNCHANGED <<call, kafka>>

CrashProducer(p) ==
    /\ producer[p].up
    /\ producer' = [producer EXCEPT ![p] = Stopped]
    /\ call' = [call EXCEPT ![p] = [h \in Call |-> Idle]]
    /\ UNCHANGED kafka

(* The client refreshes its metadata in the background. *)
RefreshMetadata(p) ==
    /\ producer[p].up
    /\ producer[p].metadata # topics
    /\ producer' = [producer EXCEPT ![p].metadata = topics]
    /\ UNCHANGED <<call, kafka>>

-----------------------------------------------------------------------------
(* Produce and ProduceBatch.  A batch in the collection format is a single *)
(* message; otherwise its messages are handled one after the other, and    *)
(* the first error ends the call.                                          *)

Produce(p, h) ==
    /\ producer[p].up
    /\ call[p][h].pc = "idle"
    /\ \E t \in Topic, n \in BatchSizes :
          call' = [call EXCEPT ![p][h] =
                     [pc |-> "exist", topic |-> t, left |-> n, seen |-> {}]]
    /\ UNCHANGED <<producer, kafka>>

(* kafkaAdmin.Topics refreshes an empty list from the client. *)
ListedTopics(p) ==
    IF producer[p].topics = {} THEN producer[p].metadata
                               ELSE producer[p].topics

(* Exist searches the list, refreshes it ("topics only fetch if empty, so  *)
(* there's possiblity its unfresh") and searches it again.  The refresh is *)
(* locked, the searches are not: other calls may come in between.          *)
Search(p, h, from, otherwise) ==
    /\ call[p][h].pc = from
    /\ producer' = [producer EXCEPT ![p].topics = ListedTopics(p)]
    /\ Step(p, h, IF call[p][h].topic \in ListedTopics(p)
                  THEN "send" ELSE otherwise)
    /\ UNCHANGED kafka

RefreshTopics(p, h) ==
    /\ call[p][h].pc = "refresh"
    /\ producer' = [producer EXCEPT ![p].topics = producer[p].metadata]
    /\ Step(p, h, "again")
    /\ UNCHANGED kafka

Exist(p, h) ==
    \/ Search(p, h, "exist", "refresh")
    \/ RefreshTopics(p, h)
    \/ Search(p, h, "again", "create")

(* CreateTopic refreshes the metadata, ignoring an error, and asks the     *)
(* broker, which refuses a topic that exists.                              *)
MetadataRefreshed(p) ==
    \E known \in {producer[p].metadata, topics} :
        producer' = [producer EXCEPT ![p].metadata = known]

CreateTopic(p, h) ==
    /\ call[p][h].pc = "create"
    /\ call[p][h].topic \notin topics
    /\ topics' = topics \cup {call[p][h].topic}
    /\ MetadataRefreshed(p)
    /\ Step(p, h, "add")
    /\ UNCHANGED <<events, stored>>

(* Mutant of CreateTopicFails: the error is logged, not returned. *)
CreateTopicFailsGoesOn(p, h) ==
    /\ call[p][h].pc = "create"
    /\ topics' \in {topics, topics \cup {call[p][h].topic}}
    /\ MetadataRefreshed(p)
    /\ Step(p, h, "add")
    /\ UNCHANGED <<events, stored>>

(* Refused, or failed, or timed out after the broker created it: the call  *)
(* returns an error.                                                       *)
CreateTopicFails(p, h) ==
    /\ call[p][h].pc = "create"
    /\ topics' \in {topics, topics \cup {call[p][h].topic}}
    /\ MetadataRefreshed(p)
    /\ call' = [call EXCEPT ![p][h] = Idle]
    /\ UNCHANGED <<events, stored>>

(* AddTopic appends to the list without the refresh lock: a read of the    *)
(* list and a write, between which another call may replace it.            *)
AddTopicRead(p, h) ==
    /\ call[p][h].pc = "add"
    /\ call' = [call EXCEPT ![p][h].pc = "append",
                            ![p][h].seen = producer[p].topics]
    /\ UNCHANGED <<producer, kafka>>

AddTopic(p, h) ==
    /\ call[p][h].pc = "append"
    /\ producer' = [producer EXCEPT
                      ![p].topics = call[p][h].seen \cup {call[p][h].topic}]
    /\ call' = [call EXCEPT ![p][h].pc = "event", ![p][h].seen = {}]
    /\ UNCHANGED kafka

sendCreateTopicEvents(p, h) ==
    /\ call[p][h].pc = "event"
    /\ Announce(call[p][h].topic)
    /\ Step(p, h, "send")
    /\ UNCHANGED <<producer, topics, stored>>

sendCreateTopicEventsFails(p, h) ==
    /\ call[p][h].pc = "event"
    /\ UNCHANGED events \/ Announce(call[p][h].topic)
    /\ call' = [call EXCEPT ![p][h] = Idle]
    /\ UNCHANGED <<producer, topics, stored>>

(* The message is stored: on to the next one, or answer the client. *)
sendLogs(p, h) ==
    /\ call[p][h].pc = "send"
    /\ stored' = stored \cup {call[p][h].topic}
    /\ call' = IF call[p][h].left > 1
               THEN [call EXCEPT ![p][h].pc = "exist", ![p][h].left = @ - 1]
               ELSE [call EXCEPT ![p][h] = Idle]
    /\ UNCHANGED <<producer, topics, events>>

sendLogsFails(p, h) ==
    /\ call[p][h].pc = "send"
    /\ stored' \in {stored, stored \cup {call[p][h].topic}}
    /\ call' = [call EXCEPT ![p][h] = Idle]
    /\ UNCHANGED <<producer, topics, events>>

-----------------------------------------------------------------------------

createTopicIfNotExist(p, h) ==
    \/ Exist(p, h)
    \/ CreateTopic(p, h)
    \/ CreateTopicFails(p, h)
    \/ AddTopicRead(p, h)
    \/ AddTopic(p, h)
    \/ sendCreateTopicEvents(p, h)
    \/ sendCreateTopicEventsFails(p, h)

ProducerNext ==
    \E p \in Process :
        \/ StartProducer(p)
        \/ CloseProducer(p)
        \/ CrashProducer(p)
        \/ RefreshMetadata(p)
        \/ \E h \in Call :
              \/ Produce(p, h)
              \/ createTopicIfNotExist(p, h)
              \/ sendLogs(p, h)
              \/ sendLogsFails(p, h)
=============================================================================
