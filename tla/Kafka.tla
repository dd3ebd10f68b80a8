------------------------------- MODULE Kafka -------------------------------
(***************************************************************************)
(* What the producer and the Elasticsearch consumer see of the broker when *)
(* they agree on topics: the topics that exist, and the log of the topic   *)
(* that announces new ones (NewTopicEventName).  External: modelled from   *)
(* how src/flow uses it.  Topics are never deleted by the program.         *)
(***************************************************************************)
EXTENDS Naturals, Sequences

CONSTANTS
    Topic,              \* the topics applications may log to
    NoTopic             \* none

ASSUME TopicAssumption == NoTopic \notin Topic

VARIABLES
    topics,             \* the topics that exist
    events,             \* the announcements, oldest first
    stored              \* the topics that hold messages

kafka == <<topics, events, stored>>

KafkaInit ==
    /\ topics = {}
    /\ events = <<>>
    /\ stored = {}

(* A send the broker performs; the client's retries may repeat it. *)
Announce(topic) ==
    \/ events' = Append(events, topic)
    \/ events' = Append(Append(events, topic), topic)
=============================================================================
