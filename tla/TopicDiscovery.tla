--------------------------- MODULE TopicDiscovery ---------------------------
(***************************************************************************)
(* Producers that create topics and consumer services that learn of them:  *)
(* from the list of topics when they start, and from the announcements     *)
(* afterwards.                                                             *)
(***************************************************************************)
EXTENDS Producer, ConsumerService

vars == <<kafka, producerVars, serviceVars>>

Init == KafkaInit /\ ProducerInit /\ ServiceInit

Next ==
    \/ ProducerNext /\ UNCHANGED serviceVars
    \/ ServiceNext /\ UNCHANGED producerVars

Spec == Init /\ [][Next]_vars

-----------------------------------------------------------------------------
(* Fairness: the goroutines of the running processes are scheduled, and    *)
(* a consumer that is down is started.  Nothing that fails is fair.        *)

Fairness ==
    /\ \A s \in Service :
          /\ WF_vars(Start(s) /\ UNCHANGED producerVars)
          /\ WF_vars(EventJoin(s) /\ UNCHANGED producerVars)
          /\ WF_vars(EventFetch(s) /\ UNCHANGED producerVars)
          /\ WF_vars(onNewTopicEvent(s) /\ UNCHANGED producerVars)
          /\ WF_vars((\E k \in Closer : CloseStep(s, k))
                     /\ UNCHANGED producerVars)
    /\ \A p \in Process, h \in Call :
          WF_vars((createTopicIfNotExist(p, h) \/ sendLogs(p, h)
                   \/ sendLogsFails(p, h)) /\ UNCHANGED serviceVars)

FairSpec == Spec /\ Fairness

-----------------------------------------------------------------------------
(* Properties. *)

(* A producer sends only to topics that exist, whatever its calls do to    *)
(* the shared list: the list, the client's metadata, and what AddTopic has *)
(* in hand never name a topic the broker does not have.                    *)
SendsToExistingTopics ==
    \A p \in Process :
        /\ producer[p].metadata \cup producer[p].topics \subseteq topics
        /\ \A h \in Call : call[p][h].pc = "send" => call[p][h].topic \in topics

(* A topic is announced only when it exists, so a consumer never starts a  *)
(* worker for a topic that is not there.                                   *)
AnnouncedTopicsExist ==
    /\ \A i \in 1 .. Len(events) : events[i] \in topics
    /\ \A s \in Service, t \in Topic : workerMap[s][t] # "none" => t \in topics

Closing(s) == \E k \in Closer : closer[s][k].pc # "idle"

Served(s) ==
    LET e == eventWorker[s] IN
    e.session = "live" =>
        \A i \in e.joined + 1 .. e.pos :
            \/ workerMap[s][events[i]] = "running"
            \/ \E k \in 1 .. Len(e.messages) : e.messages[k] = i
            \/ Closing(s)

(* No announcement is lost between the session and workerMap: every        *)
(* announcement that a live session has fetched has a running worker, or   *)
(* waits in the channel, or a Close is under way, which ends the session   *)
(* once it has stopped the workers.                                        *)
FetchedAnnouncementsServed == \A s \in Service : Served(s)

(* Whatever Start's loop and onNewTopicEvent do at the same time, a topic  *)
(* never has more than one worker out of the reach of Close, although      *)
(* neither of them locks workerMap and an announcement may come twice.     *)
OneOrphan == \A s \in Service, t \in Topic : orphan[s][t] <= 1

(* A topic is announced by the one call whose creation succeeded, and at   *)
(* most repeated by the client (so it is never there three times),         *)
(* whatever other calls make of the list of topics: an entry that AddTopic *)
(* loses costs an attempt to create it, and no announcement.               *)
AnnouncedOnce ==
    \A i, j, k \in 1 .. Len(events) :
        i < j /\ j < k /\ events[i] = events[j] => events[k] # events[j]

(* Why these hold.  Whatever a call knows of topics comes from the broker: *)
(* from the list, from the metadata, or from a creation that succeeded.    *)
(* A service that is not closed keeps its workers running, and an          *)
(* announcement leaves the channel only when its topic is mapped.          *)
TypeOK ==
    /\ topics \subseteq Topic
    /\ stored \subseteq Topic
    /\ events \in Seq(Topic)
    /\ producer \in [Process -> ProducerState]
    /\ call \in [Process -> [Call -> CallState]]
    /\ service \in [Service -> ServiceState]
    /\ workerMap \in [Service -> [Topic -> {"none", "running", "stopped"}]]
    /\ orphan \in [Service -> [Topic -> Nat]]
    /\ closer \in [Service -> [Closer -> CloserState]]
    /\ eventWorker \in [Service -> EventWorkerState]
    /\ failures \in Nat

CallInv(p, h) ==
    /\ call[p][h].pc # "idle" => call[p][h].topic \in Topic
    /\ call[p][h].pc \in {"add", "append", "event", "send"} =>
          call[p][h].topic \in topics
    /\ call[p][h].seen \subseteq topics

KnownTopicsInv ==
    /\ \A i \in 1 .. Len(events) : events[i] \in topics
    /\ \A p \in Process :
          /\ producer[p].metadata \cup producer[p].topics \subseteq topics
          /\ \A h \in Call : CallInv(p, h)

EventWorkerInv(s) ==
    LET e == eventWorker[s] IN
    /\ e.pos <= Len(events)
    /\ e.offset <= Len(events)
    /\ e.marked <= Len(events)
    /\ \A k \in 1 .. Len(e.messages) : e.messages[k] \in 1 .. Len(events)
    /\ e.topic # NoTopic => /\ e.messages # <<>>
                            /\ e.topic = events[Head(e.messages)]

WorkersInv(s) ==
    /\ service[s].found \subseteq topics
    /\ \A t \in Topic : workerMap[s][t] # "none" => t \in topics
    /\ \A k \in Closer :
          closer[s][k].left \subseteq {t \in Topic : workerMap[s][t] # "none"}
    /\ eventWorker[s].session \in {"joining", "live"} =>
          Closing(s) \/ \A t \in Topic : workerMap[s][t] # "stopped"
    /\ eventWorker[s].session = "none" <=> service[s].pc \in {"down", "admin"}
    /\ eventWorker[s].session = "none" =>
          /\ eventWorker[s].topic = NoTopic
          /\ \A t \in Topic : workerMap[s][t] = "none"
          /\ ~Closing(s)

(* Why OneOrphan holds: a worker is lost when Start spawns a topic that    *)
(* onNewTopicEvent has mapped, or the other way round; each of them comes  *)
(* to a mapped topic at most once, and only one of them does.              *)
OrphanInv(s) ==
    /\ service[s].pc = "running" => service[s].found = {}
    /\ \A t \in Topic :
          /\ orphan[s][t] <= 1
          /\ workerMap[s][t] = "none" => orphan[s][t] = 0
          /\ service[s].pc \notin {"loop", "running"} =>
                /\ orphan[s][t] = 0
                /\ eventWorker[s].topic = t => workerMap[s][t] = "none"
          /\ orphan[s][t] = 1 =>
                t \notin service[s].found /\ eventWorker[s].topic # t
          /\ workerMap[s][t] # "none" /\ service[s].pc = "loop" =>
                ~(t \in service[s].found /\ eventWorker[s].topic = t)

(* Why AnnouncedOnce holds: the call that has created a topic, and has not *)
(* announced it yet, is the only one to do so.                             *)
Announcing(c) == c.pc \in {"add", "append", "event"}

AnnounceInv ==
    /\ AnnouncedOnce
    /\ \A p \in Process, h \in Call :
          Announcing(call[p][h]) =>
              /\ \A i \in 1 .. Len(events) : events[i] # call[p][h].topic
              /\ \A q \in Process, g \in Call :
                    /\ Announcing(call[q][g])
                    /\ call[q][g].topic = call[p][h].topic
                    => q = p /\ g = h

DiscoveryInv ==
    /\ TypeOK
    /\ KnownTopicsInv
    /\ \A s \in Service : EventWorkerInv(s) /\ WorkersInv(s) /\ OrphanInv(s)
    /\ FetchedAnnouncementsServed

(* An announcement that reaches the broker while the event session of a    *)
(* service is live gets its worker, unless the service loses the session,  *)
(* closes or ends.                                                         *)
AnnouncementsServed ==
    \A s \in Service, t \in Topic :
        (/\ eventWorker[s].session = "live"
         /\ \E i \in eventWorker[s].joined + 1 .. Len(events) : events[i] = t)
        ~> (workerMap[s][t] = "running" \/ eventWorker[s].session # "live")

(* README: the consumer "Consumes logs from Kafka topics".  When a service *)
(* runs undisturbed for ever, a topic that holds messages gets a worker.   *)
EveryTopicConsumed ==
    \A s \in Service, t \in Topic :
        <>[](service[s].pc = "running" /\ failures = 0) =>
            (t \in stored ~> workerMap[s][t] = "running")
=============================================================================
