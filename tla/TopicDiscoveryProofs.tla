------------------------ MODULE TopicDiscoveryProofs ------------------------
(***************************************************************************)
(* Proofs about TopicDiscovery, for any number of topics, producers, calls *)
(* and consumer services: producers send only to topics that exist, only   *)
(* topics that exist are announced, and by one call; a service serves      *)
(* every announcement its session has fetched, and loses at most one       *)
(* worker of a topic.                                                      *)
(***************************************************************************)
EXTENDS TopicDiscovery, TLAPS

-----------------------------------------------------------------------------

(* Topics are never deleted, and announcements are only appended. *)
KafkaGrows ==
    /\ topics \subseteq topics'
    /\ Len(events) <= Len(events')
    /\ \A i \in 1 .. Len(events) : events'[i] = events[i]

(* One service: what its event worker holds and which workers it runs. *)
ServiceInv(s) ==
    EventWorkerInv(s) /\ WorkersInv(s) /\ OrphanInv(s) /\ Served(s)

(* Nothing runs yet. *)
LEMMA DiscoveryInit == Init => DiscoveryInv
<1> SUFFICES ASSUME Init PROVE DiscoveryInv
  OBVIOUS
<1> USE TopicAssumption DEF Init, KafkaInit, ProducerInit, ServiceInit
<1>1. TypeOK
  BY DEF TypeOK, Stopped, ProducerState, Idle, CallState, Down, ServiceState,
         NoEventWorker, EventWorkerState, NotClosing, CloserState
<1>2. KnownTopicsInv
  BY DEF KnownTopicsInv, CallInv, Stopped, Idle
<1>3. ASSUME NEW s \in Service PROVE ServiceInv(s)
  BY DEF ServiceInv, EventWorkerInv, WorkersInv, OrphanInv, Served, Closing,
         Down, NoEventWorker, NotClosing
<1> QED
  BY <1>1, <1>2, <1>3 DEF DiscoveryInv, ServiceInv, FetchedAnnouncementsServed

(* Taking the oldest announcement off the channel leaves the others. *)
LEMMA HeadAndTail ==
    ASSUME NEW m \in Seq(Nat), m # <<>>
    PROVE  /\ Head(m) = m[1]
           /\ 1 \in 1 .. Len(m)
           /\ Tail(m) \in Seq(Nat)
           /\ Len(Tail(m)) = Len(m) - 1
           /\ \A k \in 1 .. Len(Tail(m)) : Tail(m)[k] = m[k + 1]
           /\ \A k \in 1 .. Len(m) : k = 1 \/ k - 1 \in 1 .. Len(Tail(m))
<1>1. Len(m) \in Nat /\ Len(m) # 0
  OBVIOUS
<1>2. /\ Head(m) = m[1]
      /\ Tail(m) \in Seq(Nat)
      /\ Len(Tail(m)) = Len(m) - 1
      /\ \A k \in 1 .. Len(Tail(m)) : Tail(m)[k] = m[k + 1]
  BY <1>1
<1> QED
  BY <1>1, <1>2

(* A fetched announcement is the newest in the channel. *)
LEMMA AppendLast ==
    ASSUME NEW m \in Seq(Nat), NEW n \in Nat
    PROVE  /\ Append(m, n + 1) \in Seq(Nat)
           /\ Len(Append(m, n + 1)) = Len(m) + 1
           /\ Append(m, n + 1) # <<>>
           /\ Len(m) \in Nat
           /\ \A k \in 1 .. Len(m) : Append(m, n + 1)[k] = m[k]
           /\ Append(m, n + 1)[Len(Append(m, n + 1))] = n + 1
<1>1. n + 1 \in Nat /\ Len(m) \in Nat
  OBVIOUS
<1>2. /\ Append(m, n + 1) \in Seq(Nat)
      /\ Len(Append(m, n + 1)) = Len(m) + 1
      /\ \A k \in 1 .. Len(m) : Append(m, n + 1)[k] = m[k]
      /\ Append(m, n + 1)[Len(m) + 1] = n + 1
  BY <1>1
<1>3. Append(m, n + 1) # <<>>
  BY <1>1, <1>2
<1> QED
  BY <1>1, <1>2, <1>3

(* An announcement may be appended once or twice. *)
LEMMA AnnounceGrows ==
    ASSUME NEW t \in topics, TypeOK, Announce(t),
           \A i \in 1 .. Len(events) : events[i] \in topics
    PROVE  /\ events' \in Seq(Topic)
           /\ Len(events) <= Len(events')
           /\ \A i \in 1 .. Len(events) : events'[i] = events[i]
           /\ \A i \in 1 .. Len(events') : events'[i] \in topics
<1>1. events \in Seq(Topic) /\ t \in Topic
  BY DEF TypeOK
<1>2. CASE events' = Append(events, t)
  BY <1>1, <1>2
<1>3. CASE events' = Append(Append(events, t), t)
  BY <1>1, <1>3
<1> QED
  BY <1>2, <1>3 DEF Announce

(* What the services rely on survives when the broker's state grows. *)
LEMMA ServicesStable ==
    ASSUME DiscoveryInv, KafkaGrows, events' \in Seq(Topic),
           UNCHANGED serviceVars, NEW s \in Service
    PROVE  ServiceInv(s)'
<1>1. /\ eventWorker[s] \in EventWorkerState
      /\ events \in Seq(Topic)
      /\ EventWorkerInv(s) /\ WorkersInv(s) /\ OrphanInv(s) /\ Served(s)
  BY DEF DiscoveryInv, TypeOK, FetchedAnnouncementsServed
<1>2. Len(events) \in Nat /\ Len(events') \in Nat
  BY <1>1
<1>3. EventWorkerInv(s)'
  <2>1. \A k \in 1 .. Len(eventWorker[s].messages) :
            eventWorker[s].messages[k] \in 1 .. Len(events')
    BY <1>1, <1>2 DEF EventWorkerInv, KafkaGrows
  <2>2. ASSUME eventWorker[s].topic # NoTopic
        PROVE  /\ eventWorker[s].messages # <<>>
               /\ eventWorker[s].topic = events'[Head(eventWorker[s].messages)]
    <3>1. Head(eventWorker[s].messages) \in 1 .. Len(events)
      <4>1. eventWorker[s].messages \in Seq(Nat)
        BY <1>1 DEF EventWorkerState
      <4> QED
        BY <1>1, <2>2, <4>1, HeadAndTail DEF EventWorkerInv
    <3> QED
      BY <1>1, <2>2, <3>1 DEF EventWorkerInv, KafkaGrows
  <2> QED
    BY <1>1, <1>2, <2>1, <2>2
       DEF EventWorkerInv, EventWorkerState, KafkaGrows, serviceVars
<1>4. WorkersInv(s)' /\ OrphanInv(s)'
  BY <1>1 DEF WorkersInv, OrphanInv, Closing, KafkaGrows, serviceVars
<1>5. Served(s)'
  <2>1. \A i \in eventWorker[s].joined + 1 .. eventWorker[s].pos :
            events'[i] = events[i]
    <3>1. /\ eventWorker[s].joined \in Nat
          /\ eventWorker[s].pos \in Nat
          /\ eventWorker[s].pos <= Len(events)
      BY <1>1 DEF EventWorkerInv, EventWorkerState
    <3>2. \A i \in eventWorker[s].joined + 1 .. eventWorker[s].pos :
              i \in 1 .. Len(events)
      BY <1>2, <3>1
    <3> QED
      BY <3>2 DEF KafkaGrows
  <2> QED
    BY <1>1, <2>1 DEF Served, Closing, serviceVars
<1> QED
  BY <1>3, <1>4, <1>5 DEF ServiceInv
-----------------------------------------------------------------------------
(* The producers. *)

(* A step of a call changes the records of its process and of itself; what *)
(* is to be shown concerns these two and the broker.                       *)
LEMMA CallStep ==
    ASSUME DiscoveryInv, UNCHANGED serviceVars,
           NEW p \in Process, NEW h \in Call,
           NEW r \in ProducerState, NEW c \in CallState,
           producer' = [producer EXCEPT ![p] = r],
           call' = [call EXCEPT ![p][h] = c],
           r.metadata \cup r.topics \subseteq topics',
           c.pc # "idle" => c.topic \in Topic,
           c.pc \in {"add", "append", "event", "send"} => c.topic \in topics',
           c.seen \subseteq topics',
           topics \subseteq topics', topics' \subseteq Topic,
           stored' \subseteq Topic,
           \/ UNCHANGED events
           \/ \E t \in topics : Announce(t)
    PROVE  TypeOK' /\ KnownTopicsInv' /\ KafkaGrows
<1> USE DEF DiscoveryInv
<1>1. /\ events' \in Seq(Topic)
      /\ Len(events) <= Len(events')
      /\ \A i \in 1 .. Len(events) : events'[i] = events[i]
      /\ \A i \in 1 .. Len(events') : events'[i] \in topics'
  <2>1. CASE UNCHANGED events
    BY <2>1 DEF TypeOK, KnownTopicsInv
  <2>2. CASE \E t \in topics : Announce(t)
    BY <2>2, AnnounceGrows DEF KnownTopicsInv
  <2> QED
    BY <2>1, <2>2
<1>2. KafkaGrows
  BY <1>1 DEF KafkaGrows
<1>3. TypeOK'
  BY <1>1 DEF TypeOK, serviceVars
<1>4. KnownTopicsInv'
  <2>1. ASSUME NEW q \in Process
        PROVE  (producer[q].metadata \cup producer[q].topics \subseteq topics)'
    BY DEF TypeOK, KnownTopicsInv
  <2>2. ASSUME NEW q \in Process, NEW g \in Call PROVE CallInv(q, g)'
    <3>1. call'[q][g] = IF q = p /\ g = h THEN c ELSE call[q][g]
      BY DEF TypeOK
    <3> QED
      BY <3>1 DEF KnownTopicsInv, CallInv
  <2> QED
    BY <1>1, <2>1, <2>2 DEF KnownTopicsInv
<1> QED
  BY <1>2, <1>3, <1>4

(* Every step of a producer keeps the types, what is known of topics, and  *)
(* the broker's state, which only grows.                                   *)
LEMMA ProducerStep ==
    ASSUME DiscoveryInv, ProducerNext, UNCHANGED serviceVars
    PROVE  TypeOK' /\ KnownTopicsInv' /\ KafkaGrows
<1> USE DEF DiscoveryInv
<1>1. PICK p \in Process :
        \/ StartProducer(p) \/ CloseProducer(p) \/ CrashProducer(p)
        \/ RefreshMetadata(p)
        \/ \E h \in Call : \/ Produce(p, h)
                           \/ createTopicIfNotExist(p, h)
                           \/ sendLogs(p, h)
                           \/ sendLogsFails(p, h)
  BY DEF ProducerNext
<1>2. /\ producer[p] \in ProducerState
      /\ \A h \in Call : call[p][h] \in CallState
      /\ topics \subseteq Topic /\ events \in Seq(Topic)
      /\ Len(events) \in Nat
  BY DEF TypeOK
<1>3. CASE StartProducer(p) \/ CloseProducer(p) \/ RefreshMetadata(p)
  <2>1. /\ UNCHANGED <<call, kafka>>
        /\ \E r \in ProducerState :
              /\ r.metadata \cup r.topics \subseteq topics
              /\ producer' = [producer EXCEPT ![p] = r]
    <3>1. CASE StartProducer(p)
      BY <1>2, <3>1 DEF StartProducer, ProducerState
    <3>2. CASE CloseProducer(p)
      BY <1>2, <3>2 DEF CloseProducer, ProducerState, Stopped
    <3>3. CASE RefreshMetadata(p)
      <4>1. [producer[p] EXCEPT !.metadata = topics] \in ProducerState
        BY <1>2 DEF ProducerState
      <4> QED
        BY <1>2, <3>3, <4>1 DEF RefreshMetadata, ProducerState, KnownTopicsInv
    <3> QED
      BY <1>3, <3>1, <3>2, <3>3
  <2> QED
    BY <1>2, <2>1 DEF TypeOK, KnownTopicsInv, CallInv, KafkaGrows, kafka,
                      serviceVars
<1>4. CASE CrashProducer(p)
  BY <1>2, <1>4 DEF CrashProducer, Stopped, Idle, ProducerState, CallState,
                    TypeOK, KnownTopicsInv, CallInv, KafkaGrows, kafka,
                    serviceVars
<1>5. ASSUME NEW h \in Call,
             \/ Produce(p, h) \/ createTopicIfNotExist(p, h)
             \/ sendLogs(p, h) \/ sendLogsFails(p, h)
      PROVE  TypeOK' /\ KnownTopicsInv' /\ KafkaGrows
  <2> DEFINE c == call[p][h]
  <2>1. /\ c \in CallState /\ CallInv(p, h)
        /\ producer[p].metadata \cup producer[p].topics \subseteq topics
        /\ producer = [producer EXCEPT ![p] = producer[p]]
        /\ call = [call EXCEPT ![p][h] = c]
        /\ stored \subseteq Topic
    BY <1>2 DEF TypeOK, KnownTopicsInv
  <2>2. Idle \in CallState /\ Idle.pc = "idle" /\ Idle.seen = {}
    BY DEF Idle, CallState
  <2>3. CASE Produce(p, h)
    <3>1. PICK t \in Topic, n \in BatchSizes :
            call' = [call EXCEPT ![p][h] =
                      [pc |-> "exist", topic |-> t, left |-> n, seen |-> {}]]
      BY <2>3 DEF Produce
    <3> DEFINE d == [pc |-> "exist", topic |-> t, left |-> n, seen |-> {}]
    <3>2. /\ d \in CallState /\ d.topic \in Topic /\ d.seen = {} /\ d.pc = "exist"
          /\ call' = [call EXCEPT ![p][h] = d]
      BY <3>1, BatchAssumption DEF CallState
    <3>3. producer' = producer /\ topics' = topics /\ events' = events
          /\ stored' = stored
      BY <2>3 DEF Produce, kafka
    <3> HIDE DEF d
    <3> QED
      BY <1>2, <2>1, <3>2, <3>3, CallStep
  <2>4. ASSUME NEW from, NEW otherwise,
               from \in {"exist", "again"},
               otherwise \in {"refresh", "create"},
               Search(p, h, from, otherwise)
        PROVE  TypeOK' /\ KnownTopicsInv' /\ KafkaGrows
    <3> DEFINE r == [producer[p] EXCEPT !.topics = ListedTopics(p)]
               d == [c EXCEPT !.pc = IF c.topic \in ListedTopics(p)
                                     THEN "send" ELSE otherwise]
    <3>1. ListedTopics(p) \subseteq topics
      BY <2>1 DEF ListedTopics
    <3>2. r \in ProducerState /\ r.metadata \cup r.topics \subseteq topics
      BY <1>2, <2>1, <3>1 DEF ProducerState
    <3>3. d \in CallState /\ d.topic = c.topic /\ d.seen = c.seen
          /\ (d.pc = "send" => c.topic \in topics)
          /\ d.pc \in {"send", "refresh", "create"}
      BY <2>1, <2>4, <3>1 DEF CallState
    <3>4. c.topic \in Topic
      BY <2>1, <2>4 DEF Search, CallInv
    <3>5. producer' = [producer EXCEPT ![p] = r] /\ call' = [call EXCEPT ![p][h] = d]
      BY <2>4 DEF Search, Step
    <3>6. topics' = topics /\ events' = events /\ stored' = stored
          /\ c.seen \subseteq topics
      BY <2>1, <2>4 DEF Search, kafka, CallInv
    <3> HIDE DEF r, d
    <3> QED
      BY <1>2, <2>1, <3>2, <3>3, <3>4, <3>5, <3>6, CallStep
  <2>5. CASE RefreshTopics(p, h)
    <3> DEFINE r == [producer[p] EXCEPT !.topics = producer[p].metadata]
               d == [c EXCEPT !.pc = "again"]
    <3>1. r \in ProducerState /\ r.metadata \cup r.topics \subseteq topics
      BY <1>2, <2>1 DEF ProducerState
    <3>2. d \in CallState /\ d.topic = c.topic /\ d.seen = c.seen /\ d.pc = "again"
      BY <2>1 DEF CallState
    <3>3. producer' = [producer EXCEPT ![p] = r] /\ call' = [call EXCEPT ![p][h] = d]
      BY <2>5 DEF RefreshTopics, Step
    <3>4. topics' = topics /\ events' = events /\ stored' = stored
          /\ c.seen \subseteq topics /\ c.topic \in Topic
      BY <2>1, <2>5 DEF RefreshTopics, kafka, CallInv
    <3> HIDE DEF r, d
    <3> QED
      BY <1>2, <2>1, <3>1, <3>2, <3>3, <3>4, CallStep
  <2>6. CASE CreateTopic(p, h) \/ CreateTopicFails(p, h)
    <3>1. PICK known \in {producer[p].metadata, topics} :
              producer' = [producer EXCEPT ![p].metadata = known]
      BY <2>6 DEF CreateTopic, CreateTopicFails, MetadataRefreshed
    <3> DEFINE r == [producer[p] EXCEPT !.metadata = known]
               d == [c EXCEPT !.pc = "add"]
    <3>2. c.topic \in Topic
      BY <2>1, <2>6 DEF CreateTopic, CreateTopicFails, CallInv
    <3>3. topics \subseteq topics' /\ topics' \subseteq Topic
      BY <1>2, <2>6, <3>2 DEF CreateTopic, CreateTopicFails
    <3>4. r \in ProducerState /\ r.metadata \cup r.topics \subseteq topics'
      BY <1>2, <2>1, <3>3 DEF ProducerState
    <3>5. producer' = [producer EXCEPT ![p] = r]
      BY <3>1
    <3>6. CASE CreateTopic(p, h)
      <4>1. d \in CallState /\ d.topic = c.topic /\ d.seen = c.seen /\ d.pc = "add"
        BY <2>1 DEF CallState
      <4>2. call' = [call EXCEPT ![p][h] = d] /\ c.topic \in topics'
        BY <3>6 DEF CreateTopic, Step
      <4> QED
        BY <1>2, <2>1, <3>2, <3>3, <3>4, <3>5, <3>6, <4>1, <4>2, CallStep
           DEF CreateTopic, CallInv
    <3>7. CASE CreateTopicFails(p, h)
      BY <1>2, <2>1, <2>2, <3>3, <3>4, <3>5, <3>7, CallStep DEF CreateTopicFails
    <3> QED
      BY <2>6, <3>6, <3>7
  <2>7. CASE AddTopicRead(p, h)
    <3> DEFINE d == [c EXCEPT !.pc = "append", !.seen = producer[p].topics]
    <3>1. d \in CallState /\ d.topic = c.topic /\ d.seen = producer[p].topics
          /\ d.pc = "append"
      BY <1>2, <2>1 DEF CallState, ProducerState
    <3>2. call' = [call EXCEPT ![p][h] = d] /\ c.topic \in topics
      <4>1. call' = [call EXCEPT ![p][h].pc = "append",
                                 ![p][h].seen = producer[p].topics]
        BY <2>7 DEF AddTopicRead
      <4>2. call' = [call EXCEPT ![p][h] = d]
        BY <4>1 DEF TypeOK, CallState
      <4> QED
        BY <2>1, <2>7, <4>2 DEF AddTopicRead, CallInv
    <3>3. producer' = producer /\ topics' = topics /\ events' = events
          /\ stored' = stored
      BY <2>7 DEF AddTopicRead, kafka
    <3> HIDE DEF d
    <3> QED
      BY <1>2, <2>1, <3>1, <3>2, <3>3, CallStep
  <2>8. CASE AddTopic(p, h)
    <3> DEFINE r == [producer[p] EXCEPT !.topics = c.seen \cup {c.topic}]
               d == [c EXCEPT !.pc = "event", !.seen = {}]
    <3>1. c.topic \in topics /\ c.seen \subseteq topics
      BY <2>1, <2>8 DEF AddTopic, CallInv
    <3>2. r \in ProducerState /\ r.metadata \cup r.topics \subseteq topics
      BY <1>2, <2>1, <3>1 DEF ProducerState
    <3>3. d \in CallState /\ d.topic = c.topic /\ d.seen = {} /\ d.pc = "event"
      BY <2>1 DEF CallState
    <3>4. producer' = [producer EXCEPT ![p] = r] /\ call' = [call EXCEPT ![p][h] = d]
      BY <2>8 DEF AddTopic
    <3>5. topics' = topics /\ events' = events /\ stored' = stored
      BY <2>8 DEF AddTopic, kafka
    <3> HIDE DEF r, d
    <3> QED
      BY <1>2, <2>1, <3>1, <3>2, <3>3, <3>4, <3>5, CallStep
  <2>9. CASE sendCreateTopicEvents(p, h)
    <3> DEFINE d == [c EXCEPT !.pc = "send"]
    <3>1. d \in CallState /\ d.topic = c.topic /\ d.seen = c.seen /\ d.pc = "send"
      BY <2>1 DEF CallState
    <3>2. call' = [call EXCEPT ![p][h] = d] /\ c.topic \in topics
      BY <2>1, <2>9 DEF sendCreateTopicEvents, Step, CallInv
    <3>3. producer' = producer /\ topics' = topics /\ Announce(c.topic)
          /\ stored' = stored /\ c.seen \subseteq topics
      BY <2>1, <2>9 DEF sendCreateTopicEvents, CallInv
    <3> HIDE DEF d
    <3> QED
      BY <1>2, <2>1, <3>1, <3>2, <3>3, CallStep
  <2>10. CASE sendCreateTopicEventsFails(p, h)
    <3>1. c.topic \in topics
      BY <2>1, <2>10 DEF sendCreateTopicEventsFails, CallInv
    <3> QED
      BY <1>2, <2>1, <2>2, <2>10, <3>1, CallStep DEF sendCreateTopicEventsFails
  <2>11. CASE sendLogs(p, h) \/ sendLogsFails(p, h)
    <3> DEFINE d == [c EXCEPT !.pc = "exist", !.left = c.left - 1]
    <3>1. /\ c.topic \in topics /\ c.seen \subseteq topics
          /\ stored' \subseteq Topic
          /\ producer' = producer /\ topics' = topics /\ events' = events
      BY <1>2, <2>1, <2>11 DEF sendLogs, sendLogsFails, CallInv
    <3>2. CASE call' = [call EXCEPT ![p][h] = Idle]
      BY <1>2, <2>1, <2>2, <3>1, <3>2, CallStep
    <3>3. CASE /\ c.left > 1
               /\ call' = [call EXCEPT ![p][h].pc = "exist",
                                       ![p][h].left = @ - 1]
      <4>1. c.left \in Nat /\ c.left - 1 \in Nat
        BY <2>1, <3>3 DEF CallState
      <4>2. d \in CallState /\ d.topic = c.topic /\ d.seen = c.seen /\ d.pc = "exist"
        BY <2>1, <4>1 DEF CallState
      <4>3. call' = [call EXCEPT ![p][h] = d]
        BY <3>3 DEF TypeOK, CallState
      <4> HIDE DEF d
      <4> QED
        BY <1>2, <2>1, <3>1, <4>2, <4>3, CallStep
    <3> QED
      BY <2>11, <3>2, <3>3 DEF sendLogs, sendLogsFails
  <2> QED
    BY <1>5, <2>3, <2>4, <2>5, <2>6, <2>7, <2>8, <2>9, <2>10, <2>11
       DEF createTopicIfNotExist, Exist
<1> QED
  BY <1>1, <1>3, <1>4, <1>5

-----------------------------------------------------------------------------
(* The services. *)

(* What is to be shown of the new records of a service. *)
EventWorkerOK(e) ==
    /\ e.pos <= Len(events)
    /\ e.offset <= Len(events)
    /\ e.marked <= Len(events)
    /\ \A k \in 1 .. Len(e.messages) : e.messages[k] \in 1 .. Len(events)
    /\ e.topic # NoTopic => /\ e.messages # <<>>
                            /\ e.topic = events[Head(e.messages)]

Mapped(w) == {t \in Topic : w[t] # "none"}

Busy(c) == \E k \in Closer : c[k].pc # "idle"

WorkersOK(v, w, c, e) ==
    /\ v.found \subseteq topics
    /\ \A t \in Topic : w[t] # "none" => t \in topics
    /\ \A k \in Closer : c[k].left \subseteq Mapped(w)
    /\ e.session \in {"joining", "live"} =>
          Busy(c) \/ \A t \in Topic : w[t] # "stopped"
    /\ e.session = "none" <=> v.pc \in {"down", "admin"}
    /\ e.session = "none" => /\ e.topic = NoTopic
                             /\ \A t \in Topic : w[t] = "none"
                             /\ ~Busy(c)

OrphansOK(v, w, o, e) ==
    /\ v.pc = "running" => v.found = {}
    /\ \A t \in Topic :
          /\ o[t] <= 1
          /\ w[t] = "none" => o[t] = 0
          /\ v.pc \notin {"loop", "running"} =>
                o[t] = 0 /\ (e.topic = t => w[t] = "none")
          /\ o[t] = 1 => t \notin v.found /\ e.topic # t
          /\ w[t] # "none" /\ v.pc = "loop" => ~(t \in v.found /\ e.topic = t)

ServedOK(w, c, e) ==
    e.session = "live" =>
        \A i \in e.joined + 1 .. e.pos :
            \/ w[events[i]] = "running"
            \/ \E k \in 1 .. Len(e.messages) : e.messages[k] = i
            \/ Busy(c)

(* A step of a service changes only its own records. *)
LEMMA OwnRecords ==
    ASSUME DiscoveryInv, UNCHANGED <<kafka, producerVars>>, NEW s \in Service,
           NEW v \in ServiceState,
           NEW w \in [Topic -> {"none", "running", "stopped"}],
           NEW o \in [Topic -> Nat],
           NEW c \in [Closer -> CloserState],
           NEW e \in EventWorkerState,
           service' = [service EXCEPT ![s] = v],
           workerMap' = [workerMap EXCEPT ![s] = w],
           orphan' = [orphan EXCEPT ![s] = o],
           closer' = [closer EXCEPT ![s] = c],
           eventWorker' = [eventWorker EXCEPT ![s] = e],
           failures' \in Nat,
           EventWorkerOK(e), WorkersOK(v, w, c, e), OrphansOK(v, w, o, e),
           ServedOK(w, c, e)
    PROVE  DiscoveryInv'
<1> USE DEF DiscoveryInv
<1>1. TypeOK'
  BY DEF TypeOK, kafka, producerVars
<1>2. KnownTopicsInv'
  BY DEF KnownTopicsInv, CallInv, kafka, producerVars
<1>3. ASSUME NEW q \in Service
      PROVE  EventWorkerInv(q)' /\ WorkersInv(q)' /\ OrphanInv(q)' /\ Served(q)'
  <2>1. CASE q = s
    <3>1. service'[s] = v /\ workerMap'[s] = w /\ orphan'[s] = o /\ closer'[s] = c
          /\ eventWorker'[s] = e /\ topics' = topics /\ events' = events
      BY DEF TypeOK, kafka
    <3>2. EventWorkerInv(s)'
      BY <3>1 DEF EventWorkerOK, EventWorkerInv
    <3>3. WorkersInv(s)'
      BY <3>1 DEF WorkersOK, WorkersInv, Mapped, Busy, Closing
    <3>4. OrphanInv(s)'
      BY <3>1 DEF OrphansOK, OrphanInv
    <3>5. Served(s)'
      BY <3>1 DEF ServedOK, Served, Busy, Closing
    <3> QED
      BY <2>1, <3>2, <3>3, <3>4, <3>5
  <2>2. CASE q # s
    <3>1. /\ service'[q] = service[q] /\ workerMap'[q] = workerMap[q]
          /\ orphan'[q] = orphan[q] /\ closer'[q] = closer[q]
          /\ eventWorker'[q] = eventWorker[q]
          /\ topics' = topics /\ events' = events
      BY <2>2 DEF TypeOK, kafka
    <3>2. EventWorkerInv(q) /\ WorkersInv(q) /\ OrphanInv(q) /\ Served(q)
      BY DEF FetchedAnnouncementsServed
    <3> QED
      BY <3>1, <3>2 DEF EventWorkerInv, WorkersInv, OrphanInv, Served, Closing
  <2> QED
    BY <2>1, <2>2
<1> QED
  BY <1>1, <1>2, <1>3 DEF FetchedAnnouncementsServed

(* The invariant read as a statement about the records of one service. *)
LEMMA RecordsOK ==
    ASSUME DiscoveryInv, NEW s \in Service
    PROVE  /\ service[s] \in ServiceState
           /\ workerMap[s] \in [Topic -> {"none", "running", "stopped"}]
           /\ orphan[s] \in [Topic -> Nat]
           /\ closer[s] \in [Closer -> CloserState]
           /\ eventWorker[s] \in EventWorkerState
           /\ service = [service EXCEPT ![s] = service[s]]
           /\ workerMap = [workerMap EXCEPT ![s] = workerMap[s]]
           /\ orphan = [orphan EXCEPT ![s] = orphan[s]]
           /\ closer = [closer EXCEPT ![s] = closer[s]]
           /\ eventWorker = [eventWorker EXCEPT ![s] = eventWorker[s]]
           /\ failures \in Nat
           /\ topics \subseteq Topic /\ events \in Seq(Topic)
           /\ Len(events) \in Nat
           /\ \A i \in 1 .. Len(events) : events[i] \in topics
           /\ EventWorkerOK(eventWorker[s])
           /\ WorkersOK(service[s], workerMap[s], closer[s], eventWorker[s])
           /\ OrphansOK(service[s], workerMap[s], orphan[s], eventWorker[s])
           /\ ServedOK(workerMap[s], closer[s], eventWorker[s])
<1> USE DEF DiscoveryInv
<1>1. EventWorkerOK(eventWorker[s])
  BY DEF EventWorkerInv, EventWorkerOK
<1>2. WorkersOK(service[s], workerMap[s], closer[s], eventWorker[s])
  BY DEF WorkersInv, WorkersOK, Mapped, Busy, Closing
<1>3. OrphansOK(service[s], workerMap[s], orphan[s], eventWorker[s])
  BY DEF OrphanInv, OrphansOK
<1>4. ServedOK(workerMap[s], closer[s], eventWorker[s])
  BY DEF FetchedAnnouncementsServed, Served, ServedOK, Busy, Closing
<1> QED
  BY <1>1, <1>2, <1>3, <1>4 DEF TypeOK, KnownTopicsInv

(* A step that changes nothing but where Start is. *)
LEMMA ServiceOnly ==
    ASSUME DiscoveryInv, UNCHANGED <<kafka, producerVars>>, NEW s \in Service,
           NEW v \in ServiceState,
           service' = [service EXCEPT ![s] = v],
           UNCHANGED <<workerMap, orphan, closer, eventWorker, failures>>,
           WorkersOK(v, workerMap[s], closer[s], eventWorker[s]),
           OrphansOK(v, workerMap[s], orphan[s], eventWorker[s])
    PROVE  DiscoveryInv'
<1>1. /\ workerMap' = [workerMap EXCEPT ![s] = workerMap[s]]
      /\ orphan' = [orphan EXCEPT ![s] = orphan[s]]
      /\ closer' = [closer EXCEPT ![s] = closer[s]]
      /\ eventWorker' = [eventWorker EXCEPT ![s] = eventWorker[s]]
      /\ failures' \in Nat
  BY RecordsOK
<1>2. /\ workerMap[s] \in [Topic -> {"none", "running", "stopped"}]
      /\ orphan[s] \in [Topic -> Nat]
      /\ closer[s] \in [Closer -> CloserState]
      /\ eventWorker[s] \in EventWorkerState
      /\ EventWorkerOK(eventWorker[s])
      /\ ServedOK(workerMap[s], closer[s], eventWorker[s])
  BY RecordsOK
<1> QED
  BY <1>1, <1>2, OwnRecords

(* The end of a process, and the steps of Start up to its loop. *)
LEMMA StartupKeeps ==
    ASSUME DiscoveryInv, UNCHANGED producerVars, NEW s \in Service,
           \/ EndService(s) \/ initAdmin(s) \/ initNewTopicWorker(s)
           \/ adminTopics(s) \/ StartReturn(s)
    PROVE  DiscoveryInv'
<1>1. UNCHANGED kafka
  BY DEF EndService, initAdmin, initNewTopicWorker, adminTopics, StartReturn
<1> DEFINE nobody == [t \in Topic |-> "none"]
           nothing == [t \in Topic |-> 0]
           idle == [k \in Closer |-> NotClosing]
<1>2. /\ NoEventWorker \in EventWorkerState
      /\ EventWorkerOK(NoEventWorker)
      /\ nobody \in [Topic -> {"none", "running", "stopped"}]
      /\ nothing \in [Topic -> Nat]
      /\ idle \in [Closer -> CloserState]
  BY RecordsOK DEF NoEventWorker, EventWorkerState, EventWorkerOK, NotClosing,
                   CloserState
<1>3. CASE EndService(s)
  <2>1. Down \in ServiceState
    BY DEF Down, ServiceState
  <2>2. /\ WorkersOK(Down, nobody, idle, NoEventWorker)
        /\ OrphansOK(Down, nobody, nothing, NoEventWorker)
        /\ ServedOK(nobody, idle, NoEventWorker)
    BY TopicAssumption DEF Down, NoEventWorker, NotClosing, WorkersOK, OrphansOK,
                           ServedOK, Busy
  <2>3. /\ service' = [service EXCEPT ![s] = Down]
        /\ workerMap' = [workerMap EXCEPT ![s] = nobody]
        /\ orphan' = [orphan EXCEPT ![s] = nothing]
        /\ closer' = [closer EXCEPT ![s] = idle]
        /\ eventWorker' = [eventWorker EXCEPT ![s] = NoEventWorker]
        /\ failures' \in Nat
    BY <1>3, RecordsOK DEF EndService
  <2> HIDE DEF nobody, nothing, idle
  <2> QED
    BY <1>1, <1>2, <2>1, <2>2, <2>3, OwnRecords
<1>4. CASE initAdmin(s)
  <2> DEFINE v == [service[s] EXCEPT !.pc = "admin", !.found = topics]
  <2>1. v \in ServiceState /\ v.pc = "admin" /\ v.found = topics
    BY RecordsOK DEF ServiceState
  <2>2. service' = [service EXCEPT ![s] = v] /\ service[s].pc = "down"
    BY <1>4, RecordsOK DEF initAdmin, ServiceState
  <2> HIDE DEF v
  <2>3. WorkersOK(v, workerMap[s], closer[s], eventWorker[s])
    BY <2>1, <2>2, RecordsOK DEF WorkersOK
  <2>4. OrphansOK(v, workerMap[s], orphan[s], eventWorker[s])
    BY <2>1, <2>2, RecordsOK DEF OrphansOK
  <2>5. UNCHANGED <<workerMap, orphan, closer, eventWorker, failures>>
    BY <1>4 DEF initAdmin
  <2> QED
    BY <1>1, <2>1, <2>2, <2>3, <2>4, <2>5, ServiceOnly
<1>5. CASE initNewTopicWorker(s)
  <2> DEFINE v == [service[s] EXCEPT !.pc = "started"]
             e == [NoEventWorker EXCEPT !.session = "joining"]
  <2>1. v \in ServiceState /\ v.pc = "started" /\ v.found = service[s].found
    BY RecordsOK DEF ServiceState
  <2>2. /\ e \in EventWorkerState /\ e.session = "joining"
        /\ e.pos = 0 /\ e.offset = 0 /\ e.marked = 0
        /\ e.messages = <<>> /\ e.topic = NoTopic
    <3>1. e \in EventWorkerState
      BY <1>2 DEF EventWorkerState
    <3> QED
      BY <3>1 DEF NoEventWorker
  <2>3. /\ service' = [service EXCEPT ![s] = v] /\ service[s].pc = "admin"
        /\ eventWorker' = [eventWorker EXCEPT ![s] = e]
    BY <1>5, RecordsOK DEF initNewTopicWorker, ServiceState
  <2> HIDE DEF v, e
  <2>4. EventWorkerOK(e)
    BY <2>2, RecordsOK DEF EventWorkerOK
  <2>5. WorkersOK(v, workerMap[s], closer[s], e)
    BY <2>1, <2>2, <2>3, RecordsOK DEF WorkersOK
  <2>6. OrphansOK(v, workerMap[s], orphan[s], e)
    BY <2>1, <2>2, <2>3, RecordsOK, TopicAssumption DEF OrphansOK
  <2>7. ServedOK(workerMap[s], closer[s], e)
    BY <2>2 DEF ServedOK
  <2> QED
    BY <1>1, <1>5, <2>1, <2>2, <2>3, <2>4, <2>5, <2>6, <2>7, RecordsOK, OwnRecords
       DEF initNewTopicWorker
<1>6. CASE adminTopics(s)
  <2>1. PICK known \in SUBSET topics :
          service' = [service EXCEPT ![s].pc = "loop", ![s].found = known]
    <3>1. service[s].found \subseteq topics
      BY RecordsOK DEF WorkersOK
    <3>2. CASE service[s].adminClosed
      BY <1>6, <3>2 DEF adminTopics
    <3>3. CASE ~service[s].adminClosed
      BY <1>6, <3>1, <3>3 DEF adminTopics
    <3> QED
      BY <3>2, <3>3
  <2> DEFINE v == [service[s] EXCEPT !.pc = "loop", !.found = known]
  <2>2. v \in ServiceState /\ v.pc = "loop" /\ v.found = known
    BY <2>1, RecordsOK DEF ServiceState
  <2>3. service' = [service EXCEPT ![s] = v] /\ service[s].pc = "started"
    BY <1>6, <2>1, RecordsOK, ZenonT(60) DEF adminTopics, ServiceState
  <2> HIDE DEF v
  <2>4. WorkersOK(v, workerMap[s], closer[s], eventWorker[s])
    BY <2>1, <2>2, <2>3, RecordsOK DEF WorkersOK
  <2>5. OrphansOK(v, workerMap[s], orphan[s], eventWorker[s])
    BY <2>1, <2>2, <2>3, RecordsOK DEF OrphansOK
  <2>6. UNCHANGED <<workerMap, orphan, closer, eventWorker, failures>>
    BY <1>6 DEF adminTopics
  <2> QED
    BY <1>1, <2>2, <2>3, <2>4, <2>5, <2>6, ServiceOnly
<1>7. CASE StartReturn(s)
  <2> DEFINE v == [service[s] EXCEPT !.pc = "running"]
  <2>1. v \in ServiceState /\ v.pc = "running" /\ v.found = service[s].found
    BY RecordsOK DEF ServiceState
  <2>2. /\ service' = [service EXCEPT ![s] = v]
        /\ service[s].pc = "loop" /\ service[s].found = {}
    BY <1>7, RecordsOK DEF StartReturn, ServiceState
  <2> HIDE DEF v
  <2>3. WorkersOK(v, workerMap[s], closer[s], eventWorker[s])
    BY <2>1, <2>2, RecordsOK DEF WorkersOK
  <2>4. OrphansOK(v, workerMap[s], orphan[s], eventWorker[s])
    BY <2>1, <2>2, RecordsOK DEF OrphansOK
  <2>5. UNCHANGED <<workerMap, orphan, closer, eventWorker, failures>>
    BY <1>7 DEF StartReturn
  <2> QED
    BY <1>1, <2>1, <2>2, <2>3, <2>4, <2>5, ServiceOnly
<1> QED
  BY <1>3, <1>4, <1>5, <1>6, <1>7

(* A spawn maps a running worker, loses the one that ran, and is met by    *)
(* some of the calls of Close that are ranging over the map.               *)
LEMMA SpawnRecords ==
    ASSUME DiscoveryInv, NEW s \in Service, NEW t \in topics,
           spawnLogsWorker(s, t)
    PROVE  LET w == [workerMap[s] EXCEPT ![t] = "running"]
           IN  \E o \in [Topic -> Nat], c \in [Closer -> CloserState] :
                 /\ w \in [Topic -> {"none", "running", "stopped"}]
                 /\ workerMap' = [workerMap EXCEPT ![s] = w]
                 /\ orphan' = [orphan EXCEPT ![s] = o]
                 /\ closer' = [closer EXCEPT ![s] = c]
                 /\ w[t] = "running"
                 /\ \A u \in Topic :
                       u # t => w[u] = workerMap[s][u] /\ o[u] = orphan[s][u]
                 /\ o[t] = IF workerMap[s][t] = "running"
                           THEN orphan[s][t] + 1 ELSE orphan[s][t]
                 /\ \A k \in Closer : /\ c[k].pc = closer[s][k].pc
                                      /\ c[k].left \subseteq Mapped(w)
<1> DEFINE w == [workerMap[s] EXCEPT ![t] = "running"]
<1>1. t \in Topic
  BY RecordsOK
<1>2. /\ w \in [Topic -> {"none", "running", "stopped"}]
      /\ w[t] = "running"
      /\ \A u \in Topic : u # t => w[u] = workerMap[s][u]
  BY <1>1, RecordsOK
<1>3. workerMap' = [workerMap EXCEPT ![s] = w]
  BY RecordsOK DEF spawnLogsWorker
<1>4. \E o \in [Topic -> Nat] :
        /\ orphan' = [orphan EXCEPT ![s] = o]
        /\ \A u \in Topic : u # t => o[u] = orphan[s][u]
        /\ o[t] = IF workerMap[s][t] = "running"
                  THEN orphan[s][t] + 1 ELSE orphan[s][t]
  <2>1. CASE workerMap[s][t] = "running"
    <3> DEFINE o == [orphan[s] EXCEPT ![t] = orphan[s][t] + 1]
    <3>1. o \in [Topic -> Nat] /\ o[t] = orphan[s][t] + 1
      BY <1>1, RecordsOK
    <3>2. orphan' = [orphan EXCEPT ![s] = o]
      BY <2>1, RecordsOK DEF spawnLogsWorker
    <3>3. \A u \in Topic : u # t => o[u] = orphan[s][u]
      BY RecordsOK
    <3> QED
      BY <2>1, <3>1, <3>2, <3>3
  <2>2. CASE workerMap[s][t] # "running"
    BY <2>2, RecordsOK DEF spawnLogsWorker
  <2> QED
    BY <2>1, <2>2
<1>5. Mapped(workerMap[s]) \subseteq Mapped(w) /\ t \in Mapped(w)
  BY <1>1, <1>2 DEF Mapped
<1>6. \E c \in [Closer -> CloserState] :
        /\ closer' = [closer EXCEPT ![s] = c]
        /\ \A k \in Closer : /\ c[k].pc = closer[s][k].pc
                             /\ c[k].left \subseteq Mapped(w)
  <2>1. /\ closer[s] \in [Closer -> CloserState]
        /\ \A k \in Closer : closer[s][k].left \subseteq Mapped(workerMap[s])
        /\ topics \subseteq Topic
    BY RecordsOK DEF WorkersOK
  <2>2. CASE UNCHANGED closer
    BY <1>5, <2>1, <2>2, RecordsOK
  <2>3. CASE MeetNewTopic(s, t)
    <3>1. PICK K : closer' = [closer EXCEPT ![s] =
                     [k \in Closer |->
                        IF k \in K
                        THEN [closer[s][k] EXCEPT !.left = @ \cup {t}]
                        ELSE closer[s][k]]]
      BY <2>3 DEF MeetNewTopic
    <3> DEFINE c == [k \in Closer |->
                       IF k \in K
                       THEN [closer[s][k] EXCEPT !.left = closer[s][k].left \cup {t}]
                       ELSE closer[s][k]]
    <3>2. ASSUME NEW k \in Closer
          PROVE  /\ c[k] \in CloserState
                 /\ c[k].pc = closer[s][k].pc
                 /\ c[k].left \subseteq Mapped(w)
      BY <1>1, <1>5, <2>1 DEF CloserState
    <3>3. c \in [Closer -> CloserState]
      BY <3>2
    <3>4. closer' = [closer EXCEPT ![s] = c]
      BY <3>1
    <3> HIDE DEF c
    <3> QED
      BY <3>2, <3>3, <3>4
  <2> QED
    BY <2>2, <2>3 DEF spawnLogsWorker
<1>7. PICK o \in [Topic -> Nat] :
        /\ orphan' = [orphan EXCEPT ![s] = o]
        /\ \A u \in Topic : u # t => o[u] = orphan[s][u]
        /\ o[t] = IF workerMap[s][t] = "running"
                  THEN orphan[s][t] + 1 ELSE orphan[s][t]
  BY <1>4
<1>8. PICK c \in [Closer -> CloserState] :
        /\ closer' = [closer EXCEPT ![s] = c]
        /\ \A k \in Closer : /\ c[k].pc = closer[s][k].pc
                             /\ c[k].left \subseteq Mapped(w)
  BY <1>6
<1> SUFFICES /\ w \in [Topic -> {"none", "running", "stopped"}]
             /\ workerMap' = [workerMap EXCEPT ![s] = w]
             /\ orphan' = [orphan EXCEPT ![s] = o]
             /\ closer' = [closer EXCEPT ![s] = c]
             /\ w[t] = "running"
             /\ \A u \in Topic :
                   u # t => w[u] = workerMap[s][u] /\ o[u] = orphan[s][u]
             /\ o[t] = IF workerMap[s][t] = "running"
                       THEN orphan[s][t] + 1 ELSE orphan[s][t]
             /\ \A k \in Closer : /\ c[k].pc = closer[s][k].pc
                                  /\ c[k].left \subseteq Mapped(w)
  BY Zenon
<1> HIDE DEF w
<1> QED
  BY <1>2, <1>3, <1>7, <1>8

(* The new worker takes no announcement away from the others. *)
LEMMA SpawnServes ==
    ASSUME DiscoveryInv, NEW s \in Service, NEW t, NEW w, NEW c,
           w[t] = "running",
           \A u \in Topic : u # t => w[u] = workerMap[s][u],
           \A k \in Closer : c[k].pc = closer[s][k].pc
    PROVE  ServedOK(w, c, eventWorker[s])
<1> DEFINE e == eventWorker[s]
<1> SUFFICES ASSUME e.session = "live", NEW i \in e.joined + 1 .. e.pos
             PROVE  \/ w[events[i]] = "running"
                    \/ \E k \in 1 .. Len(e.messages) : e.messages[k] = i
                    \/ Busy(c)
  BY DEF ServedOK
<1>1. /\ e \in EventWorkerState /\ EventWorkerOK(e)
      /\ ServedOK(workerMap[s], closer[s], e)
      /\ events \in Seq(Topic) /\ Len(events) \in Nat
  BY RecordsOK
<1>2. i \in 1 .. Len(events)
  BY <1>1 DEF EventWorkerState, EventWorkerOK
<1>3. events[i] \in Topic
  BY <1>1, <1>2
<1>4. Busy(closer[s]) => Busy(c)
  BY DEF Busy
<1> QED
  BY <1>1, <1>3, <1>4 DEF ServedOK

(* A topic that Start spawns. *)
LEMMA StartSpawnKeeps ==
    ASSUME DiscoveryInv, UNCHANGED producerVars, NEW s \in Service,
           StartSpawn(s)
    PROVE  DiscoveryInv'
<1>1. PICK t \in service[s].found :
        /\ spawnLogsWorker(s, t)
        /\ service' = [service EXCEPT ![s].found = @ \ {t}]
  BY DEF StartSpawn
<1>2. t \in topics /\ t \in Topic
  BY RecordsOK DEF WorkersOK
<1> DEFINE v == [service[s] EXCEPT !.found = service[s].found \ {t}]
           w == [workerMap[s] EXCEPT ![t] = "running"]
<1>3. PICK o \in [Topic -> Nat], c \in [Closer -> CloserState] :
        /\ w \in [Topic -> {"none", "running", "stopped"}]
        /\ workerMap' = [workerMap EXCEPT ![s] = w]
        /\ orphan' = [orphan EXCEPT ![s] = o]
        /\ closer' = [closer EXCEPT ![s] = c]
        /\ w[t] = "running"
        /\ \A u \in Topic :
              u # t => w[u] = workerMap[s][u] /\ o[u] = orphan[s][u]
        /\ o[t] = IF workerMap[s][t] = "running"
                  THEN orphan[s][t] + 1 ELSE orphan[s][t]
        /\ \A k \in Closer : /\ c[k].pc = closer[s][k].pc
                             /\ c[k].left \subseteq Mapped(w)
  BY <1>1, <1>2, SpawnRecords
<1>4. /\ v \in ServiceState /\ v.pc = "loop"
      /\ v.found = service[s].found \ {t}
      /\ service[s].pc = "loop"
  BY RecordsOK DEF ServiceState, StartSpawn
<1>5. service' = [service EXCEPT ![s] = v]
  BY <1>1, RecordsOK DEF ServiceState
<1> HIDE DEF v, w
<1>6. WorkersOK(v, w, c, eventWorker[s])
  <2>1. WorkersOK(service[s], workerMap[s], closer[s], eventWorker[s])
    BY RecordsOK
  <2>2. \A u \in Topic : w[u] # "none" => u \in topics
    BY <1>2, <1>3, <2>1 DEF WorkersOK
  <2>3. Busy(closer[s]) <=> Busy(c)
    BY <1>3 DEF Busy
  <2> QED
    BY <1>3, <1>4, <2>1, <2>2, <2>3 DEF WorkersOK
<1>7. OrphansOK(v, w, o, eventWorker[s])
  <2>1. /\ OrphansOK(service[s], workerMap[s], orphan[s], eventWorker[s])
        /\ orphan[s] \in [Topic -> Nat]
        /\ workerMap[s] \in [Topic -> {"none", "running", "stopped"}]
    BY RecordsOK
  <2>2. /\ o[t] <= 1
        /\ o[t] = 1 => eventWorker[s].topic # t
    BY <1>1, <1>2, <1>3, <1>4, <2>1 DEF OrphansOK
  <2> QED
    BY <1>2, <1>3, <1>4, <2>1, <2>2 DEF OrphansOK
<1>8. ServedOK(w, c, eventWorker[s])
  BY <1>3, SpawnServes
<1>9. UNCHANGED <<eventWorker, failures, kafka>>
  BY DEF StartSpawn
<1> QED
  BY <1>3, <1>4, <1>5, <1>6, <1>7, <1>8, <1>9, RecordsOK, OwnRecords

(* A call of Close begins: it has mapped topics before it. *)
LEMMA CloseBegins ==
    ASSUME DiscoveryInv, NEW s \in Service, NEW k \in Closer, Close(s, k)
    PROVE  \E c \in [Closer -> CloserState] :
             /\ closer' = [closer EXCEPT ![s] = c]
             /\ Busy(c)
             /\ \A j \in Closer : c[j].left \subseteq Mapped(workerMap[s])
<1> DEFINE mapped == Mapped(workerMap[s])
           r == [pc |-> "workers", left |-> mapped]
           c == [closer[s] EXCEPT ![k] = r]
<1>1. /\ closer[s] \in [Closer -> CloserState]
      /\ \A j \in Closer : closer[s][j].left \subseteq Mapped(workerMap[s])
  BY RecordsOK DEF WorkersOK
<1>2. r \in CloserState /\ r.left = mapped /\ r.pc = "workers"
  BY DEF CloserState, Mapped
<1>3. closer' = [closer EXCEPT ![s] = c]
  BY RecordsOK DEF Close, Mapped
<1> HIDE DEF r
<1>4. /\ c \in [Closer -> CloserState] /\ c[k] = r
      /\ \A j \in Closer : j # k => c[j] = closer[s][j]
  BY <1>1, <1>2
<1> HIDE DEF c
<1>5. Busy(c)
  BY <1>2, <1>4 DEF Busy
<1>6. \A j \in Closer : c[j].left \subseteq Mapped(workerMap[s])
  BY <1>1, <1>2, <1>4
<1> QED
  BY <1>3, <1>4, <1>5, <1>6

(* Start's failed spawn, HaltAllWorker and the signal call Close. *)
LEMMA CloseCallKeeps ==
    ASSUME DiscoveryInv, UNCHANGED producerVars, NEW s \in Service,
           StartSpawnFails(s) \/ HaltAllWorker(s) \/ GracefullShutdown(s)
    PROVE  DiscoveryInv'
<1>1. /\ service[s] \in ServiceState
      /\ failures \in Nat
      /\ WorkersOK(service[s], workerMap[s], closer[s], eventWorker[s])
      /\ OrphansOK(service[s], workerMap[s], orphan[s], eventWorker[s])
  BY RecordsOK
<1>2. service[s].pc \notin {"down", "admin"}
  <2>1. CASE StartSpawnFails(s)
    BY <2>1 DEF StartSpawnFails
  <2>2. CASE HaltAllWorker(s)
    BY <1>1, <2>2 DEF HaltAllWorker, WorkersOK
  <2>3. CASE GracefullShutdown(s)
    BY <2>3 DEF GracefullShutdown
  <2> QED
    BY <2>1, <2>2, <2>3
<1>3. \E v \in ServiceState :
        /\ service' = [service EXCEPT ![s] = v]
        /\ v.pc = service[s].pc
        /\ v.found \subseteq service[s].found
  <2>1. CASE StartSpawnFails(s)
    <3>1. PICK t \in service[s].found :
            service' = [service EXCEPT ![s].found = @ \ {t}]
      BY <2>1 DEF StartSpawnFails
    <3> DEFINE v == [service[s] EXCEPT !.found = service[s].found \ {t}]
    <3>2. v \in ServiceState /\ v.pc = service[s].pc
          /\ v.found \subseteq service[s].found
      BY <1>1 DEF ServiceState
    <3>3. service' = [service EXCEPT ![s] = v]
      BY <3>1, RecordsOK DEF ServiceState
    <3> QED
      BY <3>2, <3>3
  <2>2. CASE HaltAllWorker(s)
    <3> DEFINE v == [service[s] EXCEPT !.isHalt = TRUE]
    <3>1. v \in ServiceState /\ v.pc = service[s].pc
          /\ v.found \subseteq service[s].found
      BY <1>1 DEF ServiceState
    <3>2. service' = [service EXCEPT ![s] = v]
      BY <2>2, RecordsOK DEF HaltAllWorker, ServiceState
    <3> QED
      BY <3>1, <3>2
  <2>3. CASE GracefullShutdown(s)
    BY <1>1, <2>3, RecordsOK DEF GracefullShutdown
  <2> QED
    BY <2>1, <2>2, <2>3
<1>4. PICK v \in ServiceState : /\ service' = [service EXCEPT ![s] = v]
                                /\ v.pc = service[s].pc
                                /\ v.found \subseteq service[s].found
  BY <1>3
<1>5. /\ \E k \in Closer : Close(s, k)
      /\ UNCHANGED <<workerMap, orphan, eventWorker, kafka>> /\ failures' \in Nat
  BY <1>1 DEF StartSpawnFails, HaltAllWorker, GracefullShutdown, Failure, Closer
<1>6. PICK c \in [Closer -> CloserState] :
        /\ closer' = [closer EXCEPT ![s] = c]
        /\ Busy(c)
        /\ \A j \in Closer : c[j].left \subseteq Mapped(workerMap[s])
  BY <1>5, CloseBegins
<1>7. WorkersOK(v, workerMap[s], c, eventWorker[s])
  BY <1>1, <1>2, <1>4, <1>6 DEF WorkersOK
<1>8. OrphansOK(v, workerMap[s], orphan[s], eventWorker[s])
  BY <1>1, <1>4 DEF OrphansOK
<1>9. ServedOK(workerMap[s], c, eventWorker[s])
  BY <1>6 DEF ServedOK
<1> QED
  BY <1>1, <1>4, <1>5, <1>6, <1>7, <1>8, <1>9, RecordsOK, OwnRecords

(* A call of Close stops a worker that is mapped, while it is under way;   *)
(* it returns only after it has ended the session.                         *)
LEMMA CloseStepKeeps ==
    ASSUME DiscoveryInv, UNCHANGED producerVars, NEW s \in Service,
           NEW k \in Closer, CloseStep(s, k)
    PROVE  DiscoveryInv'
<1> DEFINE e == eventWorker[s]
<1>1. /\ service[s] \in ServiceState
      /\ workerMap[s] \in [Topic -> {"none", "running", "stopped"}]
      /\ orphan[s] \in [Topic -> Nat]
      /\ closer[s] \in [Closer -> CloserState]
      /\ e \in EventWorkerState /\ EventWorkerOK(e)
      /\ WorkersOK(service[s], workerMap[s], closer[s], e)
      /\ OrphansOK(service[s], workerMap[s], orphan[s], e)
      /\ ServedOK(workerMap[s], closer[s], e)
      /\ topics \subseteq Topic /\ failures \in Nat /\ Len(events) \in Nat
  BY RecordsOK
<1>2. closer[s][k].pc # "idle" => Busy(closer[s]) /\ e.session # "none"
  BY <1>1 DEF WorkersOK, Busy
<1>3. CASE CloseWorker(s, k)
  <2>1. PICK t \in closer[s][k].left :
          /\ workerMap' = [workerMap EXCEPT ![s][t] = "stopped"]
          /\ closer' = [closer EXCEPT ![s][k].left = @ \ {t}]
    BY <1>3 DEF CloseWorker
  <2>2. /\ t \in topics /\ t \in Topic /\ workerMap[s][t] # "none"
        /\ closer[s][k].pc = "workers"
    BY <1>1, <1>3 DEF CloseWorker, WorkersOK, Mapped
  <2> DEFINE r == [closer[s][k] EXCEPT !.left = closer[s][k].left \ {t}]
             c == [closer[s] EXCEPT ![k] = r]
             w == [workerMap[s] EXCEPT ![t] = "stopped"]
  <2>3. r \in CloserState /\ r.pc = "workers" /\ r.left \subseteq closer[s][k].left
    BY <1>1, <2>2 DEF CloserState
  <2>4. /\ workerMap' = [workerMap EXCEPT ![s] = w]
        /\ closer' = [closer EXCEPT ![s] = c]
    BY <2>1, RecordsOK DEF CloserState
  <2> HIDE DEF r
  <2>5. /\ c \in [Closer -> CloserState] /\ c[k] = r
        /\ \A j \in Closer : j # k => c[j] = closer[s][j]
        /\ w \in [Topic -> {"none", "running", "stopped"}] /\ w[t] = "stopped"
        /\ \A u \in Topic : u # t => w[u] = workerMap[s][u]
    BY <1>1, <2>2, <2>3
  <2> HIDE DEF c, w
  <2>6. Busy(c)
    BY <2>3, <2>5 DEF Busy
  <2>7. Mapped(w) = Mapped(workerMap[s])
    BY <2>2, <2>5 DEF Mapped
  <2>8. WorkersOK(service[s], w, c, e)
    <3>1. \A u \in Topic : w[u] # "none" => u \in topics
      BY <1>1, <2>2, <2>5 DEF WorkersOK
    <3>2. \A j \in Closer : c[j].left \subseteq Mapped(w)
      BY <1>1, <2>3, <2>5, <2>7 DEF WorkersOK
    <3> QED
      BY <1>1, <1>2, <2>2, <2>6, <3>1, <3>2 DEF WorkersOK
  <2>9. OrphansOK(service[s], w, orphan[s], e)
    BY <1>1, <2>2, <2>5 DEF OrphansOK
  <2>10. ServedOK(w, c, e)
    BY <2>6 DEF ServedOK
  <2>11. /\ service' = [service EXCEPT ![s] = service[s]]
         /\ orphan' = [orphan EXCEPT ![s] = orphan[s]]
         /\ eventWorker' = [eventWorker EXCEPT ![s] = e]
         /\ failures' \in Nat /\ UNCHANGED kafka
    BY <1>1, <1>3, RecordsOK DEF CloseWorker
  <2> QED
    BY <1>1, <2>4, <2>5, <2>8, <2>9, <2>10, <2>11, OwnRecords
<1>4. CASE CloseAdmin(s, k)
  <2> DEFINE r == [closer[s][k] EXCEPT !.pc = "event"]
             c == [closer[s] EXCEPT ![k] = r]
             v == [service[s] EXCEPT !.adminClosed = TRUE]
  <2>1. closer[s][k].pc = "workers"
    BY <1>4 DEF CloseAdmin
  <2>2. r \in CloserState /\ r.pc = "event" /\ r.left = closer[s][k].left
    BY <1>1 DEF CloserState
  <2>3. v \in ServiceState /\ v.pc = service[s].pc /\ v.found = service[s].found
    BY <1>1 DEF ServiceState
  <2>4. /\ service' = [service EXCEPT ![s] = v]
        /\ closer' = [closer EXCEPT ![s] = c]
    BY <1>4, RecordsOK DEF CloseAdmin, CloserState, ServiceState
  <2> HIDE DEF r, v
  <2>5. /\ c \in [Closer -> CloserState] /\ c[k] = r
        /\ \A j \in Closer : j # k => c[j] = closer[s][j]
    BY <1>1, <2>2
  <2> HIDE DEF c
  <2>6. Busy(c)
    BY <2>2, <2>5 DEF Busy
  <2>7. WorkersOK(v, workerMap[s], c, e)
    <3>1. \A j \in Closer : c[j].left \subseteq Mapped(workerMap[s])
      BY <1>1, <2>2, <2>5 DEF WorkersOK
    <3> QED
      BY <1>1, <1>2, <2>1, <2>3, <2>6, <3>1 DEF WorkersOK
  <2>8. OrphansOK(v, workerMap[s], orphan[s], e)
    BY <1>1, <2>3 DEF OrphansOK
  <2>9. ServedOK(workerMap[s], c, e)
    BY <2>6 DEF ServedOK
  <2>10. /\ workerMap' = [workerMap EXCEPT ![s] = workerMap[s]]
         /\ orphan' = [orphan EXCEPT ![s] = orphan[s]]
         /\ eventWorker' = [eventWorker EXCEPT ![s] = e]
         /\ failures' \in Nat /\ UNCHANGED kafka
    BY <1>1, <1>4, RecordsOK DEF CloseAdmin
  <2> QED
    BY <1>1, <2>3, <2>4, <2>5, <2>7, <2>8, <2>9, <2>10, OwnRecords
<1>5. CASE CloseEventWorker(s, k)
  <2> DEFINE c == [closer[s] EXCEPT ![k] = NotClosing]
             d == IF e.session \in {"live", "joining"}
                  THEN [WithoutSession(e) EXCEPT !.session = "stopping",
                                                 !.offset = 0]
                  ELSE e
  <2>1. closer[s][k].pc = "event" /\ e.session # "none"
    BY <1>2, <1>5 DEF CloseEventWorker
  <2>2. /\ closer' = [closer EXCEPT ![s] = c]
        /\ eventWorker' = [eventWorker EXCEPT ![s] = d]
    BY <1>5, RecordsOK DEF CloseEventWorker
  <2>3. /\ c \in [Closer -> CloserState]
        /\ \A j \in Closer : c[j].left \subseteq Mapped(workerMap[s])
    <3>1. NotClosing \in CloserState /\ NotClosing.left = {}
      BY DEF NotClosing, CloserState
    <3> QED
      BY <1>1, <3>1 DEF WorkersOK
  <2>4. /\ d \in EventWorkerState /\ d.session \in {"stopping", "stopped"}
        /\ d.messages = e.messages /\ d.topic = e.topic
        /\ d.pos \in {e.pos, 0} /\ d.offset \in {e.offset, 0}
        /\ d.marked \in {e.marked, 0}
    <3>1. CASE e.session \in {"live", "joining"}
      BY <1>1, <3>1 DEF EventWorkerState, WithoutSession
    <3>2. CASE e.session \notin {"live", "joining"}
      BY <1>1, <2>1, <3>2 DEF EventWorkerState
    <3> QED
      BY <3>1, <3>2
  <2> HIDE DEF c, d
  <2>5. EventWorkerOK(d)
    BY <1>1, <2>4 DEF EventWorkerOK
  <2>6. WorkersOK(service[s], workerMap[s], c, d)
    BY <1>1, <2>1, <2>3, <2>4 DEF WorkersOK
  <2>7. OrphansOK(service[s], workerMap[s], orphan[s], d)
    BY <1>1, <2>4 DEF OrphansOK
  <2>8. ServedOK(workerMap[s], c, d)
    BY <2>4 DEF ServedOK
  <2>9. /\ service' = [service EXCEPT ![s] = service[s]]
        /\ workerMap' = [workerMap EXCEPT ![s] = workerMap[s]]
        /\ orphan' = [orphan EXCEPT ![s] = orphan[s]]
        /\ failures' \in Nat /\ UNCHANGED kafka
    BY <1>1, <1>5, RecordsOK DEF CloseEventWorker
  <2> QED
    BY <1>1, <2>2, <2>3, <2>4, <2>5, <2>6, <2>7, <2>8, <2>9, OwnRecords
<1>6. CASE Exit(s)
  BY <1>6, StartupKeeps DEF Exit
<1> QED
  BY <1>3, <1>4, <1>5, <1>6 DEF CloseStep

-----------------------------------------------------------------------------
(* The event worker. *)

(* A step that changes nothing but the event worker. *)
LEMMA EventWorkerOnly ==
    ASSUME DiscoveryInv, UNCHANGED <<kafka, producerVars>>, NEW s \in Service,
           NEW e \in EventWorkerState,
           eventWorker' = [eventWorker EXCEPT ![s] = e],
           UNCHANGED <<service, workerMap, orphan, closer>>,
           failures' \in Nat,
           EventWorkerOK(e),
           WorkersOK(service[s], workerMap[s], closer[s], e),
           OrphansOK(service[s], workerMap[s], orphan[s], e),
           ServedOK(workerMap[s], closer[s], e)
    PROVE  DiscoveryInv'
<1>1. /\ service' = [service EXCEPT ![s] = service[s]]
      /\ workerMap' = [workerMap EXCEPT ![s] = workerMap[s]]
      /\ orphan' = [orphan EXCEPT ![s] = orphan[s]]
      /\ closer' = [closer EXCEPT ![s] = closer[s]]
  BY RecordsOK
<1>2. /\ service[s] \in ServiceState
      /\ workerMap[s] \in [Topic -> {"none", "running", "stopped"}]
      /\ orphan[s] \in [Topic -> Nat]
      /\ closer[s] \in [Closer -> CloserState]
  BY RecordsOK
<1> QED
  BY <1>1, <1>2, OwnRecords

(* The session comes and goes, and fetches announcements into the channel. *)
LEMMA SessionKeeps ==
    ASSUME DiscoveryInv, UNCHANGED producerVars, NEW s \in Service,
           EventJoin(s) \/ EventLose(s) \/ EventFetch(s) \/ EventStop(s)
    PROVE  DiscoveryInv'
<1> DEFINE e == eventWorker[s]
<1>1. /\ e \in EventWorkerState /\ EventWorkerOK(e)
      /\ WorkersOK(service[s], workerMap[s], closer[s], e)
      /\ OrphansOK(service[s], workerMap[s], orphan[s], e)
      /\ ServedOK(workerMap[s], closer[s], e)
      /\ Len(events) \in Nat /\ failures \in Nat
  BY RecordsOK
<1>2. /\ e.joined \in Nat /\ e.pos \in Nat /\ e.marked \in Nat /\ e.offset \in Nat
      /\ e.messages \in Seq(Nat)
  BY <1>1 DEF EventWorkerState
<1>3. UNCHANGED <<kafka, service, workerMap, orphan, closer>> /\ failures' \in Nat
  <2>1. CASE EventLose(s)
    <3>1. Failure /\ UNCHANGED <<kafka, service, workerMap, orphan, closer>>
      BY <2>1, Zenon DEF EventLose
    <3> QED
      BY <1>1, <3>1 DEF Failure
  <2>2. CASE ~EventLose(s)
    BY <1>1, <2>2 DEF EventJoin, EventFetch, EventStop
  <2> QED
    BY <2>1, <2>2
<1>4. CASE EventJoin(s)
  <2> DEFINE first == IF e.offset > 0 THEN e.offset ELSE Len(events)
             d == [e EXCEPT !.session = "live", !.joined = first,
                            !.pos = first, !.marked = first]
  <2>1. first \in Nat /\ first <= Len(events)
    BY <1>1, <1>2 DEF EventWorkerOK
  <2>2. eventWorker' = [eventWorker EXCEPT ![s] = d] /\ e.session = "joining"
    BY <1>4, RecordsOK, ZenonT(60) DEF EventJoin, EventWorkerState
  <2> HIDE DEF first
  <2>3. /\ d \in EventWorkerState /\ d.session = "live" /\ d.joined = first
        /\ d.pos = first /\ d.marked = first /\ d.offset = e.offset
        /\ d.messages = e.messages /\ d.topic = e.topic
    BY <1>1, <2>1 DEF EventWorkerState
  <2> HIDE DEF d
  <2>4. EventWorkerOK(d)
    BY <1>1, <2>1, <2>3 DEF EventWorkerOK
  <2>5. /\ WorkersOK(service[s], workerMap[s], closer[s], d)
        /\ OrphansOK(service[s], workerMap[s], orphan[s], d)
    BY <1>1, <2>2, <2>3 DEF WorkersOK, OrphansOK
  <2>6. ServedOK(workerMap[s], closer[s], d)
    <3>1. d.joined + 1 .. d.pos = {}
      BY <2>1, <2>3
    <3> QED
      BY <3>1 DEF ServedOK
  <2> QED
    BY <1>3, <2>2, <2>3, <2>4, <2>5, <2>6, EventWorkerOnly
<1>5. CASE EventLose(s)
  <2>1. PICK o \in {e.offset} \cup (e.joined + 1 .. e.marked) :
          eventWorker' = [eventWorker EXCEPT
                            ![s] = [WithoutSession(e) EXCEPT
                                      !.session = "joining", !.offset = o]]
    BY <1>5 DEF EventLose
  <2>2. o \in Nat /\ o <= Len(events)
    BY <1>1, <1>2, <2>1 DEF EventWorkerOK
  <2> DEFINE d == [WithoutSession(e) EXCEPT !.session = "joining", !.offset = o]
  <2>3. eventWorker' = [eventWorker EXCEPT ![s] = d] /\ e.session = "live"
    BY <1>5, <2>1 DEF EventLose
  <2>4. /\ d \in EventWorkerState /\ d.session = "joining"
        /\ d.pos = 0 /\ d.marked = 0 /\ d.offset = o
        /\ d.messages = e.messages /\ d.topic = e.topic
    BY <1>1, <2>2 DEF EventWorkerState, WithoutSession
  <2> HIDE DEF d
  <2>5. EventWorkerOK(d)
    BY <1>1, <2>2, <2>4 DEF EventWorkerOK
  <2>6. /\ WorkersOK(service[s], workerMap[s], closer[s], d)
        /\ OrphansOK(service[s], workerMap[s], orphan[s], d)
    BY <1>1, <2>3, <2>4 DEF WorkersOK, OrphansOK
  <2>7. ServedOK(workerMap[s], closer[s], d)
    BY <2>4 DEF ServedOK
  <2> QED
    BY <1>3, <2>3, <2>4, <2>5, <2>6, <2>7, EventWorkerOnly
<1>6. CASE EventFetch(s)
  <2> DEFINE m == Append(e.messages, e.pos + 1)
             d == [e EXCEPT !.pos = e.pos + 1, !.messages = m]
  <2>1. e.session = "live" /\ e.pos < Len(events)
    BY <1>6 DEF EventFetch
  <2>2. eventWorker' = [eventWorker EXCEPT ![s] = d]
    BY <1>6, RecordsOK DEF EventFetch, EventWorkerState
  <2>3. /\ m \in Seq(Nat) /\ Len(m) = Len(e.messages) + 1 /\ m # <<>>
        /\ Len(e.messages) \in Nat
        /\ \A k \in 1 .. Len(e.messages) : m[k] = e.messages[k]
        /\ m[Len(m)] = e.pos + 1
    BY <1>2, AppendLast
  <2>4. e.messages # <<>> => Head(m) = Head(e.messages)
    BY <1>2, <2>3, HeadAndTail
  <2> HIDE DEF m
  <2>5. /\ d \in EventWorkerState /\ d.session = "live" /\ d.joined = e.joined
        /\ d.pos = e.pos + 1 /\ d.marked = e.marked /\ d.offset = e.offset
        /\ d.messages = m /\ d.topic = e.topic
    <3>1. e.pos + 1 \in Nat
      BY <1>2
    <3> QED
      BY <1>1, <2>1, <2>3, <3>1 DEF EventWorkerState
  <2> HIDE DEF d
  <2>6. EventWorkerOK(d)
    <3>1. \A k \in 1 .. Len(m) : k = Len(m) \/ k \in 1 .. Len(e.messages)
      BY <2>3
    <3>2. e.pos + 1 \in 1 .. Len(events)
      BY <1>1, <1>2, <2>1
    <3>3. \A k \in 1 .. Len(m) : m[k] \in 1 .. Len(events)
      BY <1>1, <2>3, <3>1, <3>2 DEF EventWorkerOK
    <3>4. e.pos + 1 <= Len(events)
      BY <3>2, <1>1
    <3> HIDE DEF e
    <3> QED
      BY <1>1, <2>3, <2>4, <2>5, <3>3, <3>4 DEF EventWorkerOK
  <2>7. /\ WorkersOK(service[s], workerMap[s], closer[s], d)
        /\ OrphansOK(service[s], workerMap[s], orphan[s], d)
    BY <1>1, <2>1, <2>5 DEF WorkersOK, OrphansOK
  <2>8. ServedOK(workerMap[s], closer[s], d)
    <3> SUFFICES ASSUME NEW i \in e.joined + 1 .. e.pos + 1
                 PROVE  \/ workerMap[s][events[i]] = "running"
                        \/ \E k \in 1 .. Len(m) : m[k] = i
                        \/ Busy(closer[s])
      BY <2>5 DEF ServedOK
    <3>1. CASE i = e.pos + 1
      BY <2>3, <3>1, SMTT(30)
    <3>2. CASE i # e.pos + 1
      <4>1. i \in e.joined + 1 .. e.pos
        BY <1>2, <3>2
      <4>2. \/ workerMap[s][events[i]] = "running"
            \/ \E k \in 1 .. Len(e.messages) : e.messages[k] = i
            \/ Busy(closer[s])
        BY <1>1, <2>1, <4>1 DEF ServedOK
      <4>3. \A k \in 1 .. Len(e.messages) : k \in 1 .. Len(m)
        BY <2>3
      <4> QED
        BY <2>3, <4>2, <4>3
    <3> QED
      BY <3>1, <3>2
  <2> QED
    BY <1>3, <2>2, <2>5, <2>6, <2>7, <2>8, EventWorkerOnly
<1>7. CASE EventStop(s)
  <2> DEFINE d == [e EXCEPT !.session = "stopped"]
  <2>1. eventWorker' = [eventWorker EXCEPT ![s] = d] /\ e.session = "stopping"
    BY <1>7, RecordsOK DEF EventStop, EventWorkerState
  <2>2. /\ d \in EventWorkerState /\ d.session = "stopped"
        /\ d.pos = e.pos /\ d.marked = e.marked /\ d.offset = e.offset
        /\ d.messages = e.messages /\ d.topic = e.topic
    BY <1>1 DEF EventWorkerState
  <2> HIDE DEF d
  <2>3. EventWorkerOK(d)
    BY <1>1, <2>2 DEF EventWorkerOK
  <2>4. /\ WorkersOK(service[s], workerMap[s], closer[s], d)
        /\ OrphansOK(service[s], workerMap[s], orphan[s], d)
    BY <1>1, <2>1, <2>2 DEF WorkersOK, OrphansOK
  <2>5. ServedOK(workerMap[s], closer[s], d)
    BY <2>2 DEF ServedOK
  <2> QED
    BY <1>3, <2>1, <2>2, <2>3, <2>4, <2>5, EventWorkerOnly
<1> QED
  BY <1>4, <1>5, <1>6, <1>7

(* What onNewTopicEvent leaves when it is done with the oldest             *)
(* announcement: the rest of the channel, and the mark.                    *)
LEMMA OldestHandled ==
    ASSUME DiscoveryInv, NEW s \in Service, eventWorker[s].messages # <<>>
    PROVE  LET e == eventWorker[s]
               m == Tail(e.messages)
           IN  /\ Head(e.messages) \in 1 .. Len(events)
               /\ Head(e.messages) = e.messages[1]
               /\ m \in Seq(Nat)
               /\ \A k \in 1 .. Len(m) : m[k] \in 1 .. Len(events)
               /\ \A k \in 1 .. Len(e.messages) :
                     k = 1 \/ (k - 1 \in 1 .. Len(m) /\ m[k - 1] = e.messages[k])
               /\ Mark(e, Head(e.messages)) \in Nat
               /\ Mark(e, Head(e.messages)) <= Len(events)
<1> DEFINE e == eventWorker[s]
           m == Tail(e.messages)
<1>1. /\ e \in EventWorkerState /\ EventWorkerOK(e) /\ Len(events) \in Nat
  BY RecordsOK
<1>2. e.messages \in Seq(Nat) /\ e.marked \in Nat /\ e.marked <= Len(events)
  BY <1>1 DEF EventWorkerState, EventWorkerOK
<1>3. /\ Head(e.messages) = e.messages[1]
      /\ 1 \in 1 .. Len(e.messages)
      /\ m \in Seq(Nat)
      /\ Len(m) = Len(e.messages) - 1
      /\ \A k \in 1 .. Len(m) : m[k] = e.messages[k + 1]
      /\ \A k \in 1 .. Len(e.messages) : k = 1 \/ k - 1 \in 1 .. Len(m)
  BY <1>2, HeadAndTail
<1>4. Head(e.messages) \in 1 .. Len(events)
  BY <1>1, <1>3 DEF EventWorkerOK
<1>5. Len(e.messages) \in Nat /\ \A k \in 1 .. Len(m) : k + 1 \in 1 .. Len(e.messages)
  BY <1>2, <1>3
<1>6. \A k \in 1 .. Len(m) : m[k] \in 1 .. Len(events)
  BY <1>1, <1>3, <1>5 DEF EventWorkerOK
<1>7. ASSUME NEW k \in 1 .. Len(e.messages), k # 1
      PROVE  k - 1 \in 1 .. Len(m) /\ m[k - 1] = e.messages[k]
  <2>1. k - 1 \in 1 .. Len(m)
    BY <1>3, <1>7
  <2>2. (k - 1) + 1 = k
    BY <1>5
  <2> QED
    BY <1>3, <2>1, <2>2
<1>8. /\ Mark(e, Head(e.messages)) \in Nat
      /\ Mark(e, Head(e.messages)) <= Len(events)
  BY <1>1, <1>2, <1>4 DEF Mark
<1> QED
  BY <1>3, <1>4, <1>6, <1>7, <1>8

(* The oldest announcement leaves the channel, with a running worker or    *)
(* while a Close is under way: the others are still there.                 *)
LEMMA OthersServed ==
    ASSUME DiscoveryInv, NEW s \in Service, NEW w, NEW c, NEW d,
           eventWorker[s].messages # <<>>,
           eventWorker[s].session = "live",
           ServedOK(w, c, eventWorker[s]),
           Busy(c) \/ w[events[Head(eventWorker[s].messages)]] = "running",
           d.messages = Tail(eventWorker[s].messages),
           d.joined = eventWorker[s].joined, d.pos = eventWorker[s].pos
    PROVE  ServedOK(w, c, d)
<1> DEFINE e == eventWorker[s]
           m == Tail(e.messages)
<1> SUFFICES ASSUME NEW i \in e.joined + 1 .. e.pos
             PROVE  \/ w[events[i]] = "running"
                    \/ \E k \in 1 .. Len(m) : m[k] = i
                    \/ Busy(c)
  BY DEF ServedOK
<1>1. CASE \E k \in 1 .. Len(e.messages) : e.messages[k] = i
  <2>1. PICK k \in 1 .. Len(e.messages) : e.messages[k] = i
    BY <1>1
  <2>2. \/ k = 1 /\ Head(e.messages) = i
        \/ k - 1 \in 1 .. Len(m) /\ m[k - 1] = i
    BY <2>1, OldestHandled
  <2> QED
    BY <2>2
<1>2. CASE w[events[i]] = "running" \/ Busy(c)
  BY <1>2
<1> QED
  BY <1>1, <1>2 DEF ServedOK

(* onNewTopicEvent keeps the invariant, whichever way it goes. *)
LEMMA EventKeeps ==
    ASSUME DiscoveryInv, UNCHANGED producerVars, NEW s \in Service,
           onNewTopicEvent(s)
    PROVE  DiscoveryInv'
<1> DEFINE e == eventWorker[s]
           m == Tail(e.messages)
<1>1. /\ e \in EventWorkerState /\ EventWorkerOK(e)
      /\ service[s] \in ServiceState
      /\ workerMap[s] \in [Topic -> {"none", "running", "stopped"}]
      /\ orphan[s] \in [Topic -> Nat]
      /\ closer[s] \in [Closer -> CloserState]
      /\ WorkersOK(service[s], workerMap[s], closer[s], e)
      /\ OrphansOK(service[s], workerMap[s], orphan[s], e)
      /\ ServedOK(workerMap[s], closer[s], e)
      /\ events \in Seq(Topic) /\ Len(events) \in Nat /\ failures \in Nat
      /\ topics \subseteq Topic
      /\ \A i \in 1 .. Len(events) : events[i] \in topics
  BY RecordsOK
<1>2. e.messages # <<>>
  BY <1>1 DEF onNewTopicEvent, EventIgnore, EventNew, EventSpawn,
              EventSpawnFails, EventNext, EventWorkerOK
<1>3. /\ Head(e.messages) \in 1 .. Len(events)
      /\ m \in Seq(Nat)
      /\ \A k \in 1 .. Len(m) : m[k] \in 1 .. Len(events)
      /\ Mark(e, Head(e.messages)) \in Nat
      /\ Mark(e, Head(e.messages)) <= Len(events)
  BY <1>2, OldestHandled
<1>4. events[Head(e.messages)] \in topics
  BY <1>1, <1>3
<1> DEFINE d == [e EXCEPT !.topic = NoTopic, !.messages = m,
                          !.marked = Mark(e, Head(e.messages))]
<1>5. /\ d \in EventWorkerState /\ d.session = e.session
      /\ d.joined = e.joined /\ d.pos = e.pos /\ d.offset = e.offset
      /\ d.marked = Mark(e, Head(e.messages)) /\ d.messages = m
      /\ d.topic = NoTopic
  BY <1>1, <1>3 DEF EventWorkerState
<1>6. EventWorkerOK(d)
  <2> HIDE DEF d, m
  <2> QED
    BY <1>1, <1>3, <1>5 DEF EventWorkerOK
<1>7. CASE EventIgnore(s)
  <2>1. /\ UNCHANGED <<kafka, service, workerMap, orphan, closer, failures>>
        /\ e.session \in {"live", "joining", "stopping"}
        /\ workerMap[s][events[Head(e.messages)]] # "none"
        /\ e.topic = NoTopic
        /\ eventWorker' = [eventWorker EXCEPT
                             ![s].messages = m,
                             ![s].marked = Mark(e, Head(e.messages))]
    BY <1>7 DEF EventIgnore, EventNext
  <2>2. eventWorker' = [eventWorker EXCEPT ![s] = d]
    BY <1>1, <2>1, RecordsOK, ZenonT(60) DEF EventWorkerState
  <2> HIDE DEF d
  <2>3. /\ WorkersOK(service[s], workerMap[s], closer[s], d)
        /\ OrphansOK(service[s], workerMap[s], orphan[s], d)
    BY <1>1, <1>5, <2>1 DEF WorkersOK, OrphansOK
  <2>4. ServedOK(workerMap[s], closer[s], d)
    <3>1. CASE e.session = "live"
      <4>1. Busy(closer[s]) \/ workerMap[s][events[Head(e.messages)]] = "running"
        BY <1>1, <1>4, <2>1, <3>1 DEF WorkersOK
      <4> QED
        BY <1>1, <1>2, <1>5, <3>1, <4>1, OthersServed
    <3>2. CASE e.session # "live"
      BY <1>5, <3>2 DEF ServedOK
    <3> QED
      BY <3>1, <3>2
  <2> QED
    BY <1>1, <1>5, <1>6, <2>1, <2>2, <2>3, <2>4, EventWorkerOnly
<1>8. CASE EventNew(s)
  <2> DEFINE n == [e EXCEPT !.topic = events[Head(e.messages)]]
  <2>1. /\ UNCHANGED <<kafka, service, workerMap, orphan, closer, failures>>
        /\ e.session \in {"live", "joining", "stopping"}
        /\ workerMap[s][events[Head(e.messages)]] = "none"
        /\ eventWorker' = [eventWorker EXCEPT ![s].topic = events[Head(e.messages)]]
    BY <1>8 DEF EventNew, EventNext
  <2>2. eventWorker' = [eventWorker EXCEPT ![s] = n]
    BY <1>1, <2>1, RecordsOK DEF EventWorkerState
  <2>3. /\ n \in EventWorkerState /\ n.session = e.session
        /\ n.joined = e.joined /\ n.pos = e.pos /\ n.offset = e.offset
        /\ n.marked = e.marked /\ n.messages = e.messages
        /\ n.topic = events[Head(e.messages)]
    BY <1>1, <1>4 DEF EventWorkerState
  <2> HIDE DEF n
  <2>4. EventWorkerOK(n)
    BY <1>1, <1>2, <2>3 DEF EventWorkerOK
  <2>5. /\ WorkersOK(service[s], workerMap[s], closer[s], n)
        /\ OrphansOK(service[s], workerMap[s], orphan[s], n)
    BY <1>1, <2>1, <2>3 DEF WorkersOK, OrphansOK
  <2>6. ServedOK(workerMap[s], closer[s], n)
    BY <1>1, <2>3 DEF ServedOK
  <2> QED
    BY <1>1, <2>1, <2>2, <2>3, <2>4, <2>5, <2>6, EventWorkerOnly
<1>9. CASE EventSpawn(s)
  <2>1. /\ UNCHANGED <<kafka, service, failures>>
        /\ e.topic # NoTopic
        /\ spawnLogsWorker(s, e.topic)
        /\ eventWorker' = [eventWorker EXCEPT
                             ![s].topic = NoTopic,
                             ![s].messages = m,
                             ![s].marked = Mark(e, Head(e.messages))]
    BY <1>9 DEF EventSpawn
  <2>2. e.topic = events[Head(e.messages)] /\ e.topic \in topics
        /\ e.session # "none"
    BY <1>1, <1>4, <2>1 DEF EventWorkerOK, WorkersOK
  <2>3. eventWorker' = [eventWorker EXCEPT ![s] = d]
    BY <1>1, <2>1, RecordsOK DEF EventWorkerState
  <2> DEFINE w == [workerMap[s] EXCEPT ![e.topic] = "running"]
  <2>4. PICK o \in [Topic -> Nat], c \in [Closer -> CloserState] :
          /\ w \in [Topic -> {"none", "running", "stopped"}]
          /\ workerMap' = [workerMap EXCEPT ![s] = w]
          /\ orphan' = [orphan EXCEPT ![s] = o]
          /\ closer' = [closer EXCEPT ![s] = c]
          /\ w[e.topic] = "running"
          /\ \A u \in Topic :
                u # e.topic => w[u] = workerMap[s][u] /\ o[u] = orphan[s][u]
          /\ o[e.topic] = IF workerMap[s][e.topic] = "running"
                          THEN orphan[s][e.topic] + 1 ELSE orphan[s][e.topic]
          /\ \A k \in Closer : /\ c[k].pc = closer[s][k].pc
                               /\ c[k].left \subseteq Mapped(w)
    BY <2>1, <2>2, SpawnRecords
  <2> HIDE DEF d, w
  <2>5. WorkersOK(service[s], w, c, d)
    <3>1. \A u \in Topic : w[u] # "none" => u \in topics
      BY <1>1, <2>2, <2>4 DEF WorkersOK
    <3>2. Busy(closer[s]) <=> Busy(c)
      BY <2>4 DEF Busy
    <3> QED
      BY <1>1, <1>5, <2>2, <2>4, <3>1, <3>2 DEF WorkersOK
  <2>6. OrphansOK(service[s], w, o, d)
    <3>1. /\ o[e.topic] <= 1
          /\ o[e.topic] = 1 => e.topic \notin service[s].found
          /\ service[s].pc \notin {"loop", "running"} => o[e.topic] = 0
      <4>1. /\ e.topic \in Topic /\ orphan[s][e.topic] \in Nat
            /\ orphan[s][e.topic] <= 1 /\ orphan[s][e.topic] # 1
        BY <1>1, <2>2 DEF OrphansOK
      <4>2. CASE workerMap[s][e.topic] = "running"
        BY <1>1, <2>4, <4>1, <4>2 DEF OrphansOK, ServiceState
      <4>3. CASE workerMap[s][e.topic] # "running"
        BY <2>4, <4>1, <4>3
      <4> QED
        BY <4>2, <4>3
    <3> QED
      BY <1>1, <1>5, <2>2, <2>4, <3>1, TopicAssumption DEF OrphansOK
  <2>7. ServedOK(w, c, d)
    <3>1. ServedOK(w, c, e)
      BY <2>4, SpawnServes
    <3>2. CASE e.session = "live"
      BY <1>2, <1>5, <2>2, <2>4, <3>1, <3>2, OthersServed
    <3>3. CASE e.session # "live"
      BY <1>5, <3>3 DEF ServedOK
    <3> QED
      BY <3>2, <3>3
  <2>8. service' = [service EXCEPT ![s] = service[s]]
    BY <2>1, RecordsOK
  <2> QED
    BY <1>1, <1>5, <1>6, <2>1, <2>3, <2>4, <2>5, <2>6, <2>7, <2>8, OwnRecords
<1>10. CASE EventSpawnFails(s)
  <2> DEFINE n == [e EXCEPT !.topic = NoTopic, !.messages = m]
  <2>1. /\ UNCHANGED <<kafka, service, workerMap, orphan>> /\ failures' \in Nat
        /\ e.topic # NoTopic
        /\ Close(s, "event")
        /\ eventWorker' = [eventWorker EXCEPT ![s].topic = NoTopic,
                                              ![s].messages = m]
    BY <1>1, <1>10 DEF EventSpawnFails, Failure
  <2>2. e.session # "none" /\ service[s].pc \notin {"down", "admin"}
    BY <1>1, <2>1 DEF WorkersOK
  <2>3. eventWorker' = [eventWorker EXCEPT ![s] = n]
    BY <1>1, <2>1, RecordsOK DEF EventWorkerState
  <2>4. /\ n \in EventWorkerState /\ n.session = e.session
        /\ n.pos = e.pos /\ n.offset = e.offset /\ n.marked = e.marked
        /\ n.messages = m /\ n.topic = NoTopic
    BY <1>1, <1>3 DEF EventWorkerState
  <2>5. PICK c \in [Closer -> CloserState] :
          /\ closer' = [closer EXCEPT ![s] = c]
          /\ Busy(c)
          /\ \A j \in Closer : c[j].left \subseteq Mapped(workerMap[s])
    BY <2>1, CloseBegins DEF Closer
  <2> HIDE DEF n, m
  <2>6. EventWorkerOK(n)
    BY <1>1, <1>3, <2>4 DEF EventWorkerOK
  <2>7. WorkersOK(service[s], workerMap[s], c, n)
    BY <1>1, <2>2, <2>4, <2>5 DEF WorkersOK
  <2>8. OrphansOK(service[s], workerMap[s], orphan[s], n)
    BY <1>1, <2>4, TopicAssumption DEF OrphansOK
  <2>9. ServedOK(workerMap[s], c, n)
    BY <2>5 DEF ServedOK
  <2>10. /\ service' = [service EXCEPT ![s] = service[s]]
         /\ workerMap' = [workerMap EXCEPT ![s] = workerMap[s]]
         /\ orphan' = [orphan EXCEPT ![s] = orphan[s]]
    BY <2>1, RecordsOK
  <2> QED
    BY <1>1, <2>1, <2>3, <2>4, <2>5, <2>6, <2>7, <2>8, <2>9, <2>10, OwnRecords
<1> QED
  BY <1>7, <1>8, <1>9, <1>10 DEF onNewTopicEvent

-----------------------------------------------------------------------------
(* The announcements. *)

(* A step that announces nothing, and after which no call has more to      *)
(* announce than before.                                                   *)
LEMMA NothingAnnounced ==
    ASSUME AnnounceInv, UNCHANGED events,
           \A q \in Process, g \in Call :
               Announcing(call'[q][g]) => /\ Announcing(call[q][g])
                                          /\ call'[q][g].topic = call[q][g].topic
    PROVE  AnnounceInv'
<1>1. AnnouncedOnce'
  BY DEF AnnounceInv, AnnouncedOnce
<1>2. ASSUME NEW p \in Process, NEW h \in Call, Announcing(call'[p][h])
      PROVE  /\ \A i \in 1 .. Len(events') : events'[i] # call'[p][h].topic
             /\ \A q \in Process, g \in Call :
                   /\ Announcing(call'[q][g])
                   /\ call'[q][g].topic = call'[p][h].topic
                   => q = p /\ g = h
  BY <1>2 DEF AnnounceInv
<1> QED
  BY <1>1, <1>2 DEF AnnounceInv, Announcing

(* The call that creates a topic finds neither an announcement of it nor   *)
(* another call that has it to announce.                                   *)
LEMMA CreatorAnnounces ==
    ASSUME DiscoveryInv, AnnounceInv, NEW p \in Process, NEW h \in Call,
           CreateTopic(p, h)
    PROVE  AnnounceInv'
<1>1. /\ call[p][h].topic \notin topics
      /\ call'[p][h].topic = call[p][h].topic
      /\ UNCHANGED events
  BY DEF CreateTopic, Step, DiscoveryInv, TypeOK, CallState
<1>2. \A q \in Process, g \in Call :
        q # p \/ g # h => call'[q][g] = call[q][g]
  BY DEF CreateTopic, Step, DiscoveryInv, TypeOK
<1>3. \A i \in 1 .. Len(events) : events[i] # call[p][h].topic
  BY <1>1 DEF DiscoveryInv, KnownTopicsInv
<1>4. \A q \in Process, g \in Call :
        Announcing(call[q][g]) => call[q][g].topic # call[p][h].topic
  BY <1>1 DEF DiscoveryInv, KnownTopicsInv, CallInv, Announcing
<1>5. AnnouncedOnce'
  BY <1>1 DEF AnnounceInv, AnnouncedOnce
<1>6. ASSUME NEW r \in Process, NEW f \in Call, Announcing(call'[r][f])
      PROVE  /\ \A i \in 1 .. Len(events') : events'[i] # call'[r][f].topic
             /\ \A q \in Process, g \in Call :
                   /\ Announcing(call'[q][g])
                   /\ call'[q][g].topic = call'[r][f].topic
                   => q = r /\ g = f
  <2>1. CASE r = p /\ f = h
    BY <1>1, <1>2, <1>3, <1>4, <2>1
  <2>2. CASE r # p \/ f # h
    BY <1>1, <1>2, <1>4, <1>6, <2>2 DEF AnnounceInv
  <2> QED
    BY <2>1, <2>2
<1> QED
  BY <1>5, <1>6 DEF AnnounceInv, Announcing

(* A topic that has no announcement gets one or two. *)
LEMMA AnnouncedAtMostTwice ==
    ASSUME events \in Seq(Topic), NEW t \in Topic, AnnouncedOnce, Announce(t),
           \A i \in 1 .. Len(events) : events[i] # t
    PROVE  /\ AnnouncedOnce'
           /\ \A i \in 1 .. Len(events') :
                 events'[i] = t \/ (i \in 1 .. Len(events) /\ events'[i] = events[i])
<1> DEFINE n == Len(events)
<1>1. n \in Nat
  OBVIOUS
<1>2. /\ Len(events') \in {n + 1, n + 2}
      /\ \A i \in 1 .. n : events'[i] = events[i]
      /\ \A i \in 1 .. Len(events') : i \in 1 .. n \/ events'[i] = t
  <2>1. CASE events' = Append(events, t)
    BY <1>1, <2>1
  <2>2. CASE events' = Append(Append(events, t), t)
    BY <1>1, <2>2
  <2> QED
    BY <2>1, <2>2 DEF Announce
<1>3. AnnouncedOnce'
  <2> SUFFICES ASSUME NEW i \in 1 .. Len(events'), NEW j \in 1 .. Len(events'),
                      NEW k \in 1 .. Len(events'),
                      i < j, j < k, events'[i] = events'[j]
               PROVE  events'[k] # events'[j]
    BY DEF AnnouncedOnce
  <2>1. i \in 1 .. n
    BY <1>1, <1>2
  <2>2. events'[i] # t
    BY <1>2, <2>1
  <2>3. j \in 1 .. n
    BY <1>2, <2>2
  <2>4. CASE k \in 1 .. n
    BY <1>2, <2>1, <2>3, <2>4 DEF AnnouncedOnce
  <2>5. CASE k \notin 1 .. n
    BY <1>2, <2>2, <2>5
  <2> QED
    BY <2>4, <2>5
<1> QED
  BY <1>2, <1>3

(* The call that announces has nothing to announce afterwards. *)
LEMMA AnnouncerDone ==
    ASSUME DiscoveryInv, AnnounceInv, NEW p \in Process, NEW h \in Call,
           call[p][h].pc = "event", Announce(call[p][h].topic),
           NEW c, ~Announcing(c), call' = [call EXCEPT ![p][h] = c]
    PROVE  AnnounceInv'
<1> DEFINE t == call[p][h].topic
<1>1. /\ Announcing(call[p][h]) /\ t \in Topic /\ events \in Seq(Topic)
  BY DEF Announcing, DiscoveryInv, TypeOK, KnownTopicsInv, CallInv
<1>2. /\ \A i \in 1 .. Len(events) : events[i] # t
      /\ \A q \in Process, g \in Call :
            Announcing(call[q][g]) /\ call[q][g].topic = t => q = p /\ g = h
      /\ AnnouncedOnce
  BY <1>1 DEF AnnounceInv
<1>3. /\ call'[p][h] = c
      /\ \A q \in Process, g \in Call :
            q # p \/ g # h => call'[q][g] = call[q][g]
  BY DEF DiscoveryInv, TypeOK
<1>4. /\ AnnouncedOnce'
      /\ \A i \in 1 .. Len(events') :
            events'[i] = t \/ (i \in 1 .. Len(events) /\ events'[i] = events[i])
  BY <1>1, <1>2, AnnouncedAtMostTwice
<1>5. ASSUME NEW r \in Process, NEW f \in Call, Announcing(call'[r][f])
      PROVE  /\ \A i \in 1 .. Len(events') : events'[i] # call'[r][f].topic
             /\ \A q \in Process, g \in Call :
                   /\ Announcing(call'[q][g])
                   /\ call'[q][g].topic = call'[r][f].topic
                   => q = r /\ g = f
  <2>1. r # p \/ f # h
    BY <1>3, <1>5
  <2>2. call'[r][f] = call[r][f] /\ call[r][f].topic # t
    BY <1>2, <1>3, <1>5, <2>1
  <2>3. \A i \in 1 .. Len(events') : events'[i] # call'[r][f].topic
    BY <1>4, <1>5, <2>2 DEF AnnounceInv
  <2>4. ASSUME NEW q \in Process, NEW g \in Call, Announcing(call'[q][g]),
               call'[q][g].topic = call'[r][f].topic
        PROVE  q = r /\ g = f
    <3>1. call'[q][g] = call[q][g]
      BY <1>3, <2>4
    <3> QED
      BY <1>5, <2>2, <2>4, <3>1 DEF AnnounceInv
  <2> QED
    BY <2>3, <2>4
<1> QED
  BY <1>4, <1>5 DEF AnnounceInv, Announcing

(* Every step keeps what the announcements rest on. *)
LEMMA AnnounceStep ==
    ASSUME DiscoveryInv, AnnounceInv, [Next]_vars
    PROVE  AnnounceInv'
<1>1. CASE UNCHANGED <<call, events>>
  BY <1>1, NothingAnnounced
<1>2. CASE ~ProducerNext
  <2>1. ASSUME ServiceNext PROVE UNCHANGED kafka
    <3>1. PICK s \in Service :
            \/ Start(s) \/ EventJoin(s) \/ EventLose(s) \/ EventFetch(s)
            \/ onNewTopicEvent(s) \/ EventStop(s) \/ HaltAllWorker(s)
            \/ GracefullShutdown(s) \/ (\E k \in Closer : CloseStep(s, k))
            \/ EndService(s)
      BY <2>1 DEF ServiceNext
    <3>2. CASE Start(s)
      BY <3>2 DEF Start, initAdmin, initNewTopicWorker, adminTopics, StartSpawn,
                  StartSpawnFails, StartReturn
    <3>3. CASE onNewTopicEvent(s)
      BY <3>3, Zenon DEF onNewTopicEvent, EventIgnore, EventNew, EventSpawn,
                         EventSpawnFails
    <3>4. CASE \E k \in Closer : CloseStep(s, k)
      BY <3>4 DEF CloseStep, CloseWorker, CloseAdmin, CloseEventWorker, Exit,
                  EndService
    <3>5. CASE EventLose(s)
      BY <3>5, Zenon DEF EventLose
    <3> QED
      BY <3>1, <3>2, <3>3, <3>4, <3>5
         DEF EventJoin, EventFetch, EventStop, HaltAllWorker, GracefullShutdown,
             EndService
  <2>2. UNCHANGED kafka
    BY <1>2, <2>1 DEF vars, Next
  <2>3. UNCHANGED producerVars \/ ProducerNext
    BY DEF vars, Next
  <2> QED
    BY <1>1, <1>2, <2>2, <2>3 DEF kafka, producerVars
<1>3. CASE ProducerNext
  <2>1. PICK p \in Process :
          \/ StartProducer(p) \/ CloseProducer(p) \/ CrashProducer(p)
          \/ RefreshMetadata(p)
          \/ \E h \in Call : \/ Produce(p, h)
                             \/ createTopicIfNotExist(p, h)
                             \/ sendLogs(p, h)
                             \/ sendLogsFails(p, h)
    BY <1>3 DEF ProducerNext
  <2>2. \A q \in Process, g \in Call : call[q][g] \in CallState
    BY DEF DiscoveryInv, TypeOK
  <2>3. ~Announcing(Idle)
    BY DEF Idle, Announcing
  <2>4. CASE StartProducer(p) \/ CloseProducer(p) \/ RefreshMetadata(p)
    BY <1>1, <2>4 DEF StartProducer, CloseProducer, RefreshMetadata, kafka
  <2>5. CASE CrashProducer(p)
    <3>1. \A q \in Process, g \in Call :
            call'[q][g] = call[q][g] \/ call'[q][g] = Idle
      BY <2>5 DEF CrashProducer, DiscoveryInv, TypeOK
    <3> QED
      BY <2>3, <2>5, <3>1, NothingAnnounced DEF CrashProducer, kafka
  <2>6. ASSUME NEW h \in Call, NEW c, call' = [call EXCEPT ![p][h] = c],
               UNCHANGED events,
               Announcing(c) => /\ Announcing(call[p][h])
                                /\ c.topic = call[p][h].topic
        PROVE  AnnounceInv'
    <3>1. \A q \in Process, g \in Call :
            call'[q][g] = IF q = p /\ g = h THEN c ELSE call[q][g]
      BY <2>6 DEF DiscoveryInv, TypeOK
    <3> QED
      BY <2>6, <3>1, NothingAnnounced
  <2>7. ASSUME NEW h \in Call, Produce(p, h) PROVE AnnounceInv'
    <3>1. PICK t \in Topic, n \in BatchSizes :
            call' = [call EXCEPT ![p][h] =
                      [pc |-> "exist", topic |-> t, left |-> n, seen |-> {}]]
      BY <2>7 DEF Produce
    <3> QED
      BY <2>6, <2>7, <3>1 DEF Produce, kafka, Announcing
  <2>8. ASSUME NEW h \in Call, NEW pc, pc \notin {"add", "append", "event"},
               Step(p, h, pc), UNCHANGED events
        PROVE  AnnounceInv'
    <3> DEFINE c == [call[p][h] EXCEPT !.pc = pc]
    <3>1. call' = [call EXCEPT ![p][h] = c] /\ c.pc = pc
      BY <2>2, <2>8 DEF Step, CallState
    <3> HIDE DEF c
    <3> QED
      BY <2>6, <2>8, <3>1 DEF Announcing
  <2>9. ASSUME NEW h \in Call, Exist(p, h) PROVE AnnounceInv'
    BY <2>8, <2>9 DEF Exist, Search, RefreshTopics, kafka
  <2>10. ASSUME NEW h \in Call, AddTopicRead(p, h) \/ AddTopic(p, h)
         PROVE  AnnounceInv'
    <3>1. /\ Announcing(call[p][h]) /\ UNCHANGED events
          /\ call'[p][h].topic = call[p][h].topic
      BY <2>2, <2>10 DEF AddTopicRead, AddTopic, Announcing, kafka, DiscoveryInv,
                         TypeOK, CallState
    <3>2. \A q \in Process, g \in Call :
            q # p \/ g # h => call'[q][g] = call[q][g]
      BY <2>10 DEF AddTopicRead, AddTopic, DiscoveryInv, TypeOK
    <3> QED
      BY <3>1, <3>2, NothingAnnounced
  <2>11. ASSUME NEW h \in Call, sendCreateTopicEvents(p, h) PROVE AnnounceInv'
    <3> DEFINE c == [call[p][h] EXCEPT !.pc = "send"]
    <3>1. call' = [call EXCEPT ![p][h] = c] /\ ~Announcing(c)
      BY <2>2, <2>11 DEF sendCreateTopicEvents, Step, CallState, Announcing
    <3> HIDE DEF c
    <3> QED
      BY <2>11, <3>1, AnnouncerDone DEF sendCreateTopicEvents
  <2>12. ASSUME NEW h \in Call,
                \/ CreateTopicFails(p, h) \/ sendCreateTopicEventsFails(p, h)
                \/ sendLogs(p, h) \/ sendLogsFails(p, h)
         PROVE  AnnounceInv'
    <3>1. CASE call' = [call EXCEPT ![p][h] = Idle]
      <4>1. CASE UNCHANGED events
        BY <2>3, <2>6, <3>1, <4>1
      <4>2. CASE events' # events
        <5>1. call[p][h].pc = "event" /\ Announce(call[p][h].topic)
          BY <2>12, <4>2 DEF CreateTopicFails, sendCreateTopicEventsFails,
                             sendLogs, sendLogsFails
        <5> QED
          BY <2>3, <3>1, <5>1, AnnouncerDone
      <4> QED
        BY <4>1, <4>2
    <3>2. CASE /\ call' = [call EXCEPT ![p][h].pc = "exist", ![p][h].left = @ - 1]
               /\ UNCHANGED events
      <4> DEFINE c == [call[p][h] EXCEPT !.pc = "exist", !.left = call[p][h].left - 1]
      <4>1. call' = [call EXCEPT ![p][h] = c]
        <5>1. TypeOK
          BY DEF DiscoveryInv
        <5> QED
          BY <3>2, <5>1 DEF CallState, TypeOK
      <4>2. c.pc = "exist"
        BY <2>2 DEF CallState
      <4> HIDE DEF c
      <4> QED
        BY <2>6, <3>2, <4>1, <4>2 DEF Announcing
    <3> QED
      BY <2>12, <3>1, <3>2
         DEF CreateTopicFails, sendCreateTopicEventsFails, sendLogs, sendLogsFails
  <2> QED
    BY <2>1, <2>4, <2>5, <2>7, <2>9, <2>10, <2>11, <2>12, CreatorAnnounces
       DEF createTopicIfNotExist
<1> QED
  BY <1>2, <1>3

-----------------------------------------------------------------------------
(* The theorems. *)

(* Every step of the producers and the services keeps the invariant. *)
LEMMA DiscoveryStep == DiscoveryInv /\ [Next]_vars => DiscoveryInv'
<1> SUFFICES ASSUME DiscoveryInv, [Next]_vars PROVE DiscoveryInv'
  OBVIOUS
<1>1. CASE UNCHANGED vars
  <2>1. UNCHANGED <<kafka, producerVars, serviceVars>>
    BY <1>1 DEF vars
  <2>2. TypeOK' /\ KnownTopicsInv' /\ KafkaGrows
    BY <2>1 DEF kafka, producerVars, serviceVars, DiscoveryInv, TypeOK,
                KnownTopicsInv, CallInv, KafkaGrows
  <2>3. \A s \in Service : ServiceInv(s)'
    BY <2>1, <2>2, ServicesStable DEF TypeOK
  <2> QED
    BY <2>2, <2>3 DEF DiscoveryInv, ServiceInv, FetchedAnnouncementsServed
<1>2. CASE ProducerNext /\ UNCHANGED serviceVars
  <2>1. TypeOK' /\ KnownTopicsInv' /\ KafkaGrows
    BY <1>2, ProducerStep
  <2>2. \A s \in Service : ServiceInv(s)'
    BY <1>2, <2>1, ServicesStable DEF TypeOK
  <2> QED
    BY <2>1, <2>2 DEF DiscoveryInv, ServiceInv, FetchedAnnouncementsServed
<1>3. CASE ServiceNext /\ UNCHANGED producerVars
  BY <1>3, StartupKeeps, StartSpawnKeeps, CloseCallKeeps, CloseStepKeeps,
     SessionKeeps, EventKeeps
     DEF ServiceNext, Start
<1> QED
  BY <1>1, <1>2, <1>3 DEF Next

(* The inductive invariant of topic discovery: what every producer call,   *)
(* every service and the broker know of each other.                        *)
THEOREM DiscoveryInvariant == Spec => []DiscoveryInv
BY DiscoveryInit, DiscoveryStep, PTL DEF Spec

(* Whatever calls race for the list of topics, a producer sends only to    *)
(* topics that exist.                                                      *)
THEOREM ExistingTopics == Spec => []SendsToExistingTopics
<1>1. DiscoveryInv => SendsToExistingTopics
  BY DEF DiscoveryInv, KnownTopicsInv, CallInv, SendsToExistingTopics
<1> QED
  BY <1>1, DiscoveryInvariant, PTL

(* Only topics that exist are announced and get workers. *)
THEOREM AnnouncementsSound == Spec => []AnnouncedTopicsExist
<1>1. DiscoveryInv => AnnouncedTopicsExist
  BY DEF DiscoveryInv, KnownTopicsInv, WorkersInv, AnnouncedTopicsExist
<1> QED
  BY <1>1, DiscoveryInvariant, PTL

(* No announcement is lost between the session and workerMap. *)
THEOREM NoFetchedAnnouncementLost == Spec => []FetchedAnnouncementsServed
<1>1. DiscoveryInv => FetchedAnnouncementsServed
  BY DEF DiscoveryInv
<1> QED
  BY <1>1, DiscoveryInvariant, PTL

(* Start's loop and onNewTopicEvent together lose at most one worker of a  *)
(* topic to the unlocked workerMap, whatever Close does beside them.       *)
THEOREM AtMostOneOrphan == Spec => []OneOrphan
<1>1. DiscoveryInv => OneOrphan
  BY DEF DiscoveryInv, OrphanInv, OneOrphan
<1> QED
  BY <1>1, DiscoveryInvariant, PTL

(* However many calls race to create a topic, one of them announces it. *)
THEOREM OneAnnouncement == Spec => []AnnouncedOnce
<1>1. Init => AnnounceInv
  BY DEF Init, KafkaInit, ProducerInit, Idle, AnnounceInv, AnnouncedOnce,
         Announcing
<1>2. DiscoveryInv /\ AnnounceInv /\ [Next]_vars => AnnounceInv'
  BY AnnounceStep
<1>3. AnnounceInv => AnnouncedOnce
  BY DEF AnnounceInv
<1> QED
  BY <1>1, <1>2, <1>3, DiscoveryInvariant, PTL DEF Spec
=============================================================================
