----------------------- MODULE ElasticConsumerProofs -----------------------
(***************************************************************************)
(* Proofs about ElasticConsumer, for any topics and workers, any messages, *)
(* any sizes and limits, every index method and either source of rules:    *)
(* type correctness, what a committed offset may have lost, the bound on   *)
(* the loss at the end of a process, and what a halt keeps.                *)
(***************************************************************************)
EXTENDS ElasticConsumer, FiniteSetTheorems, TLAPS

-----------------------------------------------------------------------------
(* Type correctness. *)

(* The documents the program handles. *)
AnyDocument == Topic \X Offset \X Nat

(* Offsets are natural numbers, and a log that is not empty has one. *)
LEMMA OffsetNat ==
    /\ Offset \subseteq Nat
    /\ 0 .. MaxLog \subseteq Nat
    /\ 0 \in Offset
BY ContentAssumption DEF Offset

(* A worker has a topic, and someone who spawns it. *)
LEMMA WorkerTopic ==
    ASSUME NEW w \in Worker
    PROVE  TopicOf(w) \in Topic /\ SpawnerOf(w) \in Closer
BY WorkerAssumption DEF TopicOf, SpawnerOf, Spawner, Closer

(* The parts of a well-formed state that belong to one worker. *)
LEMMA WorkerTyped ==
    ASSUME TypeOK, NEW w \in Worker
    PROVE  /\ adapter[w] \in AdapterState
           /\ worker[w] \in WorkerState
           /\ TopicOf(w) \in Topic
           /\ logEnd[TopicOf(w)] \in 0 .. MaxLog
           /\ committed[TopicOf(w)] \in 0 .. MaxLog
BY WorkerTopic DEF TypeOK

(* A message has a sequence of documents, each of some quality. *)
LEMMA ContentTyped ==
    ASSUME NEW o \in Offset
    PROVE  /\ Content[o] \in Seq(Quality)
           /\ Len(Content[o]) \in Nat
           /\ \A i \in 1 .. Len(Content[o]) : Content[o][i] \in Quality
BY ContentAssumption

(* What a worker has in hand, and what is left of its message. *)
LEMMA DocumentsTyped ==
    ASSUME TypeOK, NEW w \in Worker
    PROVE  /\ InHand(w) \in AnyDocument
           /\ Remaining(w) \subseteq AnyDocument
<1>1. worker[w].msg \in Offset /\ worker[w].item \in Nat
  BY WorkerTyped DEF WorkerState
<1>2. Len(Content[worker[w].msg]) \in Nat
  BY <1>1, ContentTyped
<1>3. worker[w].item .. Len(Content[worker[w].msg]) \subseteq Nat
  BY <1>1, <1>2
<1> QED
  BY <1>1, <1>3, WorkerTopic DEF InHand, Remaining, Fit, Document, AnyDocument

(* A fresh process, a fresh broker and a fresh index are well formed. *)
LEMMA FreshTyped ==
    /\ newConsumerGroupAdapter \in AdapterState
    /\ NotSpawned \in WorkerState
    /\ NewConsumerWorker \in WorkerState
    /\ NewBulkProcessor \in BulkState
    /\ Down \in ServiceState
<1>1. newConsumerGroupAdapter \in AdapterState
  BY OffsetNat, ContentAssumption DEF newConsumerGroupAdapter, AdapterState
<1>2. NotSpawned \in WorkerState
  BY OffsetNat DEF NotSpawned, WorkerState
<1>3. NewConsumerWorker \in WorkerState
  BY <1>2 DEF NewConsumerWorker, WorkerState
<1>4. NewBulkProcessor \in BulkState
  BY DEF NewBulkProcessor, BulkState
<1>5. [k \in Closer |-> {}] \in [Closer -> SUBSET Topic]
  OBVIOUS
<1>6. Down \in ServiceState
  BY <1>5 DEF Down, ServiceState
<1> QED
  BY <1>1, <1>2, <1>3, <1>4, <1>6

(* Where a session starts is a place in the log. *)
LEMMA FirstOffsetTyped ==
    ASSUME TypeOK, NEW w \in Worker
    PROVE  FirstOffset(w) \in 0 .. MaxLog
BY WorkerTyped, ContentAssumption DEF FirstOffset

(* Commits take what sessions have marked. *)
LEMMA CommitTyped ==
    ASSUME TypeOK, NEW w \in Worker, Commit(w) \/ UNCHANGED <<committed, known>>
    PROVE  committed' \in [Topic -> 0 .. MaxLog] /\ known' \subseteq Topic
<1>1. adapter[w].marked \in 0 .. MaxLog /\ TopicOf(w) \in Topic
  BY WorkerTyped DEF AdapterState
<1> QED
  BY <1>1 DEF Commit, TypeOK

(* A Close comes to topics. *)
LEMMA ClosingTyped ==
    ASSUME TypeOK
    PROVE  /\ \A k \in Closer : Close(k) \in [Closer -> SUBSET Topic]
           /\ \A k \in Closer, t \in Topic :
                 Visited(k, t) \in [Closer -> SUBSET Topic]
           /\ \A K \in SUBSET Closer, t \in Topic :
                 Met(K, t) \in [Closer -> SUBSET Topic]
<1>1. /\ service.closing \in [Closer -> SUBSET Topic]
      /\ service.workerMap \subseteq Worker
  BY DEF TypeOK, ServiceState
<1>2. {TopicOf(w) : w \in service.workerMap} \subseteq Topic
  BY <1>1, WorkerTopic
<1> QED
  BY <1>1, <1>2 DEF Close, Visited, Met

(* The limit of attempts changes the state of the service only. *)
LEMMA HaltTyped ==
    ASSUME TypeOK, HaltAllWorker \/ UNCHANGED service
    PROVE  service' \in ServiceState
<1>1. service \in ServiceState /\ Close("halt") \in [Closer -> SUBSET Topic]
  BY ClosingTyped DEF TypeOK, Closer
<1> QED
  BY <1>1 DEF HaltAllWorker, ServiceState

(* The number of attempts is a number. *)
LEMMA AttemptsTyped ==
    ASSUME NEW n \in Nat
    PROVE  Attempts(n) \in Nat
BY DEF Attempts

(* Every initial state is well formed. *)
LEMMA TypeInit == Init => TypeOK
<1> SUFFICES ASSUME Init PROVE TypeOK
  OBVIOUS
<1>1. newConsumerGroupAdapter \in AdapterState
  BY FreshTyped
<1>2. adapter \in [Worker -> AdapterState]
  BY <1>1 DEF Init
<1>3. index \in [exists : BOOLEAN, cached : BOOLEAN]
  BY DEF Init
<1>4. logEnd \in [Topic -> 0 .. MaxLog] /\ committed \in [Topic -> 0 .. MaxLog]
  BY ContentAssumption DEF Init
<1> QED
  BY <1>2, <1>3, <1>4, FreshTyped DEF Init, TypeOK

(* The end of the process leaves a well-formed state. *)
LEMMA VanishTyped ==
    ASSUME TypeOK, Vanish, troubles' \in Nat
    PROVE  TypeOK'
<1>1. lost' \subseteq Topic \X Offset \X Nat
  BY DEF Vanish, TypeOK, BulkState
<1>2. /\ adapter' \in [Worker -> AdapterState]
      /\ worker' \in [Worker -> WorkerState]
      /\ service' \in ServiceState
      /\ bulk' \in BulkState
  BY FreshTyped DEF Vanish
<1>3. index' \in [exists : BOOLEAN, cached : BOOLEAN]
  BY DEF Vanish, TypeOK
<1> QED
  BY <1>1, <1>2, <1>3 DEF Vanish, TypeOK, kafka

(* Every step of Store keeps the state well formed. *)
LEMMA StoreTyped ==
    ASSUME TypeOK, NEW w \in Worker, Store(w)
    PROVE  TypeOK'
<1> USE DEF kafka, elastic, history
<1>0. /\ \A p \in {"ensure", "create", "insert", "mark", "haltEnsure", "haltInsert"} :
             /\ [worker[w] EXCEPT !.pc = p] \in WorkerState
             /\ [worker[w] EXCEPT !.pc = p, !.retry = 0] \in WorkerState
      /\ [worker[w] EXCEPT !.retry = Attempts(worker[w].retry + 1)] \in WorkerState
      /\ NextItem(w) \in WorkerState
      /\ Handled(w) \in WorkerState
  <2>1. worker[w] \in WorkerState /\ worker[w].retry + 1 \in Nat
        /\ worker[w].item + 1 \in Nat
    BY WorkerTyped DEF WorkerState
  <2>2. Handled(w) \in WorkerState
    BY <2>1 DEF Handled, WorkerState
  <2>3. [worker[w] EXCEPT !.pc = "ensure", !.item = worker[w].item + 1, !.retry = 0]
           \in WorkerState
    BY <2>1 DEF WorkerState
  <2>4. NextItem(w) \in WorkerState
    BY <2>2, <2>3 DEF NextItem
  <2>5. Attempts(worker[w].retry + 1) \in Nat
    BY <2>1, AttemptsTyped
  <2> QED
    BY <2>1, <2>2, <2>4, <2>5 DEF WorkerState
<1>1. CASE IndexCached(w)
  BY <1>0, <1>1 DEF IndexCached, TypeOK
<1>2. CASE IndexExists(w)
  <2>1. worker' \in [Worker -> WorkerState]
    BY <1>0, <1>2 DEF IndexExists, TypeOK
  <2>2. index' \in [exists : BOOLEAN, cached : BOOLEAN]
    BY <1>2 DEF IndexExists, TypeOK
  <2> QED
    BY <1>2, <2>1, <2>2 DEF IndexExists, TypeOK
<1>3. CASE CreateIndex(w)
  <2>1. worker' \in [Worker -> WorkerState]
    BY <1>0, <1>3 DEF CreateIndex, TypeOK
  <2>2. index' \in [exists : BOOLEAN, cached : BOOLEAN]
    BY <1>3 DEF CreateIndex, TypeOK
  <2> QED
    BY <1>3, <2>1, <2>2 DEF CreateIndex, TypeOK
<1>4. CASE EnsureFails(w)
  BY <1>0, <1>4 DEF EnsureFails, TypeOK
<1>5. CASE EnsureUnanswered(w)
  <2>1. service' \in ServiceState
    BY <1>5, HaltTyped DEF EnsureUnanswered
  <2>2. worker' \in [Worker -> WorkerState]
    BY <1>0, <1>5 DEF EnsureUnanswered, AfterHalt, TypeOK
  <2> QED
    BY <1>5, <2>1, <2>2 DEF EnsureUnanswered, TypeOK
<1>6. CASE ConvertFails(w)
  BY <1>0, <1>6 DEF ConvertFails, TypeOK
<1>7. CASE RedactPanics(w)
  BY <1>7, VanishTyped DEF RedactPanics, TypeOK
<1>8. CASE bulkInsert(w)
  <2>1. bulk' \in BulkState
    <3>1. bulk.queue \cup {InHand(w)} \in SUBSET (Topic \X Offset \X Nat)
      BY DocumentsTyped DEF TypeOK, BulkState, AnyDocument
    <3>2. bulk.actions + 1 \in Nat
      BY DEF TypeOK, BulkState
    <3> QED
      BY <1>8, <3>1, <3>2 DEF bulkInsert, TypeOK, BulkState
  <2> QED
    BY <1>0, <1>8, <2>1 DEF bulkInsert, TypeOK
<1>9. CASE singleInsert(w)
  <2>1. stored' \subseteq Topic \X Offset \X Nat
    BY <1>9, DocumentsTyped DEF singleInsert, TypeOK, AnyDocument
  <2> QED
    BY <1>0, <1>9, <2>1 DEF singleInsert, TypeOK
<1>10. CASE singleInsertFails(w)
  <2>1. lost' \subseteq Topic \X Offset \X Nat
    BY <1>10, DocumentsTyped DEF singleInsertFails, TypeOK, AnyDocument
  <2> QED
    BY <1>0, <1>10, <2>1 DEF singleInsertFails, TypeOK
<1>11. CASE singleInsertUnanswered(w)
  <2>1. service' \in ServiceState
    BY <1>11, HaltTyped DEF singleInsertUnanswered
  <2>2. worker' \in [Worker -> WorkerState]
    BY <1>0, <1>11 DEF singleInsertUnanswered, AfterHalt, TypeOK
  <2>3. stored' \subseteq Topic \X Offset \X Nat
    BY <1>11, DocumentsTyped DEF singleInsertUnanswered, Fit, TypeOK, AnyDocument
  <2>4. lost' \subseteq Topic \X Offset \X Nat
    BY <1>11, DocumentsTyped DEF singleInsertUnanswered, TypeOK, AnyDocument
  <2> QED
    BY <1>11, <2>1, <2>2, <2>3, <2>4 DEF singleInsertUnanswered, TypeOK
<1>12. CASE Halted(w)
  BY <1>0, <1>12 DEF Halted, TypeOK
<1> QED
  BY <1>1, <1>2, <1>3, <1>4, <1>5, <1>6, <1>7, <1>8, <1>9, <1>10, <1>11, <1>12
     DEF Store

(* Every action keeps the state well formed. *)
LEMMA TypeStep == TypeOK /\ IsFiniteSet(bulk.queue) /\ [Next]_vars => TypeOK'
<1> SUFFICES ASSUME TypeOK, IsFiniteSet(bulk.queue), [Next]_vars
             PROVE  TypeOK'
  OBVIOUS
<1> USE DEF kafka, elastic, history
<1>1. CASE UNCHANGED vars
  BY <1>1 DEF vars, TypeOK
<1>2. ASSUME NEW t \in Topic, Produce(t) PROVE TypeOK'
  <2>1. logEnd[t] + 1 \in 0 .. MaxLog
    BY <1>2, ContentAssumption DEF Produce, TypeOK
  <2> QED
    BY <1>2, <2>1 DEF Produce, TypeOK
<1>3. ASSUME NEW w \in Worker, Setup(w) PROVE TypeOK'
  <2>1. [adapter[w] EXCEPT !.session = "live", !.pos = FirstOffset(w),
                           !.marked = committed[TopicOf(w)]] \in AdapterState
    BY WorkerTyped, FirstOffsetTyped DEF AdapterState
  <2>2. committed[TopicOf(w)] .. FirstOffset(w) - 1 \subseteq Offset
    BY WorkerTyped, FirstOffsetTyped, ContentAssumption DEF Offset
  <2>3. skipped' \subseteq Topic \X Offset
    BY <1>3, <2>2, WorkerTopic DEF Setup, TypeOK
  <2>4. adapter' \in [Worker -> AdapterState]
    BY <1>3, <2>1 DEF Setup, TypeOK
  <2> QED
    BY <1>3, <2>3, <2>4 DEF Setup, TypeOK
<1>4. ASSUME NEW w \in Worker, AutoCommit(w) PROVE TypeOK'
  <2>1. committed' \in [Topic -> 0 .. MaxLog] /\ known' \subseteq Topic
    BY <1>4, CommitTyped DEF AutoCommit
  <2> QED
    BY <1>4, <2>1 DEF AutoCommit, TypeOK
<1>5. ASSUME NEW w \in Worker, Cleanup(w) PROVE TypeOK'
  <2>2. committed' \in [Topic -> 0 .. MaxLog] /\ known' \subseteq Topic
    BY <1>5, CommitTyped DEF Cleanup
  <2>3. [adapter[w] EXCEPT !.session = "none"] \in AdapterState
    BY WorkerTyped DEF AdapterState
  <2>4. adapter' \in [Worker -> AdapterState]
    BY <1>5, <2>3 DEF Cleanup, TypeOK
  <2> QED
    BY <1>5, <2>2, <2>4 DEF Cleanup, Trouble, TypeOK
<1>6. ASSUME NEW w \in Worker, ConsumeClaim(w) PROVE TypeOK'
  <2>1. adapter[w].pos \in Offset /\ adapter[w].pos + 1 \in 0 .. MaxLog
    BY <1>6, WorkerTyped, ContentAssumption DEF ConsumeClaim, AdapterState, Offset
  <2>2. Append(adapter[w].messages, adapter[w].pos) \in Seq(Offset)
    BY <2>1, WorkerTyped DEF AdapterState
  <2>3. [adapter[w] EXCEPT
           !.messages = Append(adapter[w].messages, adapter[w].pos),
           !.pos = adapter[w].pos + 1] \in AdapterState
    BY <2>1, <2>2, WorkerTyped DEF AdapterState
  <2> QED
    BY <1>6, <2>3 DEF ConsumeClaim, TypeOK
<1>7. ASSUME NEW w \in Worker, Receive(w) PROVE TypeOK'
  <2> DEFINE m == Head(adapter[w].messages)
  <2>1. adapter[w].messages \in Seq(Offset) /\ adapter[w].messages # <<>>
    BY <1>7, WorkerTyped DEF Receive, AdapterState
  <2>2. m \in Offset /\ Tail(adapter[w].messages) \in Seq(Offset)
    BY <2>1
  <2>3. [adapter[w] EXCEPT !.messages = Tail(adapter[w].messages)]
           \in AdapterState
    BY <2>2, WorkerTyped DEF AdapterState
  <2> HIDE DEF m
  <2>4. /\ [worker[w] EXCEPT !.pc = "mark", !.msg = m, !.item = 1] \in WorkerState
        /\ [worker[w] EXCEPT !.pc = "ensure", !.msg = m, !.item = 1] \in WorkerState
    BY <2>2, WorkerTyped DEF WorkerState
  <2>5. worker' = [worker EXCEPT ![w] =
                     [worker[w] EXCEPT
                        !.pc = IF ItemsOf(m) = <<>> THEN "mark" ELSE "ensure",
                        !.msg = m, !.item = 1]]
    BY <1>7 DEF Receive, m, TypeOK
  <2>6. worker' \in [Worker -> WorkerState]
    BY <2>4, <2>5 DEF TypeOK
  <2> QED
    BY <1>7, <2>3, <2>6 DEF Receive, TypeOK
<1>8. ASSUME NEW w \in Worker, MarkOffset(w) PROVE TypeOK'
  <2>1. worker[w].msg + 1 \in 0 .. MaxLog
    BY WorkerTyped, ContentAssumption DEF WorkerState, Offset
  <2>2. [adapter[w] EXCEPT !.marked = worker[w].msg + 1] \in AdapterState
    BY <2>1, WorkerTyped DEF AdapterState
  <2>3. [worker[w] EXCEPT !.pc = "select", !.msg = 0, !.item = 1] \in WorkerState
    BY WorkerTyped, OffsetNat DEF WorkerState
  <2>4. worker' \in [Worker -> WorkerState]
    BY <1>8, <2>3 DEF MarkOffset, TypeOK
  <2>5. adapter' \in [Worker -> AdapterState]
    BY <1>8, <2>2, WorkerTyped DEF MarkOffset, TypeOK, AdapterState
  <2> QED
    BY <1>8, <2>4, <2>5 DEF MarkOffset, TypeOK
<1>9. ASSUME NEW w \in Worker, Return(w) PROVE TypeOK'
  <2>1. [worker[w] EXCEPT !.pc = "returned", !.stop = FALSE] \in WorkerState
    BY WorkerTyped DEF WorkerState
  <2> QED
    BY <1>9, <2>1 DEF Return, TypeOK
<1>10. ASSUME NEW w \in Worker, NEW k \in Closer, Stop(k, w) PROVE TypeOK'
  <2>2. committed' \in [Topic -> 0 .. MaxLog] /\ known' \subseteq Topic
    BY <1>10, CommitTyped DEF Stop
  <2>3. [adapter[w] EXCEPT !.session = "closed"] \in AdapterState
    BY WorkerTyped DEF AdapterState
  <2>4. [worker[w] EXCEPT !.stop = TRUE] \in WorkerState
    BY WorkerTyped DEF WorkerState
  <2>5. service' \in ServiceState
    BY <1>10, ClosingTyped, WorkerTopic DEF Stop, TypeOK, ServiceState
  <2> QED
    BY <1>10, <2>2, <2>3, <2>4, <2>5 DEF Stop, TypeOK
<1>11. ASSUME NEW w \in Worker, Store(w) PROVE TypeOK'
  BY <1>11, StoreTyped
<1>12. CASE NewBaritoConsumerService
  <2>2. service' \in ServiceState
    BY <1>12 DEF NewBaritoConsumerService, TypeOK, ServiceState
  <2> QED
    BY <1>12, <2>2 DEF NewBaritoConsumerService, TypeOK
<1>19. ASSUME NEW w \in Worker, spawnLogsWorker(w) PROVE TypeOK'
  <2>1. service \in ServiceState /\ TopicOf(w) \in Topic
    BY WorkerTopic DEF TypeOK
  <2>2. service' \in ServiceState
    <3>1. PICK K \in SUBSET Closer, M \in SUBSET Worker, H \in SUBSET Worker :
            service' = [service EXCEPT !.workerMap = M,
                                       !.closing = Met(K, TopicOf(w)),
                                       !.held = H]
      <4> DEFINE replaced == {v \in service.workerMap : TopicOf(v) = TopicOf(w)}
      <4>1. /\ (service.workerMap \ replaced) \cup {w} \in SUBSET Worker
            /\ service.held \ replaced \in SUBSET Worker
            /\ service.held \in SUBSET Worker
        BY <2>1 DEF ServiceState
      <4>2. PICK K \in SUBSET Closer :
              service' = [service EXCEPT
                 !.workerMap = (service.workerMap \ replaced) \cup {w},
                 !.closing = Met(K, TopicOf(w)),
                 !.held = IF TopicOf(w) \in service.closing["halt"]
                          THEN service.held \ replaced ELSE service.held]
        BY <1>19 DEF spawnLogsWorker
      <4> QED
        BY <4>1, <4>2
    <3>2. Met(K, TopicOf(w)) \in [Closer -> SUBSET Topic]
      BY <2>1, ClosingTyped
    <3> QED
      BY <2>1, <3>1, <3>2 DEF ServiceState
  <2>3. worker' \in [Worker -> WorkerState]
    BY <1>19, FreshTyped DEF spawnLogsWorker, TypeOK
  <2> QED
    BY <1>19, <2>2, <2>3 DEF spawnLogsWorker, TypeOK
<1>20. ASSUME NEW w \in Worker, spawnLogsWorkerFails(w) PROVE TypeOK'
  <2>1. /\ service \in ServiceState
        /\ Close(SpawnerOf(w)) \in [Closer -> SUBSET Topic]
    BY ClosingTyped, WorkerTopic DEF TypeOK
  <2>2. service' \in ServiceState
    BY <1>20, <2>1 DEF spawnLogsWorkerFails, ServiceState
  <2>3. /\ [adapter[w] EXCEPT !.session = "closed"] \in AdapterState
        /\ [worker[w] EXCEPT !.pc = "returned"] \in WorkerState
    BY WorkerTyped DEF AdapterState, WorkerState
  <2>4. /\ adapter' \in [Worker -> AdapterState]
        /\ worker' \in [Worker -> WorkerState]
    BY <1>20, <2>3 DEF spawnLogsWorkerFails, TypeOK
  <2> QED
    BY <1>20, <2>2, <2>4 DEF spawnLogsWorkerFails, Trouble, TypeOK
<1>13. CASE Crash \/ Exit
  <2>1. troubles' \in Nat
    BY <1>13 DEF Crash, Exit, Trouble, TypeOK
  <2> QED
    BY <1>13, <2>1, VanishTyped DEF Crash, Exit
<1>14. CASE GracefullShutdown
  <2>1. service' \in ServiceState
    BY <1>14, ClosingTyped DEF GracefullShutdown, TypeOK, ServiceState, Closer
  <2> QED
    BY <1>14, <2>1 DEF GracefullShutdown, Trouble, TypeOK
<1>15. CASE BulkFlush \/ BulkFails \/ BulkHalted
  <2>1. \A p \in {"select", "commit"} :
           /\ [bulk EXCEPT !.pc = p] \in BulkState
           /\ [bulk EXCEPT !.pc = p, !.retry = 0, !.failed = TRUE] \in BulkState
    BY DEF TypeOK, BulkState
  <2> QED
    BY <1>15, <2>1 DEF BulkFlush, BulkFails, BulkHalted, TypeOK
<1>16. ASSUME NEW again \in SUBSET bulk.queue, BulkAnswered(again)
       PROVE  TypeOK'
  <2>1. bulk.queue \in SUBSET (Topic \X Offset \X Nat) /\ bulk.actions \in Nat
    BY DEF TypeOK, BulkState
  <2>2. stored' \subseteq Topic \X Offset \X Nat
    BY <1>16, <2>1 DEF BulkAnswered, Fit, TypeOK
  <2>3. index' \in [exists : BOOLEAN, cached : BOOLEAN]
    BY <1>16 DEF BulkAnswered, TypeOK
  <2>4. CASE again = {}
    BY <1>16, <2>2, <2>3, <2>4, FreshTyped DEF BulkAnswered, TypeOK
  <2>5. CASE again # {}
    <3>1. PICK pc \in {"select", "commit"},
               n \in Cardinality(again) .. bulk.actions :
             bulk' = [pc |-> pc, queue |-> again, actions |-> n,
                      retry |-> 0, failed |-> TRUE]
      BY <1>16, <2>5 DEF BulkAnswered
    <3>2. Cardinality(again) \in Nat
      <4>1. IsFiniteSet(again)
        BY <1>16, FS_Subset
      <4> QED
        BY <4>1, FS_CardinalityType
    <3>3. n \in Nat
      BY <2>1, <3>2
    <3>4. bulk' \in BulkState
      BY <2>1, <3>1, <3>3 DEF BulkState
    <3> QED
      BY <1>16, <2>2, <2>3, <3>4 DEF BulkAnswered, TypeOK
  <2> QED
    BY <2>4, <2>5
<1>17. CASE BulkUnanswered
  <2>1. service' \in ServiceState
    BY <1>17, HaltTyped DEF BulkUnanswered
  <2>2. bulk.retry + 1 \in Nat
    BY DEF TypeOK, BulkState
  <2>3. Attempts(bulk.retry + 1) \in Nat
    BY <2>2, AttemptsTyped
  <2>4. bulk' \in BulkState
    <3>1. /\ \A p \in {"halt", "select"} :
                [bulk EXCEPT !.pc = p, !.retry = 0, !.failed = TRUE] \in BulkState
          /\ [bulk EXCEPT !.retry = Attempts(bulk.retry + 1), !.failed = TRUE]
                \in BulkState
      BY <2>3 DEF TypeOK, BulkState
    <3> QED
      BY <1>17, <3>1 DEF BulkUnanswered, AfterHalt
  <2>5. stored' \subseteq Topic \X Offset \X Nat
    BY <1>17 DEF BulkUnanswered, Fit, TypeOK, BulkState
  <2> QED
    BY <1>17, <2>1, <2>4, <2>5 DEF BulkUnanswered, TypeOK
<1>18. CASE CacheExpires \/ IndexAppears
  <2>1. index' \in [exists : BOOLEAN, cached : BOOLEAN]
    BY <1>18 DEF CacheExpires, IndexAppears, TypeOK
  <2> QED
    BY <1>18, <2>1 DEF CacheExpires, IndexAppears, TypeOK
<1> QED
  BY <1>1, <1>2, <1>3, <1>4, <1>5, <1>6, <1>7, <1>8, <1>9, <1>10, <1>11, <1>12,
     <1>13, <1>14, <1>15, <1>16, <1>17, <1>18, <1>19, <1>20
     DEF Next, ServiceNext, WorkerNext

-----------------------------------------------------------------------------
(* The queue of the bulk processor. *)

(* The queue is finite and no larger than the number of waiting actions.   *)
(* As long as no request fails, a request is under way as soon as BulkSize *)
(* actions wait, and none is added to it.                                  *)
QueueInv ==
    /\ IsFiniteSet(bulk.queue)
    /\ Cardinality(bulk.queue) <= bulk.actions
    /\ bulk.pc = "halt" => bulk.failed
    /\ ~bulk.failed =>
          /\ bulk.actions <= BulkSize
          /\ bulk.pc = "select" => bulk.actions < BulkSize

(* One document more. *)
LEMMA OneMore ==
    ASSUME NEW S, IsFiniteSet(S), NEW x
    PROVE  /\ IsFiniteSet(S \cup {x})
           /\ Cardinality(S \cup {x}) \in Nat
           /\ Cardinality(S \cup {x}) <= Cardinality(S) + 1
<1>1. IsFiniteSet(S \cup {x})
  BY FS_AddElement
<1>2. Cardinality(S \cup {x}) \in Nat /\ Cardinality(S) \in Nat
  BY <1>1, FS_CardinalityType
<1>3. \/ Cardinality(S \cup {x}) = Cardinality(S)
      \/ Cardinality(S \cup {x}) = Cardinality(S) + 1
  BY FS_AddElement
<1> QED
  BY <1>1, <1>2, <1>3

(* A new bulk processor holds nothing. *)
LEMMA QueueFresh ==
    ASSUME bulk = NewBulkProcessor
    PROVE  QueueInv
BY FS_EmptySet, SizeAssumption DEF NewBulkProcessor, QueueInv

(* The same of the next state. *)
LEMMA QueueFreshNext ==
    ASSUME bulk' = NewBulkProcessor
    PROVE  QueueInv'
BY FS_EmptySet, SizeAssumption DEF NewBulkProcessor, QueueInv

(* Only the insertion of a document and the steps of the bulk processor    *)
(* touch the queue.                                                        *)
LEMMA QueueStep == TypeOK /\ QueueInv /\ [Next]_vars => QueueInv'
<1> SUFFICES ASSUME TypeOK, QueueInv, [Next]_vars PROVE QueueInv'
  OBVIOUS
<1>0. /\ bulk \in BulkState
      /\ bulk.actions \in Nat
      /\ IsFiniteSet(bulk.queue)
      /\ Cardinality(bulk.queue) \in Nat
  BY FS_CardinalityType DEF TypeOK, BulkState, QueueInv
<1>1. CASE UNCHANGED bulk
  BY <1>1 DEF QueueInv
<1>2. ASSUME NEW w \in Worker, bulkInsert(w) PROVE QueueInv'
  <2>1. /\ bulk'.queue = bulk.queue \cup {InHand(w)}
        /\ bulk'.actions = bulk.actions + 1
        /\ bulk'.failed = bulk.failed
        /\ bulk.pc = "select"
        /\ bulk'.pc = IF bulk.actions + 1 >= BulkSize THEN "commit" ELSE "select"
    BY <1>0, <1>2 DEF bulkInsert, BulkState
  <2>2. /\ IsFiniteSet(bulk'.queue)
        /\ Cardinality(bulk'.queue) \in Nat
        /\ Cardinality(bulk'.queue) <= Cardinality(bulk.queue) + 1
    BY <1>0, <2>1, OneMore
  <2> QED
    BY <1>0, <2>1, <2>2, SizeAssumption DEF QueueInv
<1>3. CASE BulkFlush \/ BulkFails \/ BulkHalted \/ BulkUnanswered
  <2>1. /\ bulk'.queue = bulk.queue
        /\ bulk'.actions = bulk.actions
        /\ bulk'.pc = "halt" => bulk'.failed
        /\ ~bulk'.failed => ~bulk.failed /\ bulk'.pc # "select"
    BY <1>0, <1>3 DEF BulkFlush, BulkFails, BulkHalted, BulkUnanswered,
                      AfterHalt, BulkState, QueueInv
  <2> QED
    BY <1>0, <2>1 DEF QueueInv
<1>4. ASSUME NEW again \in SUBSET bulk.queue, BulkAnswered(again)
      PROVE  QueueInv'
  <2>1. CASE again = {}
    BY <1>4, <2>1, QueueFreshNext DEF BulkAnswered
  <2>2. CASE again # {}
    <3>1. PICK pc \in {"select", "commit"},
               n \in Cardinality(again) .. bulk.actions :
             bulk' = [pc |-> pc, queue |-> again, actions |-> n,
                      retry |-> 0, failed |-> TRUE]
      BY <1>4, <2>2 DEF BulkAnswered
    <3>2. IsFiniteSet(again) /\ Cardinality(again) \in Nat
      BY <1>0, FS_Subset, FS_CardinalityType
    <3> QED
      BY <1>0, <3>1, <3>2 DEF QueueInv
  <2> QED
    BY <2>1, <2>2
<1>5. CASE Vanish
  BY <1>5, QueueFreshNext DEF Vanish
<1>6. ASSUME NEW w \in Worker, WorkerNext(w)
      PROVE  UNCHANGED bulk \/ bulkInsert(w) \/ Vanish
  BY <1>6 DEF WorkerNext, Store, spawnLogsWorker, spawnLogsWorkerFails,
       Setup, AutoCommit, Cleanup, ConsumeClaim, Receive, IndexCached,
       IndexExists, CreateIndex, EnsureFails, EnsureUnanswered,
       ConvertFails, RedactPanics,
       singleInsert, singleInsertFails, singleInsertUnanswered, Halted,
       MarkOffset, Return, Stop
<1>7. ASSUME ServiceNext
      PROVE  \/ UNCHANGED bulk
             \/ Vanish
             \/ BulkFlush \/ BulkFails \/ BulkHalted \/ BulkUnanswered
             \/ \E again \in SUBSET bulk.queue : BulkAnswered(again)
  BY <1>7 DEF ServiceNext, Produce, NewBaritoConsumerService, Crash,
       GracefullShutdown, Exit, CacheExpires, IndexAppears
<1> QED
  BY <1>1, <1>2, <1>3, <1>4, <1>5, <1>6, <1>7 DEF Next, vars

(* The types and the queue depend on each other: the number of actions     *)
(* that stay is a number because the queue is finite.                      *)
LEMMA TypeAndQueue == Spec => [](TypeOK /\ QueueInv)
<1>1. Init => TypeOK /\ QueueInv
  BY TypeInit, QueueFresh DEF Init
<1>2. TypeOK /\ QueueInv /\ [Next]_vars => (TypeOK /\ QueueInv)'
  BY TypeStep, QueueStep DEF QueueInv
<1> QED
  BY <1>1, <1>2, PTL DEF Spec

(* Every state of the workers, the bulk processor and the broker is well   *)
(* formed; in particular no mark and no commit goes past the log, and what *)
(* is stored, lost or waiting are documents of messages.                   *)
THEOREM TypeCorrect == Spec => []TypeOK
BY TypeAndQueue, PTL

-----------------------------------------------------------------------------
(* The loss at the end of a process. *)

(* What can become of the service in a step. *)
LEMMA ServiceChanges ==
    ASSUME [Next]_vars
    PROVE  \/ UNCHANGED service
           \/ Vanish
           \/ HaltAllWorker /\ UNCHANGED <<kafka, adapter>>
           \/ NewBaritoConsumerService
           \/ GracefullShutdown
           \/ \E w \in Worker : \/ spawnLogsWorker(w)
                              \/ spawnLogsWorkerFails(w)
                              \/ \E k \in Closer : Stop(k, w)
<1>1. ASSUME NEW w \in Worker, WorkerNext(w)
      PROVE  \/ UNCHANGED service
             \/ Vanish
             \/ HaltAllWorker /\ UNCHANGED <<kafka, adapter>>
             \/ spawnLogsWorker(w)
             \/ spawnLogsWorkerFails(w)
             \/ \E k \in Closer : Stop(k, w)
  BY <1>1 DEF WorkerNext, Store, Setup, AutoCommit, Cleanup,
       ConsumeClaim, Receive, IndexCached, IndexExists, CreateIndex,
       EnsureFails, EnsureUnanswered, ConvertFails, RedactPanics, bulkInsert,
       singleInsert, singleInsertFails, singleInsertUnanswered, Halted,
       MarkOffset, Return
<1>2. ASSUME ServiceNext
      PROVE  \/ UNCHANGED service
             \/ Vanish
             \/ HaltAllWorker /\ UNCHANGED <<kafka, adapter>>
             \/ NewBaritoConsumerService
             \/ GracefullShutdown
  BY <1>2 DEF ServiceNext, Produce, Crash, Exit, BulkFlush, BulkAnswered, BulkFails,
       BulkUnanswered, BulkHalted, CacheExpires, IndexAppears
<1> QED
  BY <1>1, <1>2 DEF Next, vars

(* A process ends in no other way than by Vanish. *)
LEMMA EndIsVanish ==
    ASSUME TypeOK, [Next]_vars, service.pc # "down", service'.pc = "down"
    PROVE  Vanish
<1>1. service \in ServiceState
  BY DEF TypeOK
<1>2. HaltAllWorker => service'.pc = service.pc
  BY <1>1 DEF HaltAllWorker, ServiceState
<1>3. NewBaritoConsumerService \/ GracefullShutdown => service'.pc # "down"
  BY <1>1 DEF NewBaritoConsumerService, GracefullShutdown, ServiceState
<1>4. \A w \in Worker : \/ spawnLogsWorker(w)
                        \/ spawnLogsWorkerFails(w)
                        \/ \E k \in Closer : Stop(k, w)
                        => service'.pc = service.pc
  BY <1>1 DEF spawnLogsWorker, spawnLogsWorkerFails, Stop, ServiceState
<1> QED
  BY <1>2, <1>3, <1>4, ServiceChanges

(* When a process ends, for whatever reason, the documents that nobody     *)
(* will read again are at most those of one bulk request, unless the last  *)
(* request failed.                                                         *)
THEOREM LossIsBounded == Spec => LossBounded
<1>1. TypeOK /\ QueueInv /\ [Next]_vars =>
         [ /\ service.pc # "down"
           /\ service'.pc = "down"
           /\ ~bulk.failed
           => Cardinality(lost' \ lost) <= BulkSize ]_vars
  <2> SUFFICES ASSUME TypeOK, QueueInv, [Next]_vars,
                      service.pc # "down", service'.pc = "down", ~bulk.failed
               PROVE  Cardinality(lost' \ lost) <= BulkSize
    OBVIOUS
  <2>1. lost' \ lost \in SUBSET bulk.queue
    BY EndIsVanish DEF Vanish
  <2>2. IsFiniteSet(bulk.queue) /\ Cardinality(bulk.queue) <= bulk.actions
        /\ bulk.actions <= BulkSize
    BY DEF QueueInv
  <2>3. IsFiniteSet(lost' \ lost)
        /\ Cardinality(lost' \ lost) <= Cardinality(bulk.queue)
    BY <2>1, <2>2, FS_Subset
  <2>4. Cardinality(bulk.queue) \in Nat /\ Cardinality(lost' \ lost) \in Nat
    BY <2>2, <2>3, FS_CardinalityType
  <2>5. bulk.actions \in Nat /\ BulkSize \in Nat
    BY SizeAssumption DEF TypeOK, BulkState
  <2> QED
    BY <2>2, <2>3, <2>4, <2>5
<1> QED
  BY <1>1, TypeAndQueue, PTL DEF Spec, LossBounded

-----------------------------------------------------------------------------
(* What a halt keeps. *)

(* Nothing of a process is left when it has ended. *)
DownInv ==
    service.pc = "down" =>
        /\ service = Down
        /\ bulk = NewBulkProcessor
        /\ \A w \in Worker :
              /\ worker[w] = NotSpawned
              /\ adapter[w].session = "none"
              /\ adapter[w].messages = <<>>

(* The map has at most one worker of a topic. *)
MapInv ==
    \A v, w \in service.workerMap : TopicOf(v) = TopicOf(w) => v = w

(* HaltAllWorker closes the sessions one after the other. *)
HaltInv ==
    service.isHalt =>
        \A w \in service.held :
            \/ adapter[w].session = "closed"
            \/ w \in service.workerMap /\ TopicOf(w) \in service.closing["halt"]

(* While there is no process, only the broker and the index change. *)
LEMMA DownActions ==
    ASSUME TypeOK, DownInv, service.pc = "down", [Next]_vars
    PROVE  UNCHANGED <<service, adapter, worker, bulk>>
           \/ NewBaritoConsumerService
<1>1. /\ service = Down
      /\ bulk = NewBulkProcessor
      /\ \A w \in Worker :
            /\ worker[w] = NotSpawned
            /\ adapter[w].session = "none"
            /\ adapter[w].messages = <<>>
  BY DEF DownInv
<1>2. ASSUME NEW w \in Worker, WorkerNext(w)
      PROVE  UNCHANGED <<service, adapter, worker, bulk>>
  <2>1. /\ worker[w].pc = "none"
        /\ adapter[w].session = "none" /\ adapter[w].messages = <<>>
        /\ service.pc = "down" /\ service.workerMap = {}
    BY <1>1 DEF NotSpawned, Down
  <2>2. ~Store(w)
    BY <2>1 DEF Store, IndexCached, IndexExists, CreateIndex, EnsureFails,
         EnsureUnanswered, ConvertFails, RedactPanics, Redacted, bulkInsert,
         singleInsert, singleInsertFails, singleInsertUnanswered, Halted
  <2> QED
    BY <1>2, <2>1, <2>2 DEF WorkerNext, spawnLogsWorker, spawnLogsWorkerFails,
         MaySpawn, Setup, AutoCommit, Cleanup, ConsumeClaim, Receive,
         MarkOffset, Return, Stop
<1>3. ASSUME ServiceNext
      PROVE  UNCHANGED <<service, adapter, worker, bulk>>
             \/ NewBaritoConsumerService
  <2>1. /\ bulk.pc = "select" /\ bulk.queue = {}
        /\ service.pc = "down"
    BY <1>1 DEF NewBulkProcessor, Down
  <2> QED
    BY <1>3, <2>1 DEF ServiceNext, Produce, Crash, GracefullShutdown, Exit, BulkFlush,
         BulkAnswered, BulkFails, BulkUnanswered, BulkHalted, CacheExpires,
         IndexAppears
<1> QED
  BY <1>2, <1>3 DEF Next, vars

(* A new process starts with nothing. *)
LEMMA DownStep == TypeOK /\ DownInv /\ [Next]_vars => DownInv'
<1> SUFFICES ASSUME TypeOK, DownInv, [Next]_vars, service'.pc = "down"
             PROVE  DownInv'
  BY DEF DownInv
<1>1. CASE Vanish
  BY <1>1 DEF Vanish, DownInv, newConsumerGroupAdapter
<1>2. CASE ~Vanish
  <2>1. service.pc = "down"
    BY <1>2, EndIsVanish
  <2>2. ~NewBaritoConsumerService
    BY DEF NewBaritoConsumerService, TypeOK, ServiceState
  <2>3. UNCHANGED <<service, adapter, worker, bulk>>
    BY <2>1, <2>2, DownActions
  <2> QED
    BY <2>3 DEF DownInv
<1> QED
  BY <1>1, <1>2

(* A worker that is put into the map takes the place of the other one. *)
LEMMA MapStep == TypeOK /\ MapInv /\ [Next]_vars => MapInv'
<1> SUFFICES ASSUME TypeOK, MapInv, [Next]_vars PROVE MapInv'
  OBVIOUS
<1>0. service \in ServiceState
  BY DEF TypeOK
<1>1. CASE Vanish
  BY <1>1 DEF Vanish, Down, MapInv
<1>2. ASSUME NEW w \in Worker, spawnLogsWorker(w) PROVE MapInv'
  <2>1. service'.workerMap =
           (service.workerMap \ {v \in service.workerMap : TopicOf(v) = TopicOf(w)})
              \cup {w}
    BY <1>0, <1>2 DEF spawnLogsWorker, ServiceState
  <2> QED
    BY <2>1 DEF MapInv
<1>3. CASE service'.workerMap = service.workerMap
  BY <1>3 DEF MapInv
<1>4. ASSUME \/ HaltAllWorker \/ NewBaritoConsumerService \/ GracefullShutdown
             \/ \E w \in Worker : \/ spawnLogsWorkerFails(w)
                                \/ \E k \in Closer : Stop(k, w)
      PROVE  service'.workerMap = service.workerMap
  BY <1>0, <1>4 DEF HaltAllWorker, NewBaritoConsumerService,
       GracefullShutdown, spawnLogsWorkerFails, Stop, ServiceState
<1> QED
  BY <1>1, <1>2, <1>3, <1>4, ServiceChanges

(* A session that has been closed stays so until the process ends. *)
LEMMA ClosedForGood ==
    ASSUME TypeOK, [Next]_vars, ~Vanish, NEW w \in Worker,
           adapter[w].session = "closed"
    PROVE  adapter'[w].session = "closed"
<1>0. adapter \in [Worker -> AdapterState]
  BY DEF TypeOK
<1>1. ServiceNext => UNCHANGED adapter
  BY DEF ServiceNext, Produce, NewBaritoConsumerService, Crash,
       GracefullShutdown, Exit, BulkFlush, BulkAnswered, BulkFails,
       BulkUnanswered, BulkHalted, CacheExpires, IndexAppears
<1>2. ASSUME NEW v \in Worker, WorkerNext(v)
      PROVE  \/ UNCHANGED adapter
             \/ \E k \in Closer : Stop(k, v)
             \/ spawnLogsWorkerFails(v) \/ Setup(v) \/ Cleanup(v)
             \/ ConsumeClaim(v) \/ Receive(v) \/ MarkOffset(v)
  BY <1>2 DEF WorkerNext, Store, spawnLogsWorker, AutoCommit, IndexCached,
       IndexExists, CreateIndex, EnsureFails, EnsureUnanswered,
       ConvertFails, RedactPanics, bulkInsert, singleInsert,
       singleInsertFails, singleInsertUnanswered, Halted, Return
<1>3. ASSUME NEW v \in Worker,
             \/ \E k \in Closer : Stop(k, v)
             \/ spawnLogsWorkerFails(v) \/ Setup(v) \/ Cleanup(v)
      PROVE  adapter'[w].session = "closed"
  BY <1>0, <1>3 DEF Stop, spawnLogsWorkerFails, Setup, Cleanup, AdapterState
<1>4. ASSUME NEW v \in Worker, ConsumeClaim(v)
      PROVE  adapter'[w].session = "closed"
  BY <1>0, <1>4 DEF ConsumeClaim, AdapterState
<1>5. ASSUME NEW v \in Worker, Receive(v)
      PROVE  adapter'[w].session = "closed"
  BY <1>0, <1>5 DEF Receive, AdapterState
<1>6. ASSUME NEW v \in Worker, MarkOffset(v)
      PROVE  adapter'[w].session = "closed"
  BY <1>0, <1>6 DEF MarkOffset, AdapterState
<1> QED
  BY <1>1, <1>2, <1>3, <1>4, <1>5, <1>6 DEF Next, vars

(* A worker that HaltAllWorker has to stop leaves the map only for a spawn *)
(* that Close has not come to, or when it is closed already.               *)
LEMMA HaltStep == TypeOK /\ MapInv /\ HaltInv /\ [Next]_vars => HaltInv'
<1> SUFFICES ASSUME TypeOK, MapInv, HaltInv, [Next]_vars, service'.isHalt,
                    NEW w \in service'.held, adapter'[w].session # "closed"
             PROVE  /\ w \in service'.workerMap
                    /\ TopicOf(w) \in service'.closing["halt"]
  BY DEF HaltInv
<1>0. service \in ServiceState
  BY DEF TypeOK
<1>1. ~Vanish
  BY DEF Vanish, Down
<1>2. ASSUME service.isHalt, w \in service.held
      PROVE  w \in service.workerMap /\ TopicOf(w) \in service.closing["halt"]
  <2>1. w \in Worker
    BY <1>0, <1>2 DEF ServiceState
  <2> QED
    BY <1>1, <1>2, <2>1, ClosedForGood DEF HaltInv
<1>3. CASE HaltAllWorker
  <2>1. CASE service.isHalt
    BY <1>2, <1>3, <2>1 DEF HaltAllWorker
  <2>2. CASE ~service.isHalt
    <3>1. /\ service'.held = service.workerMap
          /\ service'.workerMap = service.workerMap
          /\ service'.closing["halt"] = {TopicOf(v) : v \in service.workerMap}
      BY <1>0, <1>3, <2>2 DEF HaltAllWorker, ServiceState, Closer, Close
    <3> QED
      BY <3>1
  <2> QED
    BY <2>1, <2>2
<1>4. CASE UNCHANGED service \/ NewBaritoConsumerService \/ GracefullShutdown
  <2>1. /\ service'.held = service.held
        /\ service'.isHalt = service.isHalt
        /\ service'.workerMap = service.workerMap
        /\ service'.closing["halt"] = service.closing["halt"]
    BY <1>0, <1>4 DEF NewBaritoConsumerService, GracefullShutdown,
         ServiceState, Closer, Close
  <2> QED
    BY <1>2, <2>1
<1>5. ASSUME NEW v \in Worker, spawnLogsWorkerFails(v)
      PROVE  /\ w \in service'.workerMap
             /\ TopicOf(w) \in service'.closing["halt"]
  <2>1. SpawnerOf(v) \in {"start", "event"}
    BY WorkerAssumption DEF SpawnerOf, Spawner
  <2>2. /\ service'.held = service.held
        /\ service'.isHalt = service.isHalt
        /\ service'.workerMap = service.workerMap
        /\ service'.closing["halt"] = service.closing["halt"]
    BY <1>0, <1>5, <2>1 DEF spawnLogsWorkerFails, ServiceState, Closer, Close
  <2> QED
    BY <1>2, <2>2
<1>6. ASSUME NEW v \in Worker, spawnLogsWorker(v)
      PROVE  /\ w \in service'.workerMap
             /\ TopicOf(w) \in service'.closing["halt"]
  <2> DEFINE replaced == {u \in service.workerMap : TopicOf(u) = TopicOf(v)}
  <2>1. PICK K \in SUBSET Closer :
          service' = [service EXCEPT
             !.workerMap = (@ \ replaced) \cup {v},
             !.closing = Met(K, TopicOf(v)),
             !.held = IF TopicOf(v) \in service.closing["halt"] THEN @ \ replaced
                      ELSE @]
    BY <1>6 DEF spawnLogsWorker
  <2>2. /\ service'.isHalt = service.isHalt
        /\ service'.workerMap = (service.workerMap \ replaced) \cup {v}
        /\ service'.held = IF TopicOf(v) \in service.closing["halt"]
                           THEN service.held \ replaced ELSE service.held
        /\ service.closing["halt"] \subseteq service'.closing["halt"]
    BY <1>0, <2>1 DEF ServiceState, Closer, Met
  <2>3. w \in service.workerMap /\ TopicOf(w) \in service.closing["halt"]
    BY <1>2, <2>2
  <2>4. w \notin replaced
    BY <2>2, <2>3
  <2> QED
    BY <2>2, <2>3, <2>4
<1>7. ASSUME NEW v \in Worker, NEW k \in Closer, Stop(k, v)
      PROVE  /\ w \in service'.workerMap
             /\ TopicOf(w) \in service'.closing["halt"]
  <2>1. /\ service'.held = service.held
        /\ service'.isHalt = service.isHalt
        /\ service'.workerMap = service.workerMap
        /\ service.closing["halt"] \ {TopicOf(v)} \subseteq service'.closing["halt"]
    BY <1>0, <1>7 DEF Stop, ServiceState, Closer, Visited
  <2>2. w \in service.workerMap /\ TopicOf(w) \in service.closing["halt"]
    BY <1>2, <2>1
  <2>3. adapter'[v].session = "closed"
    BY <1>7 DEF Stop, TypeOK, AdapterState
  <2>4. TopicOf(w) # TopicOf(v)
    BY <1>7, <2>2, <2>3 DEF Stop, MapInv
  <2> QED
    BY <2>1, <2>2, <2>4
<1> QED
  BY <1>1, <1>3, <1>4, <1>5, <1>6, <1>7, ServiceChanges

(* All three hold in every state. *)
LEMMA DownAndHalt == Spec => [](DownInv /\ MapInv /\ HaltInv)
<1>1. Init => DownInv /\ MapInv /\ HaltInv
  BY DEF Init, DownInv, MapInv, HaltInv, Down, newConsumerGroupAdapter
<1>2. TypeOK /\ DownInv /\ MapInv /\ HaltInv /\ [Next]_vars
         => (DownInv /\ MapInv /\ HaltInv)'
  BY DownStep, MapStep, HaltStep
<1> QED
  BY <1>1, <1>2, TypeCorrect, PTL DEF Spec

(* Only live sessions commit, and only for their topic. *)
LEMMA CommitNeedsSession ==
    ASSUME TypeOK, [Next]_vars, NEW t \in Topic, committed'[t] # committed[t]
    PROVE  \E w \in Worker : TopicOf(w) = t /\ adapter[w].session = "live"
<1>1. ASSUME NEW w \in Worker, WorkerNext(w)
      PROVE  \/ committed' = committed
             \/ adapter[w].session = "live" /\ Commit(w)
  BY <1>1 DEF kafka, WorkerNext, Store, spawnLogsWorker, spawnLogsWorkerFails,
       Setup, AutoCommit, Cleanup, ConsumeClaim, Receive, IndexCached,
       IndexExists, CreateIndex, EnsureFails, EnsureUnanswered, ConvertFails,
       RedactPanics, Vanish, bulkInsert, singleInsert, singleInsertFails,
       singleInsertUnanswered, Halted, MarkOffset, Return, Stop
<1>2. ServiceNext => committed' = committed
  BY DEF kafka, ServiceNext, Produce, NewBaritoConsumerService, Crash, Vanish,
       GracefullShutdown, Exit, BulkFlush, BulkAnswered, BulkFails,
       BulkUnanswered, BulkHalted, CacheExpires, IndexAppears
<1>3. PICK w \in Worker : adapter[w].session = "live" /\ Commit(w)
  BY <1>1, <1>2 DEF Next, vars, kafka
<1>4. committed' = [committed EXCEPT ![TopicOf(w)] = adapter[w].marked]
  BY <1>3 DEF Commit
<1>5. TopicOf(w) = t
  BY <1>4 DEF TypeOK
<1> QED
  BY <1>3, <1>5

(* When the Close of HaltAllWorker has returned, no step of any goroutine  *)
(* commits an offset for a worker that it had to stop, whatever else was   *)
(* spawned, closed or lost meanwhile.                                      *)
THEOREM HaltKeepsEveryOffset == Spec => HaltKeepsOffsets
<1>1. TypeOK /\ HaltInv /\ [Next]_vars =>
         [ service.isHalt /\ service.closing["halt"] = {} =>
             \A t \in Topic :
                committed'[t] # committed[t] =>
                   \E w \in Worker \ service.held :
                      TopicOf(w) = t /\ adapter[w].session = "live" ]_vars
  <2> SUFFICES ASSUME TypeOK, HaltInv, [Next]_vars,
                      service.isHalt, service.closing["halt"] = {},
                      NEW t \in Topic, committed'[t] # committed[t]
               PROVE  \E w \in Worker \ service.held :
                         TopicOf(w) = t /\ adapter[w].session = "live"
    OBVIOUS
  <2>1. PICK w \in Worker : TopicOf(w) = t /\ adapter[w].session = "live"
    BY CommitNeedsSession
  <2>2. w \notin service.held
    BY <2>1 DEF HaltInv
  <2> QED
    BY <2>1, <2>2
<1> QED
  BY <1>1, TypeCorrect, DownAndHalt, PTL DEF Spec, HaltKeepsOffsets

-----------------------------------------------------------------------------
(* What becomes of the documents of a committed message. *)

(* The worker is somewhere in Store. *)
Storing(w) == worker[w].pc \in {"ensure", "create", "insert", "haltEnsure"}

(* The message whose documents are being handed over. *)
Pending(w) == IF Storing(w) THEN {worker[w].msg} ELSE {}

DocumentDone(t, o, i) ==
    \/ Doomed(o, i)
    \/ Document(t, o, i) \in stored \cup lost \cup bulk.queue

(* The documents before the one in hand are done, all of them before the   *)
(* message is marked; and so are the messages before it.                   *)
WorkerInv(w) ==
    /\ Storing(w) =>
          /\ worker[w].item \in 1 .. Len(Content[worker[w].msg])
          /\ \A i \in 1 .. worker[w].item - 1 :
                DocumentDone(TopicOf(w), worker[w].msg, i)
    /\ worker[w].pc \in {"mark", "haltInsert"} => Accounted(TopicOf(w), worker[w].msg)
    /\ worker[w].pc \notin {"none", "select", "returned"} =>
          \A o \in 0 .. worker[w].msg - 1 : Accounted(TopicOf(w), o)

(* What precedes a message of the channel in its log precedes it in the    *)
(* channel too, or is in hand, or is done; the channel may hold messages   *)
(* of earlier sessions, and those come before.                             *)
ChannelInv(w) ==
    \A j \in 1 .. Len(adapter[w].messages) :
        \A o \in 0 .. adapter[w].messages[j] - 1 :
            \/ Accounted(TopicOf(w), o)
            \/ o \in Pending(w)
            \/ \E k \in 1 .. j - 1 : adapter[w].messages[k] = o

(* A session has passed nothing but what is on its way, and has marked     *)
(* nothing but what is done.                                               *)
SessionInv(w) ==
    adapter[w].session = "live" =>
        /\ \A o \in 0 .. adapter[w].pos - 1 :
              \/ Accounted(TopicOf(w), o)
              \/ o \in Pending(w)
              \/ \E k \in 1 .. Len(adapter[w].messages) :
                    adapter[w].messages[k] = o
        /\ \A o \in 0 .. adapter[w].marked - 1 : Accounted(TopicOf(w), o)

(* The way of the messages through a worker. *)
PathInv(w) ==
    /\ WorkerInv(w)
    /\ ChannelInv(w)
    /\ SessionInv(w)

CommittedInv(t) == \A o \in 0 .. committed[t] - 1 : Accounted(t, o)

DeliveryInv ==
    /\ \A w \in Worker : PathInv(w)
    /\ \A t \in Topic : CommittedInv(t)

USE DEF TopicOf

(* What every step but the end of a process does with the documents: none  *)
(* that is fit to be stored is forgotten.                                  *)
Keeps ==
    /\ \A d \in stored \cup lost \cup bulk.queue :
          d \in stored' \cup lost' \cup bulk'.queue \/ QualityOf(d) # "ok"
    /\ skipped \subseteq skipped'

(* A document that is not fit is doomed. *)
LEMMA UnfitDoomed ==
    ASSUME NEW o \in Offset, NEW i \in 1 .. Len(Content[o]),
           Content[o][i] # "ok"
    PROVE  Doomed(o, i)
<1>1. Content[o][i] \in Quality
  BY ContentTyped
<1>2. i \in 1 .. i
  BY ContentTyped
<1> QED
  BY <1>1, <1>2 DEF Doomed, Quality

(* A document that is done stays done. *)
LEMMA DoneGrows ==
    ASSUME Keeps, NEW t, NEW o \in Offset, NEW i \in 1 .. Len(Content[o]),
           DocumentDone(t, o, i)
    PROVE  DocumentDone(t, o, i)'
<1>1. CASE Doomed(o, i)
  BY <1>1 DEF DocumentDone, Doomed
<1>2. CASE Document(t, o, i) \in stored \cup lost \cup bulk.queue
  <2>1. QualityOf(Document(t, o, i)) = Content[o][i]
    BY DEF QualityOf, Document
  <2>2. CASE Content[o][i] = "ok"
    BY <1>2, <2>1, <2>2 DEF Keeps, DocumentDone, Document
  <2>3. CASE Content[o][i] # "ok"
    BY <2>3, UnfitDoomed DEF DocumentDone, Doomed
  <2> QED
    BY <2>2, <2>3
<1> QED
  BY <1>1, <1>2 DEF DocumentDone

(* So does a message. *)
LEMMA AccountedGrows ==
    ASSUME Keeps, NEW t, NEW o \in Offset, Accounted(t, o)
    PROVE  Accounted(t, o)'
<1> SUFFICES ASSUME NEW i \in 1 .. Len(Content[o])
             PROVE  DocumentDone(t, o, i)' \/ <<t, o>> \in skipped'
  BY DEF Accounted, DocumentDone
<1>1. DocumentDone(t, o, i) \/ <<t, o>> \in skipped
  BY DEF Accounted, DocumentDone
<1> QED
  BY <1>1, DoneGrows DEF Keeps

(* The offsets the invariant speaks of. *)
LEMMA Offsets ==
    ASSUME TypeOK, NEW w \in Worker
    PROVE  /\ 0 .. worker[w].msg - 1 \subseteq Offset
           /\ worker[w].msg \in Offset
           /\ 0 .. adapter[w].pos - 1 \subseteq Offset
           /\ 0 .. adapter[w].marked - 1 \subseteq Offset
           /\ 0 .. committed[TopicOf(w)] - 1 \subseteq Offset
           /\ \A j \in 1 .. Len(adapter[w].messages) :
                 /\ adapter[w].messages[j] \in Offset
                 /\ 0 .. adapter[w].messages[j] - 1 \subseteq Offset
<1>1. /\ worker[w].msg \in 0 .. MaxLog - 1
      /\ adapter[w].pos \in 0 .. MaxLog
      /\ adapter[w].marked \in 0 .. MaxLog
      /\ committed[TopicOf(w)] \in 0 .. MaxLog
      /\ adapter[w].messages \in Seq(Offset)
  BY WorkerTyped DEF WorkerState, AdapterState, Offset
<1>2. \A j \in 1 .. Len(adapter[w].messages) : adapter[w].messages[j] \in Offset
  BY <1>1
<1>3. ASSUME NEW n \in 0 .. MaxLog PROVE 0 .. n - 1 \subseteq Offset
  BY ContentAssumption DEF Offset
<1>4. \A n \in Offset : n \in 0 .. MaxLog
  BY ContentAssumption DEF Offset
<1> QED
  BY <1>1, <1>2, <1>3, <1>4 DEF Offset

-----------------------------------------------------------------------------
(* The parts of the invariant, where a step leaves alone what they speak   *)
(* of: only a message that leaves the worker's hands has to be looked at.  *)

Hands(w) == \A o \in Pending(w) : o \in Pending(w)' \/ Accounted(TopicOf(w), o)'

LEMMA WorkerInvNext ==
    ASSUME NEW w, NEW m, worker'[w].msg = m,
           Storing(w)' =>
              /\ worker'[w].item \in 1 .. Len(Content[m])
              /\ \A i \in 1 .. worker'[w].item - 1 : DocumentDone(TopicOf(w), m, i)',
           worker'[w].pc \in {"mark", "haltInsert"} => Accounted(TopicOf(w), m)',
           worker'[w].pc \notin {"none", "select", "returned"} =>
              \A o \in 0 .. m - 1 : Accounted(TopicOf(w), o)'
    PROVE  WorkerInv(w)'
BY DEF WorkerInv, Storing, DocumentDone, Accounted, Doomed, Document

LEMMA WorkerFrame ==
    ASSUME TypeOK, Keeps, NEW w \in Worker, WorkerInv(w),
           worker'[w].msg = worker[w].msg,
           worker'[w].item = worker[w].item,
           \/ worker'[w].pc = worker[w].pc
           \/ Storing(w) /\ Storing(w)'
           \/ worker[w].pc \in {"mark", "haltInsert"} /\ worker'[w].pc = "mark"
           \/ worker'[w].pc \in {"none", "select", "returned"} /\ ~Storing(w)
    PROVE  WorkerInv(w)' /\ Hands(w)
<1>0. PICK m \in Offset : m = worker[w].msg
  BY Offsets
<1>1. Hands(w)
  BY DEF Hands, Pending, Storing
<1>2. ASSUME Storing(w)'
      PROVE  /\ worker'[w].item \in 1 .. Len(Content[m])
             /\ \A i \in 1 .. worker'[w].item - 1 : DocumentDone(TopicOf(w), m, i)'
  <2>1. Storing(w)
    BY <1>2 DEF Storing
  <2>2. /\ worker[w].item \in 1 .. Len(Content[m])
        /\ \A i \in 1 .. worker[w].item - 1 : DocumentDone(TopicOf(w), m, i)
    BY <1>0, <2>1 DEF WorkerInv
  <2>3. \A i \in 1 .. worker[w].item - 1 : i \in 1 .. Len(Content[m])
    BY <2>2, ContentTyped
  <2>4. \A i \in 1 .. worker[w].item - 1 : DocumentDone(TopicOf(w), m, i)'
    BY <2>2, <2>3, DoneGrows
  <2> QED
    BY <2>2, <2>4
<1>3. ASSUME worker'[w].pc \in {"mark", "haltInsert"}
      PROVE  Accounted(TopicOf(w), m)'
  <2>1. Accounted(TopicOf(w), m)
    BY <1>0, <1>3 DEF WorkerInv, Storing
  <2> QED
    BY <2>1, AccountedGrows
<1>4. ASSUME worker'[w].pc \notin {"none", "select", "returned"}
      PROVE  \A o \in 0 .. m - 1 : Accounted(TopicOf(w), o)'
  BY <1>0, <1>4, Offsets, AccountedGrows DEF WorkerInv, Storing
<1>5. WorkerInv(w)'
  BY <1>0, <1>2, <1>3, <1>4, WorkerInvNext
<1> QED
  BY <1>1, <1>5

LEMMA ChannelFrame ==
    ASSUME TypeOK, Keeps, NEW w \in Worker, Hands(w), ChannelInv(w),
           adapter'[w].messages = adapter[w].messages
    PROVE  ChannelInv(w)'
<1> SUFFICES ASSUME NEW j \in 1 .. Len(adapter[w].messages),
                    NEW o \in 0 .. adapter[w].messages[j] - 1
             PROVE  \/ Accounted(TopicOf(w), o)'
                    \/ o \in Pending(w)'
                    \/ \E k \in 1 .. j - 1 : adapter[w].messages[k] = o
  BY DEF ChannelInv
<1>1. \/ Accounted(TopicOf(w), o)
      \/ o \in Pending(w)
      \/ \E k \in 1 .. j - 1 : adapter[w].messages[k] = o
  BY DEF ChannelInv
<1>2. o \in Offset
  BY Offsets
<1> QED
  BY <1>1, <1>2, AccountedGrows DEF Hands

LEMMA SessionFrame ==
    ASSUME TypeOK, Keeps, NEW w \in Worker, Hands(w), SessionInv(w),
           adapter'[w] = adapter[w]
    PROVE  SessionInv(w)'
<1> SUFFICES ASSUME adapter[w].session = "live"
             PROVE  /\ \A o \in 0 .. adapter[w].pos - 1 :
                          \/ Accounted(TopicOf(w), o)'
                          \/ o \in Pending(w)'
                          \/ \E k \in 1 .. Len(adapter[w].messages) :
                                adapter[w].messages[k] = o
                    /\ \A o \in 0 .. adapter[w].marked - 1 : Accounted(TopicOf(w), o)'
  BY DEF SessionInv
<1>1. ASSUME NEW o \in 0 .. adapter[w].pos - 1
      PROVE  \/ Accounted(TopicOf(w), o)'
             \/ o \in Pending(w)'
             \/ \E k \in 1 .. Len(adapter[w].messages) :
                   adapter[w].messages[k] = o
  <2>1. \/ Accounted(TopicOf(w), o)
        \/ o \in Pending(w)
        \/ \E k \in 1 .. Len(adapter[w].messages) : adapter[w].messages[k] = o
    BY DEF SessionInv
  <2>2. o \in Offset
    BY Offsets
  <2> QED
    BY <2>1, <2>2, AccountedGrows DEF Hands
<1>2. \A o \in 0 .. adapter[w].marked - 1 : Accounted(TopicOf(w), o)'
  BY Offsets, AccountedGrows DEF SessionInv
<1> QED
  BY <1>1, <1>2 DEF SessionInv

LEMMA CommittedFrame ==
    ASSUME TypeOK, Keeps, NEW t \in Topic, CommittedInv(t),
           committed'[t] = committed[t]
    PROVE  CommittedInv(t)'
<1>1. \A o \in 0 .. committed[t] - 1 : o \in Offset
  BY ContentAssumption DEF TypeOK, Offset
<1> QED
  BY <1>1, AccountedGrows DEF CommittedInv

(* A step of the worker that leaves the adapter alone. *)
LEMMA Grow ==
    ASSUME TypeOK, Keeps, NEW w \in Worker, PathInv(w),
           WorkerInv(w)', Hands(w), adapter'[w] = adapter[w]
    PROVE  PathInv(w)'
BY ChannelFrame, SessionFrame DEF PathInv

(* A step of someone else. *)
LEMMA Frame ==
    ASSUME TypeOK, Keeps, NEW w \in Worker, PathInv(w),
           adapter'[w] = adapter[w], worker'[w] = worker[w]
    PROVE  PathInv(w)'
<1>1. WorkerInv(w)' /\ Hands(w)
  BY WorkerFrame DEF PathInv
<1> QED
  BY <1>1, Grow

(* A step that touches one worker only. *)
LEMMA OneWorker ==
    ASSUME TypeOK, Keeps, \A v \in Worker : PathInv(v),
           NEW w \in Worker, PathInv(w)',
           \A v \in Worker \ {w} : /\ adapter'[v] = adapter[v]
                                   /\ worker'[v] = worker[v]
    PROVE  \A v \in Worker : PathInv(v)'
<1> SUFFICES ASSUME NEW v \in Worker, v # w PROVE PathInv(v)'
  OBVIOUS
<1> QED
  BY Frame

(* What is committed was committed before, or a live session has marked    *)
(* it.                                                                     *)
LEMMA CommittedStep ==
    ASSUME TypeOK, Keeps, \A t \in Topic : CommittedInv(t),
           \/ committed' = committed
           \/ \E w \in Worker : /\ adapter[w].session = "live"
                                /\ Commit(w)
                                /\ PathInv(w)
    PROVE  \A t \in Topic : CommittedInv(t)'
<1> SUFFICES ASSUME NEW t \in Topic, committed'[t] # committed[t]
             PROVE  CommittedInv(t)'
  BY CommittedFrame
<1>1. PICK w \in Worker : /\ adapter[w].session = "live"
                          /\ Commit(w)
                          /\ PathInv(w)
  OBVIOUS
<1>2. TopicOf(w) = t /\ committed'[t] = adapter[w].marked
  BY <1>1 DEF Commit, TypeOK
<1>3. \A o \in 0 .. adapter[w].marked - 1 : o \in Offset /\ Accounted(t, o)
  BY <1>1, <1>2, Offsets DEF PathInv, SessionInv
<1> QED
  BY <1>2, <1>3, AccountedGrows DEF CommittedInv

-----------------------------------------------------------------------------
(* The documents of the message in hand. *)

(* The last document is done with: the message may be marked. *)
LEMMA MessageDone ==
    ASSUME TypeOK, Keeps, NEW w \in Worker, WorkerInv(w), Storing(w),
           worker'[w].msg = worker[w].msg,
           worker'[w].pc \in {"mark", "haltInsert"},
           NEW m \in Offset, m = worker[w].msg, Accounted(TopicOf(w), m)'
    PROVE  WorkerInv(w)' /\ Hands(w)
<1>1. Hands(w)
  BY DEF Hands, Pending
<1>2. \A o \in 0 .. m - 1 : Accounted(TopicOf(w), o)'
  BY Offsets, AccountedGrows DEF WorkerInv, Storing
<1>3. ~Storing(w)'
  BY DEF Storing
<1>4. WorkerInv(w)'
  BY <1>2, <1>3, WorkerInvNext
<1> QED
  BY <1>1, <1>4

(* Store returned without error: on to the next document, if there is one. *)
LEMMA ItemDone ==
    ASSUME TypeOK, Keeps, NEW w \in Worker, WorkerInv(w), Storing(w),
           worker'[w] = NextItem(w),
           NEW m \in Offset, m = worker[w].msg,
           NEW n \in Nat, n = worker[w].item, DocumentDone(TopicOf(w), m, n)'
    PROVE  WorkerInv(w)' /\ Hands(w)
<1>1. /\ n \in 1 .. Len(Content[m])
      /\ \A i \in 1 .. n - 1 : DocumentDone(TopicOf(w), m, i)
      /\ Len(Content[m]) \in Nat
  BY ContentTyped DEF WorkerInv
<1>2. \A i \in 1 .. n - 1 : i \in 1 .. Len(Content[m])
  BY <1>1
<1>3. \A i \in 1 .. n - 1 : DocumentDone(TopicOf(w), m, i)'
  BY <1>1, <1>2, DoneGrows
<1>4. \A i \in 1 .. n : i = n \/ i \in 1 .. n - 1
  BY <1>1
<1>5. \A i \in 1 .. n : DocumentDone(TopicOf(w), m, i)'
  BY <1>3, <1>4
<1>6. worker[w] \in WorkerState
  BY WorkerTyped
<1>7. CASE n < Len(Content[m])
  <2>1. worker'[w] = [worker[w] EXCEPT !.pc = "ensure", !.item = n + 1,
                                       !.retry = 0]
    BY <1>7 DEF NextItem
  <2>2. /\ worker'[w].pc = "ensure"
        /\ worker'[w].msg = m
        /\ worker'[w].item = n + 1
    BY <1>6, <2>1 DEF WorkerState
  <2>3. Hands(w)
    BY <2>2 DEF Hands, Pending, Storing
  <2>4. \A o \in 0 .. m - 1 : Accounted(TopicOf(w), o)'
    BY Offsets, AccountedGrows DEF WorkerInv, Storing
  <2>5. n + 1 \in 1 .. Len(Content[m]) /\ (n + 1) - 1 = n
    BY <1>1, <1>7
  <2>6. WorkerInv(w)'
    BY <1>5, <2>2, <2>4, <2>5, WorkerInvNext
  <2> QED
    BY <2>3, <2>6
<1>8. CASE ~(n < Len(Content[m]))
  <2>1. n = Len(Content[m])
    BY <1>1, <1>8
  <2>2. Accounted(TopicOf(w), m)'
    BY <1>5, <2>1 DEF Accounted, DocumentDone
  <2>3. worker'[w] = [worker[w] EXCEPT !.pc = "mark", !.retry = 0]
    BY <1>8 DEF NextItem, Handled
  <2>4. worker'[w].pc = "mark" /\ worker'[w].msg = worker[w].msg
    BY <1>6, <2>3 DEF WorkerState
  <2> QED
    BY <2>2, <2>4, MessageDone
<1> QED
  BY <1>7, <1>8

(* onStoreTimber leaves the message: the documents that are left are       *)
(* doomed, or were given up on.                                            *)
LEMMA RestDone ==
    ASSUME TypeOK, Keeps, NEW w \in Worker, WorkerInv(w), Storing(w),
           NEW m \in Offset, m = worker[w].msg,
           \/ Content[m][worker[w].item] = "noFields"
           \/ Remaining(w) \subseteq lost'
    PROVE  Accounted(TopicOf(w), m)'
<1> DEFINE n == worker[w].item
<1>1. /\ n \in 1 .. Len(Content[m])
      /\ \A i \in 1 .. n - 1 : DocumentDone(TopicOf(w), m, i)
      /\ Len(Content[m]) \in Nat
  BY ContentTyped DEF WorkerInv
<1> SUFFICES ASSUME NEW i \in 1 .. Len(Content[m])
             PROVE  DocumentDone(TopicOf(w), m, i)'
  BY DEF Accounted, DocumentDone
<1>2. CASE i < n
  <2>1. i \in 1 .. n - 1
    BY <1>1, <1>2
  <2> QED
    BY <1>1, <2>1, DoneGrows
<1>3. CASE ~(i < n)
  <2>1. i \in n .. Len(Content[m]) /\ n \in 1 .. i
    BY <1>1, <1>3
  <2>2. CASE Content[m][n] = "noFields"
    BY <2>1, <2>2 DEF DocumentDone, Doomed
  <2>3. CASE Remaining(w) \subseteq lost'
    <3>1. CASE Content[m][i] = "ok"
      <4>1. QualityOf(Document(TopicOf(w), m, i)) = "ok"
        BY <3>1 DEF QualityOf, Document
      <4>2. Document(TopicOf(w), m, i) \in Remaining(w)
        BY <2>1, <4>1 DEF Remaining, Fit
      <4> QED
        BY <2>3, <4>2 DEF DocumentDone, Document
    <3>2. CASE Content[m][i] # "ok"
      BY <3>2, UnfitDoomed DEF DocumentDone, Doomed
    <3> QED
      BY <3>1, <3>2
  <2> QED
    BY <2>2, <2>3
<1> QED
  BY <1>2, <1>3

(* What a step of Store leaves alone. *)
LEMMA StoreLeaves ==
    ASSUME TypeOK, NEW w \in Worker, Store(w), ~RedactPanics(w)
    PROVE  /\ Keeps
           /\ UNCHANGED <<adapter, committed>>
           /\ \A v \in Worker \ {w} : worker'[v] = worker[v]
<1>1. CASE \/ IndexCached(w) \/ IndexExists(w) \/ CreateIndex(w)
           \/ EnsureFails(w) \/ EnsureUnanswered(w) \/ ConvertFails(w)
           \/ Halted(w)
  <2>1. UNCHANGED <<adapter, committed, stored, lost, bulk, skipped>>
    BY <1>1 DEF IndexCached, IndexExists, CreateIndex, EnsureFails,
         EnsureUnanswered, ConvertFails, Halted, kafka, elastic, history
  <2>2. \A v \in Worker \ {w} : worker'[v] = worker[v]
    BY <1>1 DEF IndexCached, IndexExists, CreateIndex, EnsureFails,
         EnsureUnanswered, ConvertFails, Halted, TypeOK
  <2> QED
    BY <2>1, <2>2 DEF Keeps
<1>2. CASE bulkInsert(w)
  <2>1. bulk'.queue = bulk.queue \cup {InHand(w)}
    BY <1>2 DEF bulkInsert, TypeOK, BulkState
  <2>2. UNCHANGED <<adapter, committed, stored, lost, skipped>>
    BY <1>2 DEF bulkInsert, kafka, elastic, history
  <2>3. \A v \in Worker \ {w} : worker'[v] = worker[v]
    BY <1>2 DEF bulkInsert, TypeOK
  <2> QED
    BY <2>1, <2>2, <2>3 DEF Keeps
<1>3. CASE \/ singleInsert(w) \/ singleInsertFails(w)
           \/ singleInsertUnanswered(w)
  <2>1. /\ stored \subseteq stored'
        /\ lost \subseteq lost'
        /\ UNCHANGED <<adapter, committed, bulk, skipped>>
    BY <1>3 DEF singleInsert, singleInsertFails, singleInsertUnanswered,
         kafka, elastic, history
  <2>2. \A v \in Worker \ {w} : worker'[v] = worker[v]
    BY <1>3 DEF singleInsert, singleInsertFails, singleInsertUnanswered, TypeOK
  <2> QED
    BY <2>1, <2>2 DEF Keeps
<1> QED
  BY <1>1, <1>2, <1>3 DEF Store

(* A step of Store keeps the promise about the message in hand. *)
LEMMA StoreWorker ==
    ASSUME TypeOK, NEW w \in Worker, WorkerInv(w), Store(w), ~RedactPanics(w)
    PROVE  WorkerInv(w)' /\ Hands(w)
<1>0. PICK m \in Offset : m = worker[w].msg
  BY Offsets
<1>1. PICK n \in Nat : n = worker[w].item
  BY WorkerTyped DEF WorkerState
<1>2. Keeps
  BY StoreLeaves
<1>3. worker[w] \in WorkerState /\ worker \in [Worker -> WorkerState]
  BY DEF TypeOK
<1>4. CASE \/ IndexCached(w) \/ IndexExists(w) \/ CreateIndex(w)
           \/ EnsureFails(w) \/ EnsureUnanswered(w)
  <2>1. /\ worker'[w].msg = worker[w].msg
        /\ worker'[w].item = worker[w].item
        /\ Storing(w)
    BY <1>3, <1>4 DEF IndexCached, IndexExists, CreateIndex, EnsureFails,
         EnsureUnanswered, AfterHalt, WorkerState, Storing
  <2>2. worker'[w].pc \in {"ensure", "create", "insert", "haltEnsure"}
    BY <1>3, <1>4 DEF IndexCached, IndexExists, CreateIndex, EnsureFails,
         EnsureUnanswered, AfterHalt, WorkerState
  <2> QED
    BY <1>2, <2>1, <2>2, WorkerFrame DEF Storing
<1>5. CASE ConvertFails(w)
  <2>1. Storing(w) /\ Content[m][worker[w].item] = "noFields"
    BY <1>0, <1>5 DEF ConvertFails, Storing, QualityOf, InHand, Document
  <2>2. worker'[w].pc = "mark" /\ worker'[w].msg = worker[w].msg
    BY <1>3, <1>5 DEF ConvertFails, Handled, WorkerState
  <2>3. Accounted(TopicOf(w), m)'
    BY <1>0, <1>2, <2>1, RestDone
  <2> QED
    BY <1>0, <1>2, <2>1, <2>2, <2>3, MessageDone
<1>6. CASE bulkInsert(w)
  <2>1. Storing(w) /\ worker'[w] = NextItem(w)
    BY <1>3, <1>6 DEF bulkInsert, Redacted, Storing
  <2>2. Document(TopicOf(w), m, n) \in bulk'.queue
    BY <1>0, <1>1, <1>6 DEF bulkInsert, InHand, TypeOK, BulkState
  <2>3. DocumentDone(TopicOf(w), m, n)'
    BY <2>2 DEF DocumentDone, Document
  <2> QED
    BY <1>0, <1>1, <1>2, <2>1, <2>3, ItemDone
<1>7. CASE singleInsert(w)
  <2>1. Storing(w) /\ worker'[w] = NextItem(w)
    BY <1>3, <1>7 DEF singleInsert, Redacted, Storing
  <2>2. Document(TopicOf(w), m, n) \in stored'
    BY <1>0, <1>1, <1>7 DEF singleInsert, InHand
  <2>3. DocumentDone(TopicOf(w), m, n)'
    BY <2>2 DEF DocumentDone, Document
  <2> QED
    BY <1>0, <1>1, <1>2, <2>1, <2>3, ItemDone
<1>8. CASE singleInsertFails(w)
  <2>1. Storing(w) /\ Remaining(w) \subseteq lost'
    BY <1>8 DEF singleInsertFails, Redacted, Storing
  <2>2. worker'[w].pc = "mark" /\ worker'[w].msg = worker[w].msg
    BY <1>3, <1>8 DEF singleInsertFails, Handled, WorkerState
  <2>3. Accounted(TopicOf(w), m)'
    BY <1>0, <1>2, <2>1, RestDone
  <2> QED
    BY <1>0, <1>2, <2>1, <2>2, <2>3, MessageDone
<1>9. CASE singleInsertUnanswered(w)
  <2>1. Storing(w)
    BY <1>9 DEF singleInsertUnanswered, Redacted, Storing
  <2>2. CASE MaxRetryReached(worker[w].retry + 1)
    <3>1. /\ worker'[w].pc \in {"mark", "haltInsert"}
          /\ worker'[w].msg = worker[w].msg
          /\ Remaining(w) \subseteq lost'
      BY <1>3, <1>9, <2>2 DEF singleInsertUnanswered, AfterHalt, WorkerState
    <3>2. Accounted(TopicOf(w), m)'
      BY <1>0, <1>2, <2>1, <3>1, RestDone
    <3> QED
      BY <1>0, <1>2, <2>1, <3>1, <3>2, MessageDone
  <2>3. CASE ~MaxRetryReached(worker[w].retry + 1)
    <3>1. /\ worker'[w].pc = worker[w].pc
          /\ worker'[w].msg = worker[w].msg
          /\ worker'[w].item = worker[w].item
      BY <1>3, <1>9, <2>3 DEF singleInsertUnanswered, WorkerState
    <3> QED
      BY <1>2, <3>1, WorkerFrame
  <2> QED
    BY <2>2, <2>3
<1>10. CASE Halted(w)
  <2>1. /\ worker'[w].msg = worker[w].msg
        /\ worker'[w].item = worker[w].item
        /\ worker[w].pc \in {"haltEnsure", "haltInsert"}
        /\ worker'[w].pc = IF worker[w].pc = "haltEnsure" THEN "ensure" ELSE "mark"
    BY <1>3, <1>10 DEF Halted, WorkerState
  <2>2. \/ Storing(w) /\ Storing(w)'
        \/ worker[w].pc \in {"mark", "haltInsert"} /\ worker'[w].pc = "mark"
    BY <2>1 DEF Storing
  <2> QED
    BY <1>2, <2>1, <2>2, WorkerFrame
<1> QED
  BY <1>4, <1>5, <1>6, <1>7, <1>8, <1>9, <1>10 DEF Store

LEMMA StoreStep ==
    ASSUME TypeOK, DeliveryInv, NEW w \in Worker, Store(w), ~RedactPanics(w)
    PROVE  DeliveryInv'
<1>1. WorkerInv(w)' /\ Hands(w)
  BY StoreWorker DEF DeliveryInv, PathInv
<1>2. PathInv(w)'
  BY <1>1, StoreLeaves, Grow DEF DeliveryInv
<1>3. \A v \in Worker : PathInv(v)'
  BY <1>2, StoreLeaves, OneWorker DEF DeliveryInv
<1> QED
  BY <1>3, StoreLeaves, CommittedStep DEF DeliveryInv

-----------------------------------------------------------------------------
(* The steps of a session. *)

(* A step that changes no document and leaves the message in hand alone. *)
Quiet(w) ==
    /\ UNCHANGED <<stored, lost, bulk>>
    /\ skipped \subseteq skipped'
    /\ worker'[w].pc = worker[w].pc
    /\ worker'[w].msg = worker[w].msg
    /\ worker'[w].item = worker[w].item

LEMMA QuietWorker ==
    ASSUME TypeOK, NEW w \in Worker, WorkerInv(w), Quiet(w)
    PROVE  Keeps /\ WorkerInv(w)' /\ Hands(w) /\ Pending(w)' = Pending(w)
<1>1. Keeps
  BY DEF Keeps, Quiet
<1> QED
  BY <1>1, WorkerFrame DEF Quiet, Pending, Storing

LEMMA SetupStep ==
    ASSUME TypeOK, NEW w \in Worker, PathInv(w), CommittedInv(TopicOf(w)),
           Setup(w)
    PROVE  Keeps /\ PathInv(w)'
<1>1. Quiet(w)
  BY DEF Setup, Quiet, kafka, elastic
<1>2. Keeps /\ WorkerInv(w)' /\ Hands(w)
  BY <1>1, QuietWorker DEF PathInv
<1>3. /\ adapter'[w].session = "live"
      /\ adapter'[w].pos = FirstOffset(w)
      /\ adapter'[w].marked = committed[TopicOf(w)]
      /\ adapter'[w].messages = adapter[w].messages
      /\ committed'[TopicOf(w)] = committed[TopicOf(w)]
  BY WorkerTyped DEF Setup, TypeOK, AdapterState, kafka
<1>4. ChannelInv(w)'
  BY <1>2, <1>3, ChannelFrame DEF PathInv
<1>5. CommittedInv(TopicOf(w))'
  BY <1>2, <1>3, WorkerTopic, CommittedFrame
<1>6. PICK c \in 0 .. MaxLog : c = committed[TopicOf(w)]
  BY WorkerTyped
<1>7. \A o \in 0 .. c - 1 : Accounted(TopicOf(w), o)'
  BY <1>3, <1>5, <1>6 DEF CommittedInv
<1>8. PICK f \in 0 .. MaxLog : f = FirstOffset(w)
  BY FirstOffsetTyped
<1>9. ASSUME NEW o \in 0 .. f - 1 PROVE Accounted(TopicOf(w), o)'
  <2>1. CASE o < c
    BY <1>6, <1>7, <2>1
  <2>2. CASE ~(o < c)
    <3>1. o \in c .. f - 1
      BY <1>6, <1>8, <2>2
    <3>2. <<TopicOf(w), o>> \in skipped'
      BY <1>6, <1>8, <3>1 DEF Setup
    <3> QED
      BY <3>2 DEF Accounted
  <2> QED
    BY <2>1, <2>2
<1>10. SessionInv(w)'
  BY <1>3, <1>6, <1>7, <1>8, <1>9 DEF SessionInv
<1> QED
  BY <1>2, <1>4, <1>10 DEF PathInv

(* The commits of a session, at its end too, and the other steps that      *)
(* leave its messages and marks alone.                                     *)
LEMMA CommitStep ==
    ASSUME TypeOK, NEW w \in Worker, PathInv(w),
           AutoCommit(w) \/ Cleanup(w) \/ (\E k \in Closer : Stop(k, w))
    PROVE  Keeps /\ PathInv(w)'
<1>0. worker[w] \in WorkerState /\ adapter[w] \in AdapterState
  BY WorkerTyped
<1>1. Quiet(w)
  BY <1>0 DEF AutoCommit, Cleanup, Stop, Quiet, elastic, history, TypeOK,
              WorkerState
<1>2. Keeps /\ WorkerInv(w)' /\ Hands(w)
  BY <1>1, QuietWorker DEF PathInv
<1>3. /\ adapter'[w].messages = adapter[w].messages
      /\ adapter'[w] = adapter[w] \/ adapter'[w].session # "live"
  BY <1>0 DEF AutoCommit, Cleanup, Stop, TypeOK, AdapterState
<1>4. ChannelInv(w)'
  BY <1>2, <1>3, ChannelFrame DEF PathInv
<1>5. SessionInv(w)'
  <2>1. CASE adapter'[w] = adapter[w]
    BY <1>2, <2>1, SessionFrame DEF PathInv
  <2>2. CASE adapter'[w].session # "live"
    BY <2>2 DEF SessionInv
  <2> QED
    BY <1>3, <2>1, <2>2
<1> QED
  BY <1>2, <1>4, <1>5 DEF PathInv

(* A worker comes into being, or does not. *)
LEMMA SpawnStep ==
    ASSUME TypeOK, NEW w \in Worker, PathInv(w),
           spawnLogsWorker(w) \/ spawnLogsWorkerFails(w)
    PROVE  Keeps /\ PathInv(w)'
<1>0. worker[w] \in WorkerState /\ adapter[w] \in AdapterState
  BY WorkerTyped
<1>1. Keeps
  <2>1. UNCHANGED <<stored, lost, bulk, skipped>>
    BY DEF spawnLogsWorker, spawnLogsWorkerFails, elastic, history
  <2> QED
    BY <2>1 DEF Keeps
<1>2. worker[w].pc = "none" /\ worker'[w].pc \in {"none", "select", "returned"}
  <2>1. worker[w].pc = "none"
    BY DEF spawnLogsWorker, spawnLogsWorkerFails, MaySpawn
  <2>2. \/ worker' = worker
        \/ worker' = [worker EXCEPT ![w] = NewConsumerWorker]
        \/ worker' = [worker EXCEPT ![w].pc = "returned"]
    BY DEF spawnLogsWorker, spawnLogsWorkerFails
  <2>3. NewConsumerWorker.pc = "select"
    BY DEF NewConsumerWorker, NotSpawned
  <2> QED
    BY <1>0, <2>1, <2>2, <2>3 DEF TypeOK, WorkerState
<1>3. WorkerInv(w)' /\ Hands(w)
  BY <1>2 DEF WorkerInv, Hands, Pending, Storing
<1>4. /\ adapter'[w].messages = adapter[w].messages
      /\ adapter'[w] = adapter[w] \/ adapter'[w].session # "live"
  <2>1. \/ adapter' = adapter
        \/ adapter' = [adapter EXCEPT ![w].session = "closed"]
    BY DEF spawnLogsWorker, spawnLogsWorkerFails
  <2> QED
    BY <1>0, <2>1 DEF TypeOK, AdapterState
<1>5. ChannelInv(w)'
  BY <1>1, <1>3, <1>4, ChannelFrame DEF PathInv
<1>6. SessionInv(w)'
  <2>1. CASE adapter'[w] = adapter[w]
    BY <1>1, <1>3, <2>1, SessionFrame DEF PathInv
  <2>2. CASE adapter'[w].session # "live"
    BY <2>2 DEF SessionInv
  <2> QED
    BY <1>4, <2>1, <2>2
<1> QED
  BY <1>1, <1>3, <1>5, <1>6 DEF PathInv

(* A message enters the channel. *)
LEMMA ClaimStep ==
    ASSUME TypeOK, NEW w \in Worker, PathInv(w), ConsumeClaim(w)
    PROVE  Keeps /\ PathInv(w)'
<1> DEFINE s == adapter[w].messages
           p == adapter[w].pos
<1>0. /\ adapter[w] \in AdapterState
      /\ s \in Seq(Offset) /\ Len(s) \in Nat
      /\ p \in Nat
      /\ adapter[w].session = "live"
  BY WorkerTyped, OffsetNat DEF AdapterState, ConsumeClaim
<1>1. Quiet(w)
  BY DEF ConsumeClaim, Quiet, elastic, history
<1>2. Keeps /\ WorkerInv(w)' /\ Hands(w)
  BY <1>1, QuietWorker DEF PathInv
<1>3. /\ adapter'[w].messages = Append(s, p)
      /\ adapter'[w].pos = p + 1
      /\ adapter'[w].marked = adapter[w].marked
  BY <1>0 DEF ConsumeClaim, TypeOK, AdapterState
<1>4. /\ Len(Append(s, p)) = Len(s) + 1
      /\ \A j \in 1 .. Len(s) : Append(s, p)[j] = s[j]
      /\ Append(s, p)[Len(s) + 1] = p
  BY <1>0
<1>6. ASSUME NEW o \in 0 .. p - 1
      PROVE  \/ Accounted(TopicOf(w), o)'
             \/ o \in Pending(w)'
             \/ \E k \in 1 .. Len(s) : s[k] = o
  <2>1. \/ Accounted(TopicOf(w), o)
        \/ o \in Pending(w)
        \/ \E k \in 1 .. Len(s) : s[k] = o
    BY <1>0 DEF PathInv, SessionInv
  <2>2. o \in Offset
    BY Offsets
  <2> QED
    BY <1>2, <2>1, <2>2, AccountedGrows DEF Hands
<1>7. ASSUME NEW j \in 1 .. Len(s), NEW o \in 0 .. s[j] - 1
      PROVE  \/ Accounted(TopicOf(w), o)'
             \/ o \in Pending(w)'
             \/ \E k \in 1 .. j - 1 : s[k] = o
  <2>1. \/ Accounted(TopicOf(w), o)
        \/ o \in Pending(w)
        \/ \E k \in 1 .. j - 1 : s[k] = o
    BY DEF PathInv, ChannelInv
  <2>2. o \in Offset
    BY Offsets
  <2> QED
    BY <1>2, <2>1, <2>2, AccountedGrows DEF Hands
<1> HIDE DEF s, p
<1>8. ASSUME NEW j \in 1 .. Len(s) + 1, NEW o \in 0 .. Append(s, p)[j] - 1
      PROVE  \/ Accounted(TopicOf(w), o)'
             \/ o \in Pending(w)'
             \/ \E k \in 1 .. j - 1 : Append(s, p)[k] = o
  <2>1. CASE j = Len(s) + 1
    <3>1. \/ Accounted(TopicOf(w), o)'
          \/ o \in Pending(w)'
          \/ \E k \in 1 .. Len(s) : s[k] = o
      BY <1>4, <1>6, <2>1
    <3> QED
      BY <1>0, <1>4, <2>1, <3>1
  <2>2. CASE j \in 1 .. Len(s)
    <3>1. \/ Accounted(TopicOf(w), o)'
          \/ o \in Pending(w)'
          \/ \E k \in 1 .. j - 1 : s[k] = o
      BY <1>4, <1>7, <2>2
    <3>2. \A k \in 1 .. j - 1 : k \in 1 .. Len(s)
      BY <1>0, <2>2
    <3> QED
      BY <1>4, <3>1, <3>2
  <2> QED
    BY <1>0, <2>1, <2>2
<1>9. ChannelInv(w)'
  BY <1>3, <1>4, <1>8 DEF ChannelInv
<1>10. ASSUME NEW o \in 0 .. (p + 1) - 1
       PROVE  \/ Accounted(TopicOf(w), o)'
              \/ o \in Pending(w)'
              \/ \E k \in 1 .. Len(s) + 1 : Append(s, p)[k] = o
  <2>1. CASE o = p
    <3>1. Len(s) + 1 \in 1 .. Len(s) + 1
      BY <1>0
    <3> QED
      BY <1>4, <2>1, <3>1
  <2>2. CASE o \in 0 .. p - 1
    <3>1. \A k \in 1 .. Len(s) : k \in 1 .. Len(s) + 1
      BY <1>0
    <3> QED
      BY <1>4, <1>6, <2>2, <3>1
  <2> QED
    BY <1>0, <2>1, <2>2
<1>11. \A o \in 0 .. adapter[w].marked - 1 : Accounted(TopicOf(w), o)'
  BY <1>0, <1>2, Offsets, AccountedGrows DEF PathInv, SessionInv
<1>12. SessionInv(w)'
  BY <1>3, <1>4, <1>10, <1>11 DEF SessionInv
<1> QED
  BY <1>2, <1>9, <1>12 DEF PathInv

(* A message leaves the channel, and is in the worker's hand. *)
LEMMA ReceiveStep ==
    ASSUME TypeOK, NEW w \in Worker, PathInv(w), Receive(w)
    PROVE  Keeps /\ PathInv(w)'
<1> DEFINE s == adapter[w].messages
           t == Tail(adapter[w].messages)
<1>0. /\ adapter[w] \in AdapterState
      /\ s \in Seq(Offset) /\ s # <<>>
  BY WorkerTyped DEF AdapterState, Receive
<1>1. PICK m \in Offset : m = Head(s)
  BY <1>0
<1>2. /\ Len(s) \in Nat /\ Len(t) = Len(s) - 1
      /\ 1 \in 1 .. Len(s) /\ s[1] = m
      /\ \A j \in 1 .. Len(t) : t[j] = s[j + 1]
  BY <1>0, <1>1
<1>3. Keeps
  BY DEF Receive, Keeps, elastic, history
<1>4. /\ adapter'[w].messages = t
      /\ adapter'[w].session = adapter[w].session
      /\ adapter'[w].pos = adapter[w].pos
      /\ adapter'[w].marked = adapter[w].marked
  BY <1>0 DEF Receive, TypeOK, AdapterState
<1>5. /\ worker'[w].pc = IF ItemsOf(m) = <<>> THEN "mark" ELSE "ensure"
      /\ worker'[w].msg = m
      /\ worker'[w].item = 1
      /\ Pending(w) = {}
  BY <1>1, WorkerTyped DEF Receive, TypeOK, WorkerState, Pending, Storing
<1>6. \A o \in 0 .. m - 1 : Accounted(TopicOf(w), o)'
  <2>1. \A o \in 0 .. m - 1 : Accounted(TopicOf(w), o)
    BY <1>2, <1>5 DEF PathInv, ChannelInv
  <2>2. \A o \in 0 .. m - 1 : o \in Offset
    BY <1>2, Offsets
  <2> QED
    BY <1>3, <2>1, <2>2, AccountedGrows
<1>7. WorkerInv(w)' /\ (Accounted(TopicOf(w), m)' \/ m \in Pending(w)')
  <2>1. CASE m \in Unparsable \/ Content[m] = <<>>
    <3>1. worker'[w].pc = "mark" /\ ~Storing(w)'
      BY <1>5, <2>1 DEF Storing, ItemsOf
    <3>2. Accounted(TopicOf(w), m)'
      <4>1. CASE m \in Unparsable
        BY <4>1 DEF Accounted, Doomed
      <4>2. CASE Content[m] = <<>>
        <5>1. 1 .. Len(Content[m]) = {}
          BY <4>2
        <5> QED
          BY <5>1 DEF Accounted
      <4> QED
        BY <2>1, <4>1, <4>2
    <3> QED
      BY <1>5, <1>6, <3>1, <3>2, WorkerInvNext
  <2>2. CASE ~(m \in Unparsable \/ Content[m] = <<>>)
    <3>1. worker'[w].pc = "ensure"
      BY <1>5, <2>2 DEF ItemsOf
    <3>2. m \in Pending(w)'
      BY <1>5, <3>1 DEF Pending, Storing
    <3>3. 1 \in 1 .. Len(Content[m])
      BY <2>2, ContentTyped
    <3> QED
      BY <1>5, <1>6, <3>1, <3>2, <3>3, WorkerInvNext
  <2> QED
    BY <2>1, <2>2
<1>9. ASSUME NEW n \in 1 .. Len(s), NEW o \in Offset,
             Accounted(TopicOf(w), o) \/ (\E k \in 1 .. n : s[k] = o)
      PROVE  \/ Accounted(TopicOf(w), o)'
             \/ o \in Pending(w)'
             \/ \E k \in 1 .. n - 1 : t[k] = o
  <2>1. CASE Accounted(TopicOf(w), o)
    BY <1>3, <2>1, AccountedGrows
  <2>2. ASSUME NEW k \in 1 .. n, s[k] = o
        PROVE  \/ Accounted(TopicOf(w), o)'
               \/ o \in Pending(w)'
               \/ \E l \in 1 .. n - 1 : t[l] = o
    <3>1. CASE k = 1
      BY <1>2, <1>7, <2>2, <3>1
    <3>2. CASE k # 1
      <4>1. k - 1 \in 1 .. n - 1 /\ k - 1 \in 1 .. Len(t) /\ (k - 1) + 1 = k
        BY <1>2, <3>2
      <4>2. t[k - 1] = o
        BY <1>2, <2>2, <4>1
      <4> QED
        BY <4>1, <4>2
    <3> QED
      BY <3>1, <3>2
  <2> QED
    BY <1>9, <2>1, <2>2
<1>10. ASSUME NEW j \in 1 .. Len(t), NEW o \in 0 .. t[j] - 1
       PROVE  \/ Accounted(TopicOf(w), o)'
              \/ o \in Pending(w)'
              \/ \E k \in 1 .. j - 1 : t[k] = o
  <2>1. j + 1 \in 1 .. Len(s) /\ j \in 1 .. Len(s) /\ (j + 1) - 1 = j
    BY <1>2
  <2>2. o \in 0 .. s[j + 1] - 1
    BY <1>2
  <2>3. o \in Offset
    BY <2>1, <2>2, Offsets
  <2>4. Accounted(TopicOf(w), o) \/ (\E k \in 1 .. j : s[k] = o)
    BY <1>5, <2>1, <2>2 DEF PathInv, ChannelInv
  <2> QED
    BY <1>9, <2>1, <2>3, <2>4
<1> HIDE DEF s, t
<1>11. ChannelInv(w)'
  BY <1>4, <1>10 DEF ChannelInv
<1>12. SessionInv(w)'
  <2> SUFFICES ASSUME adapter[w].session = "live" PROVE SessionInv(w)'
    BY <1>4 DEF SessionInv
  <2>1. ASSUME NEW o \in 0 .. adapter[w].pos - 1
        PROVE  \/ Accounted(TopicOf(w), o)'
               \/ o \in Pending(w)'
               \/ \E k \in 1 .. Len(t) : t[k] = o
    <3>1. Accounted(TopicOf(w), o) \/ (\E k \in 1 .. Len(s) : s[k] = o)
      BY <1>5 DEF PathInv, SessionInv, s
    <3>2. o \in Offset /\ Len(s) \in 1 .. Len(s)
      BY <1>2, Offsets
    <3> QED
      BY <1>2, <1>9, <3>1, <3>2
  <2>2. \A o \in 0 .. adapter[w].marked - 1 : Accounted(TopicOf(w), o)'
    BY <1>3, Offsets, AccountedGrows DEF PathInv, SessionInv
  <2> QED
    BY <1>4, <2>1, <2>2 DEF SessionInv
<1> QED
  BY <1>3, <1>7, <1>11, <1>12 DEF PathInv

(* The message is done, and marked if its session is still alive. *)
LEMMA MarkStep ==
    ASSUME TypeOK, NEW w \in Worker, PathInv(w), MarkOffset(w)
    PROVE  Keeps /\ PathInv(w)'
<1>0. adapter[w] \in AdapterState /\ worker[w] \in WorkerState
  BY WorkerTyped
<1>1. Keeps
  BY DEF MarkOffset, Keeps, elastic, history
<1>2. worker'[w].pc = "select" /\ Pending(w) = {}
  BY <1>0 DEF MarkOffset, TypeOK, WorkerState, Pending, Storing
<1>3. WorkerInv(w)' /\ Hands(w)
  BY <1>2 DEF WorkerInv, Hands, Storing
<1>4. PICK n \in 0 .. MaxLog :
        /\ adapter' = [adapter EXCEPT ![w].marked = n]
        /\ \/ n = adapter[w].marked
           \/ n = worker[w].msg + 1 /\ worker[w].msg + 1 > adapter[w].marked
  <2>1. worker[w].msg + 1 \in 0 .. MaxLog /\ adapter[w].marked \in 0 .. MaxLog
    BY <1>0, ContentAssumption DEF WorkerState, AdapterState, Offset
  <2>2. CASE adapter[w].session = "live" /\ worker[w].msg + 1 > adapter[w].marked
    <3>1. adapter' = [adapter EXCEPT ![w].marked = worker[w].msg + 1]
      BY <2>2 DEF MarkOffset
    <3> QED
      BY <2>1, <2>2, <3>1
  <2>3. CASE ~(adapter[w].session = "live"
               /\ worker[w].msg + 1 > adapter[w].marked)
    <3>1. adapter' = [adapter EXCEPT ![w].marked = adapter[w].marked]
      BY <2>3 DEF MarkOffset
    <3> QED
      BY <2>1, <3>1
  <2> QED
    BY <2>2, <2>3
<1>5. /\ adapter'[w].messages = adapter[w].messages
      /\ adapter'[w].session = adapter[w].session
      /\ adapter'[w].pos = adapter[w].pos
      /\ adapter'[w].marked = n
  BY <1>0, <1>4 DEF MarkOffset, TypeOK, AdapterState
<1>6. ChannelInv(w)'
  BY <1>1, <1>3, <1>5, ChannelFrame DEF PathInv
<1>7. SessionInv(w)'
  <2> SUFFICES ASSUME adapter[w].session = "live" PROVE SessionInv(w)'
    BY <1>5 DEF SessionInv
  <2>1. ASSUME NEW o \in 0 .. adapter[w].pos - 1
        PROVE  \/ Accounted(TopicOf(w), o)'
               \/ \E k \in 1 .. Len(adapter[w].messages) :
                     adapter[w].messages[k] = o
    <3>1. \/ Accounted(TopicOf(w), o)
          \/ \E k \in 1 .. Len(adapter[w].messages) :
                adapter[w].messages[k] = o
      BY <1>2 DEF PathInv, SessionInv
    <3>2. o \in Offset
      BY Offsets
    <3> QED
      BY <1>1, <3>1, <3>2, AccountedGrows
  <2>2. /\ \A o \in 0 .. adapter[w].marked - 1 : Accounted(TopicOf(w), o)
        /\ \A o \in 0 .. worker[w].msg - 1 : Accounted(TopicOf(w), o)
        /\ Accounted(TopicOf(w), worker[w].msg)
    BY DEF PathInv, SessionInv, WorkerInv, MarkOffset
  <2>3. worker[w].msg \in Nat /\ adapter[w].marked \in Nat
    BY <1>0, OffsetNat, WorkerTyped DEF WorkerState, AdapterState
  <2>4. ASSUME NEW o \in 0 .. n - 1 PROVE Accounted(TopicOf(w), o)'
    <3>1. \/ o \in 0 .. adapter[w].marked - 1
          \/ o \in 0 .. worker[w].msg - 1
          \/ o = worker[w].msg
      BY <1>4, <2>3
    <3>2. Accounted(TopicOf(w), o)
      BY <2>2, <3>1
    <3>3. o \in Offset
      BY ContentAssumption DEF Offset
    <3> QED
      BY <1>1, <3>2, <3>3, AccountedGrows
  <2> QED
    BY <1>5, <2>1, <2>4 DEF SessionInv
<1> QED
  BY <1>1, <1>3, <1>6, <1>7 DEF PathInv

-----------------------------------------------------------------------------
(* The invariant is kept by every step. *)

(* Every step of one worker, Store apart. *)
LEMMA WorkerLeaves ==
    ASSUME TypeOK, NEW w \in Worker, WorkerNext(w), ~Store(w)
    PROVE  /\ \A v \in Worker \ {w} : /\ adapter'[v] = adapter[v]
                                       /\ worker'[v] = worker[v]
           /\ \/ committed' = committed
              \/ adapter[w].session = "live" /\ Commit(w)
<1>1. ASSUME NEW v \in Worker \ {w} PROVE adapter'[v] = adapter[v]
  BY DEF WorkerNext, spawnLogsWorker, spawnLogsWorkerFails, Setup, AutoCommit,
         Cleanup, ConsumeClaim, Receive, MarkOffset, Return, Stop, TypeOK
<1>2. ASSUME NEW v \in Worker \ {w} PROVE worker'[v] = worker[v]
  BY DEF WorkerNext, spawnLogsWorker, spawnLogsWorkerFails, Setup, AutoCommit,
         Cleanup, ConsumeClaim, Receive, MarkOffset, Return, Stop, TypeOK
<1>3. \/ committed' = committed
      \/ adapter[w].session = "live" /\ Commit(w)
  BY DEF WorkerNext, spawnLogsWorker, spawnLogsWorkerFails, Setup, AutoCommit,
         Cleanup, ConsumeClaim, Receive, MarkOffset, Return, Stop, kafka
<1> QED
  BY <1>1, <1>2, <1>3

LEMMA WorkerStep ==
    ASSUME TypeOK, DeliveryInv, NEW w \in Worker, WorkerNext(w), ~Store(w)
    PROVE  DeliveryInv'
<1>0. PathInv(w) /\ CommittedInv(TopicOf(w))
  BY WorkerTopic DEF DeliveryInv
<1>1. ASSUME Return(w) PROVE Keeps /\ PathInv(w)'
  <2>1. UNCHANGED <<adapter, stored, lost, bulk, skipped>>
    BY <1>1 DEF Return, elastic, history
  <2>2. Keeps
    BY <2>1 DEF Keeps
  <2>3. /\ worker'[w].msg = worker[w].msg
        /\ worker'[w].item = worker[w].item
        /\ worker'[w].pc = "returned" /\ worker[w].pc = "select"
    BY <1>1, WorkerTyped DEF Return, TypeOK, WorkerState
  <2>4. WorkerInv(w)' /\ Hands(w)
    BY <1>0, <2>2, <2>3, WorkerFrame DEF PathInv, Storing
  <2> QED
    BY <1>0, <2>1, <2>2, <2>4, Grow
<1>2. Keeps /\ PathInv(w)'
  BY <1>0, <1>1, SpawnStep, SetupStep, CommitStep, ClaimStep, ReceiveStep,
     MarkStep DEF WorkerNext
<1>3. \A v \in Worker : PathInv(v)'
  BY <1>2, WorkerLeaves, OneWorker DEF DeliveryInv
<1>4. \A t \in Topic : CommittedInv(t)'
  BY <1>0, <1>2, WorkerLeaves, CommittedStep DEF DeliveryInv
<1> QED
  BY <1>3, <1>4 DEF DeliveryInv

(* The process ends: the documents of the bulk processor that are          *)
(* committed are lost.                                                     *)
LEMMA VanishStep ==
    ASSUME TypeOK, Vanish, DeliveryInv
    PROVE  DeliveryInv'
<1>1. ASSUME NEW w \in Worker PROVE PathInv(w)'
  <2>1. /\ worker'[w] = NotSpawned
        /\ adapter'[w].session = "none" /\ adapter'[w].messages = <<>>
    BY DEF Vanish, newConsumerGroupAdapter
  <2>2. WorkerInv(w)'
    BY <2>1 DEF WorkerInv, NotSpawned, Storing
  <2>3. ChannelInv(w)' /\ SessionInv(w)'
    BY <2>1 DEF ChannelInv, SessionInv
  <2> QED
    BY <2>2, <2>3 DEF PathInv
<1>2. ASSUME NEW t \in Topic PROVE CommittedInv(t)'
  <2>1. /\ committed'[t] = committed[t]
        /\ committed[t] \in 0 .. MaxLog
        /\ stored' = stored /\ skipped' = skipped
    BY DEF Vanish, kafka, TypeOK
  <2>2. ASSUME NEW o \in 0 .. committed[t] - 1, NEW i \in 1 .. Len(Content[o]),
               ~Doomed(o, i), <<t, o>> \notin skipped
        PROVE  Document(t, o, i) \in stored' \cup lost'
    <3>1. Document(t, o, i) \in stored \cup lost \cup bulk.queue
      BY <2>2 DEF DeliveryInv, CommittedInv, Accounted
    <3>2. o < committed[t]
      BY <2>1, OffsetNat
    <3>3. Document(t, o, i)[1] = t /\ Document(t, o, i)[2] = o
      BY DEF Document
    <3> QED
      BY <2>1, <3>1, <3>2, <3>3 DEF Vanish
  <2> QED
    BY <2>1, <2>2 DEF CommittedInv, Accounted, Doomed, Document
<1> QED
  BY <1>1, <1>2 DEF DeliveryInv

(* The steps of the broker, the bulk processor and the service keep the    *)
(* documents and leave the workers alone.                                  *)
LEMMA ServiceStep ==
    ASSUME TypeOK, DeliveryInv, ServiceNext, ~Vanish
    PROVE  DeliveryInv'
<1>1. ASSUME NEW again \in SUBSET bulk.queue, BulkAnswered(again)
      PROVE  Keeps
  <2>1. /\ stored' = stored \cup Fit(bulk.queue \ again)
        /\ UNCHANGED <<lost, skipped>>
        /\ bulk'.queue = again
    BY <1>1 DEF BulkAnswered, NewBulkProcessor, history
  <2> QED
    BY <2>1 DEF Keeps, Fit
<1>2. ASSUME BulkFlush \/ BulkFails \/ BulkUnanswered \/ BulkHalted
      PROVE  Keeps
  <2>1. /\ bulk'.queue = bulk.queue
        /\ stored \subseteq stored'
        /\ UNCHANGED <<lost, skipped>>
    BY <1>2 DEF BulkFlush, BulkFails, BulkUnanswered, BulkHalted, TypeOK,
                BulkState, elastic, history
  <2> QED
    BY <2>1 DEF Keeps
<1>3. ASSUME \/ \E t \in Topic : Produce(t)
             \/ NewBaritoConsumerService \/ GracefullShutdown
             \/ CacheExpires \/ IndexAppears
      PROVE  Keeps
  BY <1>3 DEF Produce, NewBaritoConsumerService, GracefullShutdown,
              CacheExpires, IndexAppears, Keeps, elastic, history
<1>4. Keeps
  BY <1>1, <1>2, <1>3 DEF ServiceNext, Crash, Exit
<1>5. UNCHANGED <<adapter, worker, committed>>
  BY DEF ServiceNext, Produce, NewBaritoConsumerService, Crash, Exit,
       GracefullShutdown, BulkFlush, BulkAnswered, BulkFails, BulkUnanswered,
       BulkHalted, CacheExpires, IndexAppears, kafka
<1> QED
  BY <1>4, <1>5, Frame, CommittedStep DEF DeliveryInv

LEMMA DeliveryStep == TypeOK /\ DeliveryInv /\ [Next]_vars => DeliveryInv'
<1> SUFFICES ASSUME TypeOK, DeliveryInv, [Next]_vars PROVE DeliveryInv'
  OBVIOUS
<1>1. CASE UNCHANGED vars
  <2>1. Keeps
    BY <1>1 DEF vars, elastic, history, Keeps
  <2> QED
    BY <1>1, <2>1, Frame, CommittedStep DEF vars, kafka, DeliveryInv
<1>2. CASE Vanish
  BY <1>2, VanishStep
<1>3. CASE ServiceNext /\ ~Vanish
  BY <1>3, ServiceStep
<1>4. ASSUME NEW w \in Worker, WorkerNext(w), ~Vanish
      PROVE  DeliveryInv'
  <2>1. CASE Store(w)
    BY <1>4, <2>1, StoreStep DEF RedactPanics
  <2>2. CASE ~Store(w)
    BY <1>4, <2>2, WorkerStep
  <2> QED
    BY <2>1, <2>2
<1> QED
  BY <1>1, <1>2, <1>3, <1>4 DEF Next

(* The inductive invariant behind the delivery to Elasticsearch: a worker, *)
(* its channel and its session hide no message that is neither on its way  *)
(* nor done, and nothing but what is done is marked and committed, also    *)
(* when two workers of a topic take turns.                                 *)
THEOREM DeliveryInvariant == Spec => []DeliveryInv
<1>1. Init => DeliveryInv
  <2> SUFFICES ASSUME Init PROVE DeliveryInv
    OBVIOUS
  <2>1. ASSUME NEW w \in Worker PROVE PathInv(w)
    <3>1. /\ worker[w] = NotSpawned
          /\ adapter[w].session = "none" /\ adapter[w].messages = <<>>
      BY DEF Init, newConsumerGroupAdapter
    <3> QED
      BY <3>1 DEF PathInv, WorkerInv, ChannelInv, SessionInv, Storing,
                  NotSpawned
  <2>2. ASSUME NEW t \in Topic PROVE CommittedInv(t)
    BY DEF Init, CommittedInv
  <2> QED
    BY <2>1, <2>2 DEF DeliveryInv
<1> QED
  BY <1>1, DeliveryStep, TypeCorrect, PTL DEF Spec

(* A document of a committed message is stored, or waits in the bulk       *)
(* processor, or is lost in one of the ways the property names, whatever   *)
(* sessions, restarts, redeliveries and failed requests come between.      *)
THEOREM CommittedIsAccounted == Spec => []CommittedAccounted
<1>1. TypeOK /\ DeliveryInv => CommittedAccounted
  <2> SUFFICES ASSUME TypeOK, DeliveryInv,
                      NEW t \in Topic, NEW o \in Offset, o < committed[t]
               PROVE  Accounted(t, o)
    BY DEF CommittedAccounted
  <2>1. o \in 0 .. committed[t] - 1
    BY ContentAssumption DEF Offset, TypeOK
  <2> QED
    BY <2>1 DEF DeliveryInv, CommittedInv
<1> QED
  BY <1>1, DeliveryInvariant, TypeCorrect, PTL

=============================================================================
