-------------------------- MODULE GCSServiceProofs --------------------------
(* Proofs about GCSService, for every set of topics. *)
EXTENDS GCSService, TLAPS

(* A process that has not started keeps the invariant. *)
LEMMA InitServiceInv == Init => ServiceInv
<1> SUFFICES ASSUME Init PROVE ServiceInv
  OBVIOUS
<1>1. gcsOutputMap \in [Topic -> OutputState]
  BY DEF Init, OutputState
<1>2. TypeOK
  BY <1>1 DEF Init, TypeOK, AdminState, LoopState, CloserState, Down, NoCloser
<1>3. LoopInv /\ CloserInv
  BY DEF Init, LoopInv, CloserInv, Down, NoCloser
<1> QED BY <1>2, <1>3 DEF Init, ServiceInv

(* The end of a process, whichever step brings it. *)
LEMMA VanishServiceInv ==
  ASSUME ServiceInv, Vanish
  PROVE  ServiceInv'
  BY TopicAssumption
  DEF ServiceInv, TypeOK, AdminState, LoopState, CloserState, OutputState,
      Down, NoCloser, LoopInv, CloserInv, Vanish

(* The steps of the loop. *)
LEMMA LoopServiceInv ==
  ASSUME ServiceInv, Loop
  PROVE  ServiceInv'
<1> USE TopicAssumption
        DEF ServiceInv, TypeOK, AdminState, LoopState, CloserState,
            OutputState, LoopInv, CloserInv
<1>1. CASE LoopReturn
  BY <1>1 DEF LoopReturn
<1>2. CASE RefreshTopics
  BY <1>2 DEF RefreshTopics
<1>3. CASE SkipTopic
  BY <1>3 DEF SkipTopic
<1>4. CASE MakeConsumerOutputGCS
  BY <1>4 DEF MakeConsumerOutputGCS
<1>5. CASE MakeClusterConsumer
  BY <1>5 DEF MakeClusterConsumer
<1>6. CASE MakeClusterConsumerFails
  BY <1>6 DEF MakeClusterConsumerFails
<1>7. CASE StartWorker
  BY <1>7 DEF StartWorker
<1>8. CASE Sleep
  BY <1>8 DEF Sleep
<1> QED BY <1>1, <1>2, <1>3, <1>4, <1>5, <1>6, <1>7, <1>8 DEF Loop

(* The steps of Close. *)
LEMMA CloseServiceInv ==
  ASSUME ServiceInv, Close \/ CloseOutput \/ CloseReturn
  PROVE  ServiceInv'
<1> USE TopicAssumption
        DEF ServiceInv, TypeOK, AdminState, LoopState, CloserState,
            OutputState, LoopInv, CloserInv
<1>1. CASE Close
  BY <1>1 DEF Close, Running
<1>2. CASE CloseOutput
  BY <1>2 DEF CloseOutput
<1>3. CASE CloseReturn
  BY <1>3 DEF CloseReturn
<1> QED BY <1>1, <1>2, <1>3

(* Every step keeps the invariant. *)
LEMMA NextServiceInv == ServiceInv /\ [Next]_vars => ServiceInv'
<1> SUFFICES ASSUME ServiceInv, [Next]_vars
             PROVE  ServiceInv'
  OBVIOUS
<1>1. CASE \E t \in Topic : CreateTopic(t)
  BY <1>1 DEF CreateTopic, ServiceInv, TypeOK, LoopInv, CloserInv
<1>2. CASE RefreshMetadata
  BY <1>2 DEF RefreshMetadata, ServiceInv, TypeOK, AdminState, LoopInv,
              CloserInv
<1>3. CASE NewBaritoKafkaConsumerGCSFromEnv
  BY <1>3 DEF NewBaritoKafkaConsumerGCSFromEnv, ServiceInv, TypeOK, AdminState,
              LoopState, LoopInv, CloserInv
<1>4. CASE Crash \/ Exit \/ MakeOutputPanics
  BY <1>4, VanishServiceInv DEF Crash, Exit, MakeOutputPanics
<1>5. CASE Loop
  BY <1>5, LoopServiceInv
<1>6. CASE Close \/ CloseOutput \/ CloseReturn
  BY <1>6, CloseServiceInv
<1>7. CASE UNCHANGED vars
  BY <1>7 DEF vars, ServiceInv, TypeOK, LoopInv, CloserInv
<1> QED BY <1>1, <1>2, <1>3, <1>4, <1>5, <1>6, <1>7 DEF Next

(* The inductive invariant: no running output is ever out of the reach of  *)
(* Close, and what Close has still to stop is on its list.                 *)
THEOREM ServiceInvariant == Spec => []ServiceInv
  BY InitServiceInv, NextServiceInv, PTL DEF Spec

(* When Close returns, every output that took messages when it was called  *)
(* has been stopped, for any number of topics and whatever the loop of     *)
(* Start did in between.                                                   *)
THEOREM CloseStopsAll == Spec => []CloseStopsOutputs
<1>1. ServiceInv => CloseStopsOutputs
  BY DEF ServiceInv, TypeOK, CloserInv, CloserState, CloseStopsOutputs
<1> QED BY <1>1, ServiceInvariant, PTL
=============================================================================
