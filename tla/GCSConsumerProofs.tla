------------------------- MODULE GCSConsumerProofs -------------------------
(***************************************************************************)
(* Proofs about GCSConsumer, for any number of replicas, any buffer size,  *)
(* channel capacity and log length: type correctness, at-least-once        *)
(* delivery, monotonic commits, the refinement of LogSink, and what a Stop *)
(* leaves in the buffer.                                                   *)
(***************************************************************************)
EXTENDS GCSConsumer, TLAPS

-----------------------------------------------------------------------------
(* Facts about sequences and about what an upload stores. *)

(* Appending a message to the buffer or channel adds just that message to what it holds. *)
LEMMA RangeAppend ==
    ASSUME NEW S, NEW s \in Seq(S), NEW e \in S
    PROVE  Range(Append(s, e)) = Range(s) \cup {e}
<1>1. DOMAIN Append(s, e) = 1 .. Len(s) + 1
  OBVIOUS
<1>2. \A i \in 1 .. Len(s) : Append(s, e)[i] = s[i]
  OBVIOUS
<1>3. Append(s, e)[Len(s) + 1] = e
  OBVIOUS
<1>4. DOMAIN s = 1 .. Len(s) /\ Len(s) \in Nat
  OBVIOUS
<1> QED
  BY <1>1, <1>2, <1>3, <1>4 DEF Range

(* The j-th message of a channel or buffer is one of its messages. *)
LEMMA SeqElement ==
    ASSUME NEW S, NEW s \in Seq(S), NEW j \in 1 .. Len(s)
    PROVE  s[j] \in S
OBVIOUS

(* A freshly created buffer holds nothing. *)
LEMMA RangeEmpty == Range(<<>>) = {}
BY DEF Range

(* Offsets are natural numbers. *)
LEMMA OffsetNat == Offset \subseteq Nat /\ 0 .. MaxLog \subseteq Nat
BY SizeAssumption DEF Offset

(* An object never holds a message that was not in the buffer. *)
LEMMA ContentsInBuffer ==
    ASSUME TypeOK, NEW c \in Consumer, NEW S \in Contents(c)
    PROVE  S \subseteq Range(gcs[c].buffer)
<1> DEFINE buffer == gcs[c].buffer
<1>1. buffer \in Seq(Offset)
  BY DEF TypeOK, GCSState
<1>2. CASE ~ClosesCompressor
  <2>1. PICK k \in {0} \cup 0 .. Len(buffer) - 1 :
               S = Range(SubSeq(buffer, 1, k))
    BY <1>2 DEF Contents
  <2>2. k \in Nat /\ k <= Len(buffer)
    BY <1>1, <2>1
  <2>3. \A j \in DOMAIN SubSeq(buffer, 1, k) :
           j \in DOMAIN buffer /\ SubSeq(buffer, 1, k)[j] = buffer[j]
    BY <1>1, <2>2
  <2> QED
    BY <2>1, <2>3 DEF Range
<1>3. CASE ClosesCompressor
  BY <1>3 DEF Contents
<1> QED
  BY <1>2, <1>3

-----------------------------------------------------------------------------
(* Type correctness. *)

(* What the buffer of a replica holds are offsets of the log. *)
LEMMA RangeInOffset ==
    ASSUME TypeOK, NEW c \in Consumer
    PROVE  Range(gcs[c].buffer) \subseteq Offset
BY DEF TypeOK, GCSState, Range

(* A fresh broker and fresh processes are well formed. *)
LEMMA TypeInit == Init => TypeOK
BY SizeAssumption DEF Init, TypeOK, AdapterState, WorkerState, GCSState, Thread, Offset,
   newConsumerGroupAdapter, NewConsumerWorker, NewGCS

(* A replica's state keeps its shape when one of its records is updated. *)
LEMMA ReplicaTyped ==
    ASSUME TypeOK, NEW c \in Consumer
    PROVE  adapter[c] \in AdapterState /\ worker[c] \in WorkerState
           /\ gcs[c] \in GCSState
BY DEF TypeOK

(* Every action of the replicas and of their environment keeps the         *)
(* state well formed.                                                      *)
LEMMA TypeStep == TypeOK /\ [Next]_vars => TypeOK'
<1> SUFFICES ASSUME TypeOK, [Next]_vars PROVE TypeOK'
  OBVIOUS
<1> USE SizeAssumption, ConsumerAssumption
<1>1. CASE UNCHANGED vars
  BY <1>1 DEF vars, TypeOK
<1>2. CASE Produce
  BY <1>2 DEF Produce, TypeOK
<1>3. CASE Rebalance
  BY <1>3 DEF Rebalance, TypeOK
<1>4. ASSUME NEW c \in Consumer, Process(c) PROVE TypeOK'
  <2>1. CASE spawnLogsWorker(c)
    BY <2>1 DEF spawnLogsWorker, TypeOK
  <2>2. CASE Crash(c) \/ Exit(c)
    <3>1. /\ newConsumerGroupAdapter \in AdapterState
          /\ NewConsumerWorker \in WorkerState
          /\ NewGCS \in GCSState
      BY DEF AdapterState, WorkerState, GCSState, Thread, Offset,
             newConsumerGroupAdapter, NewConsumerWorker, NewGCS
    <3> QED
      BY <2>2, <3>1 DEF Crash, Exit, Vanish, TypeOK
  <2>3. CASE Stop(c)
    <3>1. [gcs[c] EXCEPT !.isStop = TRUE, !.pc["stop"] = "lock"] \in GCSState
      BY ReplicaTyped DEF GCSState, Thread
    <3> QED
      BY <2>3, <3>1 DEF Stop, TypeOK
  <2> QED
    BY <1>4, <2>1, <2>2, <2>3 DEF Process
<1>5. ASSUME NEW c \in Consumer, Session(c) PROVE TypeOK'
  <2>1. CASE Setup(c)
    <3>1. [adapter[c] EXCEPT !.session = "live", !.pos = committed,
                             !.marked = committed] \in AdapterState
      BY ReplicaTyped DEF TypeOK, AdapterState
    <3> QED
      BY <2>1, <3>1 DEF Setup, TypeOK
  <2>2. CASE Cleanup(c)
    <3>1. 0 \in 0 .. MaxLog
      OBVIOUS
    <3>2. [adapter[c] EXCEPT !.session = "none", !.pos = 0, !.marked = 0]
             \in AdapterState
      BY ReplicaTyped, <3>1 DEF AdapterState
    <3> QED
      BY <2>2, <3>2 DEF Cleanup, TypeOK
  <2>3. CASE ConsumeClaim(c)
    <3>1. adapter[c].pos \in 0 .. MaxLog /\ adapter[c].pos < logEnd
          /\ logEnd \in 0 .. MaxLog /\ adapter[c].messages \in Seq(Offset)
      BY <2>3, ReplicaTyped DEF ConsumeClaim, AdapterState, TypeOK
    <3>2. adapter[c].pos \in Offset /\ adapter[c].pos + 1 \in 0 .. MaxLog
      BY <3>1 DEF Offset
    <3>3. Append(adapter[c].messages, adapter[c].pos) \in Seq(Offset)
      BY <3>1, <3>2
    <3>4. [adapter[c] EXCEPT
             !.messages = Append(adapter[c].messages, adapter[c].pos),
             !.pos = adapter[c].pos + 1] \in AdapterState
      BY ReplicaTyped, <3>2, <3>3 DEF AdapterState
    <3> QED
      BY <2>3, <3>4 DEF ConsumeClaim, TypeOK
  <2> QED
    BY <1>5, <2>1, <2>2, <2>3 DEF Session
<1>6. ASSUME NEW c \in Consumer, loopMain(c) PROVE TypeOK'
  <2>1. CASE Receive(c)
    <3>1. adapter[c].messages \in Seq(Offset) /\ adapter[c].messages # <<>>
      BY <2>1, ReplicaTyped DEF Receive, AdapterState
    <3>2. Head(adapter[c].messages) \in Offset
          /\ Tail(adapter[c].messages) \in Seq(Offset)
      BY <3>1
    <3>3. [adapter[c] EXCEPT !.messages = Tail(adapter[c].messages)]
             \in AdapterState
      BY ReplicaTyped, <3>2 DEF AdapterState
    <3>4. [pc  |-> IF Head(adapter[c].messages) \in Bad
                   THEN "mark" ELSE "onMessage",
           msg |-> Head(adapter[c].messages)] \in WorkerState
      BY <3>2 DEF WorkerState
    <3> QED
      BY <2>1, <3>3, <3>4 DEF Receive, TypeOK
  <2>2. CASE OnMessageCheck(c) \/ OnMessageFull(c)
    <3>1. /\ [worker[c] EXCEPT !.pc = "lock"] \in WorkerState
          /\ [worker[c] EXCEPT !.pc = "onMessage"] \in WorkerState
      BY ReplicaTyped DEF WorkerState
    <3> QED
      BY <2>2, <3>1 DEF OnMessageCheck, OnMessageFull, TypeOK
  <2>3. CASE OnMessageWrite(c)
    <3>1. /\ Append(gcs[c].buffer, worker[c].msg) \in Seq(Offset)
          /\ gcs[c].bytesCounter + 1 \in Nat
      BY ReplicaTyped DEF WorkerState, GCSState
    <3>2. [gcs[c] EXCEPT !.buffer = Append(gcs[c].buffer, worker[c].msg),
                         !.bytesCounter = gcs[c].bytesCounter + 1] \in GCSState
      BY ReplicaTyped, <3>1 DEF GCSState
    <3>3. [worker[c] EXCEPT !.pc = "mark"] \in WorkerState
      BY ReplicaTyped DEF WorkerState
    <3> QED
      BY <2>3, <3>2, <3>3 DEF OnMessageWrite, TypeOK
  <2>4. CASE OnMessageWriteFails(c)
    <3>1. PICK n \in {0, 1} : gcs' = [gcs EXCEPT ![c].bytesCounter = @ + n]
      BY <2>4 DEF OnMessageWriteFails
    <3>2. [gcs[c] EXCEPT !.bytesCounter = gcs[c].bytesCounter + n] \in GCSState
      BY ReplicaTyped DEF GCSState
    <3>3. [worker[c] EXCEPT !.pc = "onMessage"] \in WorkerState
      BY ReplicaTyped DEF WorkerState
    <3> QED
      BY <2>4, <3>1, <3>2, <3>3 DEF OnMessageWriteFails, TypeOK
  <2>5. CASE MarkOffset(c)
    <3>1. NewConsumerWorker \in WorkerState
      BY DEF NewConsumerWorker, WorkerState, Offset
    <3>2. worker[c].msg + 1 \in 0 .. MaxLog
      BY ReplicaTyped DEF WorkerState, Offset
    <3>3. [adapter[c] EXCEPT !.marked = worker[c].msg + 1] \in AdapterState
      BY ReplicaTyped, <3>2 DEF AdapterState
    <3> QED
      BY <2>5, <3>1, <3>3 DEF MarkOffset, TypeOK
  <2> QED
    BY <1>6, <2>1, <2>2, <2>3, <2>4, <2>5 DEF loopMain
<1>7. ASSUME NEW c \in Consumer, Start(c) PROVE TypeOK'
  <2>1. /\ [gcs[c] EXCEPT !.pc["loop"] = "returned"] \in GCSState
        /\ [gcs[c] EXCEPT !.pc["loop"] = "lock"] \in GCSState
    BY ReplicaTyped DEF GCSState, Thread
  <2> QED
    BY <1>7, <2>1 DEF Start, StartReturn, StartFull, StartTick, TypeOK
<1>8. ASSUME NEW c \in Consumer, NEW t \in Thread, Flush(c, t) PROVE TypeOK'
  <2>1. CASE FlushEmpty(c, t)
    <3>1. [gcs[c] EXCEPT !.pc[t] = Returned(t)] \in GCSState
      BY ReplicaTyped DEF GCSState, Thread, Returned
    <3> QED
      BY <2>1, <3>1 DEF FlushEmpty, TypeOK
  <2>2. CASE FlushUpload(c, t)
    <3>1. [gcs[c] EXCEPT !.pc[t] = "onFlush", !.mu = t] \in GCSState
      BY ReplicaTyped DEF GCSState, Thread
    <3> QED
      BY <2>2, <3>1, ContentsInBuffer, RangeInOffset DEF FlushUpload, TypeOK
  <2>3. CASE FlushUploadFails(c, t)
    <3>1. [gcs[c] EXCEPT !.pc[t] = Failed(t)] \in GCSState
      BY ReplicaTyped DEF GCSState, Thread, Failed
    <3> QED
      BY <2>3, <3>1, ContentsInBuffer, RangeInOffset
         DEF FlushUploadFails, TypeOK
  <2>4. CASE FlushCommit(c, t)
    <3>0. /\ <<>> \in Seq(Offset)
          /\ Returned(t) \in {"check", "returned"}
      BY DEF Returned
    <3>1. [gcs[c] EXCEPT !.buffer = <<>>, !.bytesCounter = 0, !.mu = "free",
                         !.pc[t] = Returned(t)] \in GCSState
      BY ReplicaTyped, <3>0 DEF GCSState
    <3>2. committed' \in 0 .. MaxLog
      BY <2>4, ReplicaTyped DEF FlushCommit, CommitOffsets, AdapterState, TypeOK
    <3> QED
      BY <2>4, <3>1, <3>2 DEF FlushCommit, TypeOK
  <2> QED
    BY <1>8, <2>1, <2>2, <2>3, <2>4 DEF Flush
<1> QED
  BY <1>1, <1>2, <1>3, <1>4, <1>5, <1>6, <1>7, <1>8 DEF Next

(* Every state of the replicas, the broker and the bucket is well formed;  *)
(* in particular no mark or commit ever goes past the end of the log bound *)
(* and no handler leaves a program counter outside its code.               *)
THEOREM TypeCorrect == Spec => []TypeOK
BY TypeInit, TypeStep, PTL DEF Spec

-----------------------------------------------------------------------------
(* At-least-once delivery. *)

(* What a replica has in its channel stays accounted for while what it has *)
(* settled or in hand only grows.                                          *)
LEMMA ChannelGrows ==
    ASSUME NEW c \in Consumer, TypeOK, TypeOK', ChannelInv(c),
           adapter'[c].messages = adapter[c].messages,
           Kept(c) \cup InHand(c) \subseteq (Kept(c) \cup InHand(c))',
           logEnd <= logEnd'
    PROVE  ChannelInv(c)'
<1> DEFINE m == adapter[c].messages
<1>1. m \in Seq(Offset) /\ logEnd \in Nat /\ logEnd' \in Nat
  BY ReplicaTyped, SizeAssumption DEF TypeOK, AdapterState
<1> SUFFICES ASSUME NEW j \in 1 .. Len(m)
             PROVE  /\ m[j] < logEnd'
                    /\ \A i \in 0 .. m[j] - 1 :
                          \/ i \in (Kept(c) \cup InHand(c))'
                          \/ \E k \in 1 .. j - 1 : m[k] = i
  BY DEF ChannelInv
<1>2. m[j] \in Nat
  <2> HIDE DEF m
  <2>1. m[j] \in Offset
    BY <1>1
  <2> QED
    BY <2>1, OffsetNat
<1>3. /\ m[j] < logEnd
      /\ \A i \in 0 .. m[j] - 1 :
            \/ i \in Kept(c) \cup InHand(c)
            \/ \E k \in 1 .. j - 1 : m[k] = i
  BY DEF ChannelInv
<1> HIDE DEF m
<1> QED
  BY <1>1, <1>2, <1>3, SMTT(30)

(* A replica whose session does not move keeps its invariant while what it *)
(* has settled grows, whether by its own step or by that of another.       *)
LEMMA Grow ==
    ASSUME NEW c \in Consumer, ReplicaInv(c), TypeOK, TypeOK',
           adapter'[c] = adapter[c],
           MutexInv(c)', FlushInv(c)', WorkerInv(c)', BufferInv(c)',
           Kept(c) \subseteq Kept(c)',
           Kept(c) \cup InHand(c) \subseteq (Kept(c) \cup InHand(c))',
           logEnd <= logEnd',
           adapter[c].session = "live" /\ owner' = c =>
               committed' <= adapter[c].marked
    PROVE  ReplicaInv(c)'
<1>1. /\ logEnd \in Nat /\ logEnd' \in Nat
      /\ adapter[c].pos \in Nat /\ adapter[c].marked \in Nat
  BY ReplicaTyped, OffsetNat DEF TypeOK, AdapterState
<1>2. ChannelInv(c)'
  BY ChannelGrows DEF ReplicaInv
<1>3. SessionInv(c)'
  BY <1>1, SMTT(30) DEF ReplicaInv, SessionInv
<1> QED
  BY <1>2, <1>3 DEF ReplicaInv

(* A replica that takes no step keeps its invariant. *)
LEMMA Frame ==
    ASSUME NEW c \in Consumer, ReplicaInv(c), TypeOK, TypeOK',
           UNCHANGED <<adapter[c], worker[c], gcs[c]>>,
           uploaded \subseteq uploaded',
           logEnd <= logEnd',
           owner' = c => owner = c /\ committed' = committed
    PROVE  ReplicaInv(c)'
<1>1. /\ logEnd \in Nat /\ logEnd' \in Nat
      /\ worker[c].msg \in Nat
      /\ Range(gcs[c].buffer) \subseteq Nat
  BY ReplicaTyped, OffsetNat, RangeInOffset DEF TypeOK, WorkerState
<1>2. Kept(c) \subseteq Kept(c)' /\ InHand(c)' = InHand(c)
  BY DEF Kept, InHand
<1>3. MutexInv(c)' /\ FlushInv(c)'
  BY DEF ReplicaInv, MutexInv, FlushInv
<1>4. WorkerInv(c)'
  BY <1>1, <1>2 DEF ReplicaInv, WorkerInv
<1>5. BufferInv(c)'
  BY <1>1 DEF ReplicaInv, BufferInv
<1>6. adapter[c].session = "live" /\ owner' = c =>
          committed' <= adapter[c].marked
  BY DEF ReplicaInv, SessionInv
<1> QED
  BY <1>2, <1>3, <1>4, <1>5, <1>6, Grow

(* A step of one replica need only be examined for that replica and for    *)
(* what the broker and the bucket hold.                                    *)
LEMMA OneReplica ==
    ASSUME DeliveryInv, TypeOK, TypeOK', NEW c \in Consumer,
           \A d \in Consumer \ {c} :
               UNCHANGED <<adapter[d], worker[d], gcs[d]>>,
           uploaded \subseteq uploaded', logEnd' = logEnd,
           owner' \in {owner, c},
           owner = c \/ committed' = committed,
           ReplicaInv(c)',
           committed' <= logEnd, \A i \in uploaded' : i < logEnd,
           CommittedUploaded'
    PROVE  DeliveryInv'
<1>1. ASSUME NEW d \in Consumer \ {c} PROVE ReplicaInv(d)'
  <2>1. logEnd <= logEnd'
    BY OffsetNat DEF TypeOK
  <2>2. owner' = d => owner = d /\ committed' = committed
    OBVIOUS
  <2>3. ReplicaInv(d)
    BY DEF DeliveryInv
  <2> QED
    BY <2>1, <2>2, <2>3, Frame
<1> QED
  BY <1>1 DEF DeliveryInv

(* With nothing produced, nothing is marked, buffered or committed. *)
LEMMA DeliveryInit == Init => DeliveryInv
<1> SUFFICES ASSUME Init PROVE DeliveryInv
  OBVIOUS
<1>1. ASSUME NEW c \in Consumer PROVE ReplicaInv(c)
  <2>1. /\ adapter[c] = newConsumerGroupAdapter
        /\ worker[c] = NewConsumerWorker
        /\ gcs[c] = NewGCS
    BY DEF Init
  <2> QED
    BY <2>1, RangeEmpty DEF ReplicaInv, MutexInv, FlushInv, WorkerInv,
       ChannelInv, SessionInv, BufferInv, newConsumerGroupAdapter,
       NewConsumerWorker, NewGCS, Thread
<1> QED
  BY <1>1 DEF Init, DeliveryInv, CommittedUploaded

(* The same, when the step touches neither the log, the commit nor the bucket. *)
LEMMA OneReplicaQuiet ==
    ASSUME DeliveryInv, TypeOK, TypeOK', NEW c \in Consumer,
           \A d \in Consumer \ {c} :
               UNCHANGED <<adapter[d], worker[d], gcs[d]>>,
           UNCHANGED <<uploaded, logEnd, committed>>,
           owner' \in {owner, c},
           ReplicaInv(c)'
    PROVE  DeliveryInv'
<1>1. /\ committed' <= logEnd
      /\ \A i \in uploaded' : i < logEnd
      /\ CommittedUploaded'
  BY DEF DeliveryInv, CommittedUploaded
<1> QED
  BY <1>1, OneReplica

(* Starting, crashing, stopping and exiting: a process loses what it held  *)
(* in memory, and nothing committed depended on that alone.                *)
LEMMA ProcessStep ==
    ASSUME DeliveryInv, TypeOK, TypeOK', NEW c \in Consumer, Process(c)
    PROVE  DeliveryInv'
<1>0. ReplicaInv(c) /\ logEnd <= logEnd
  BY OffsetNat DEF DeliveryInv, TypeOK
<1>1. CASE spawnLogsWorker(c)
  <2>1. ReplicaInv(c)'
    BY <1>0, <1>1, Frame DEF spawnLogsWorker
  <2> QED
    BY <1>1, <2>1, OneReplicaQuiet DEF spawnLogsWorker
<1>2. CASE Crash(c) \/ Exit(c)
  <2>1. Vanish(c)
    BY <1>2 DEF Crash, Exit
  <2>2. /\ adapter'[c] = newConsumerGroupAdapter
        /\ worker'[c] = NewConsumerWorker
        /\ gcs'[c] = NewGCS
    BY <2>1 DEF Vanish, TypeOK
  <2>3. ReplicaInv(c)'
    BY <2>2, RangeEmpty DEF ReplicaInv, MutexInv, FlushInv, WorkerInv,
       ChannelInv, SessionInv, BufferInv, newConsumerGroupAdapter,
       NewConsumerWorker, NewGCS, Thread
  <2> QED
    BY <2>1, <2>3, OneReplicaQuiet DEF Vanish, TypeOK
<1>3. CASE Stop(c)
  <2>1. /\ gcs'[c].buffer = gcs[c].buffer
        /\ gcs'[c].mu = gcs[c].mu
        /\ gcs'[c].pc = [gcs[c].pc EXCEPT !["stop"] = "lock"]
        /\ gcs[c].pc["stop"] = "idle"
        /\ UNCHANGED <<adapter, worker, uploaded, logEnd, committed, owner>>
    BY <1>3, ReplicaTyped DEF Stop, TypeOK, GCSState
  <2>2. MutexInv(c)'
    BY <1>0, <2>1, ReplicaTyped DEF ReplicaInv, MutexInv, Thread, GCSState
  <2>3. ReplicaInv(c)'
    BY <1>0, <2>1, <2>2, Grow DEF ReplicaInv, FlushInv, WorkerInv, BufferInv,
       Kept, InHand, SessionInv
  <2> QED
    BY <1>3, <2>1, <2>3, OneReplicaQuiet DEF Stop, TypeOK
<1> QED
  BY <1>1, <1>2, <1>3 DEF Process

(* Setup, Cleanup and ConsumeClaim: a session starts at the committed      *)
(* offset and delivers from there without a gap.                           *)
LEMMA SessionStep ==
    ASSUME DeliveryInv, TypeOK, TypeOK', NEW c \in Consumer, Session(c)
    PROVE  DeliveryInv'
<1>0. /\ ReplicaInv(c)
      /\ adapter[c] \in AdapterState
      /\ UNCHANGED <<worker, gcs, uploaded, logEnd, committed>>
      /\ owner' \in {owner, c}
      /\ \A d \in Consumer \ {c} : adapter'[d] = adapter[d]
      /\ logEnd \in Nat /\ committed \in Nat
  BY ReplicaTyped, OffsetNat
     DEF DeliveryInv, Session, Setup, Cleanup, ConsumeClaim, TypeOK
<1>1. Kept(c)' = Kept(c) /\ InHand(c)' = InHand(c)
  BY <1>0 DEF Kept, InHand
<1>2. MutexInv(c)' /\ FlushInv(c)' /\ WorkerInv(c)' /\ BufferInv(c)'
  BY <1>0, <1>1 DEF ReplicaInv, MutexInv, FlushInv, WorkerInv, BufferInv
<1>3. CASE Setup(c)
  <2>1. /\ adapter'[c].messages = adapter[c].messages
        /\ adapter'[c].pos = committed
        /\ adapter'[c].marked = committed
    BY <1>0, <1>3 DEF Setup, TypeOK, AdapterState
  <2>2. ChannelInv(c)'
    BY <1>0, <1>1, <2>1, ChannelGrows DEF ReplicaInv
  <2>3. \A i \in 0 .. committed - 1 : i \in Kept(c)
    BY DEF DeliveryInv, CommittedUploaded, Kept
  <2>4. SessionInv(c)'
    BY <1>0, <1>1, <2>1, <2>3 DEF SessionInv, DeliveryInv
  <2> QED
    BY <1>0, <1>2, <2>2, <2>4, OneReplicaQuiet DEF ReplicaInv
<1>4. CASE Cleanup(c)
  <2>1. /\ adapter'[c].messages = adapter[c].messages
        /\ adapter'[c].session = "none"
    BY <1>0, <1>4 DEF Cleanup, TypeOK, AdapterState
  <2>2. ChannelInv(c)'
    BY <1>0, <1>1, <2>1, ChannelGrows DEF ReplicaInv
  <2>3. SessionInv(c)'
    BY <2>1 DEF SessionInv
  <2> QED
    BY <1>0, <1>2, <2>2, <2>3, OneReplicaQuiet DEF ReplicaInv
<1>5. CASE ConsumeClaim(c)
  <2> DEFINE m == adapter[c].messages
             p == adapter[c].pos
             n == adapter'[c].messages
             settled == Kept(c) \cup InHand(c)
  <2>1. /\ n = Append(m, p)
        /\ adapter'[c].pos = p + 1
        /\ adapter'[c].marked = adapter[c].marked
        /\ adapter'[c].session = "live" /\ adapter[c].session = "live"
        /\ p < logEnd
        /\ owner' = owner
        /\ m \in Seq(Offset) /\ p \in Nat /\ adapter[c].marked \in Nat
    BY <1>0, <1>5, OffsetNat DEF ConsumeClaim, TypeOK, AdapterState
  <2>2. /\ \A i \in 0 .. p - 1 :
              \/ i \in settled
              \/ \E k \in 1 .. Len(m) : m[k] = i
        /\ \A i \in 0 .. adapter[c].marked - 1 : i \in Kept(c)
        /\ adapter[c].marked <= logEnd
        /\ owner = c => committed <= adapter[c].marked
    BY <1>0, <2>1 DEF ReplicaInv, SessionInv
  <2>3. \A j \in 1 .. Len(m) :
           /\ m[j] < logEnd
           /\ \A i \in 0 .. m[j] - 1 :
                 \/ i \in settled
                 \/ \E k \in 1 .. j - 1 : m[k] = i
    BY <1>0 DEF ReplicaInv, ChannelInv
  <2>4. /\ Len(n) = Len(m) + 1 /\ Len(m) \in Nat
        /\ \A k \in 1 .. Len(m) : n[k] = m[k]
        /\ n[Len(m) + 1] = p
    <3> HIDE DEF n, m, p
    <3>1. p \in Offset
      BY <1>0, <1>5, <2>1, SizeAssumption DEF TypeOK, Offset
    <3> QED
      BY <2>1, <3>1
  <2>5. \A j \in 1 .. Len(m) : m[j] \in Nat
    BY <2>1, OffsetNat, SeqElement
  <2>6. ASSUME NEW j \in 1 .. Len(n)
        PROVE  /\ n[j] < logEnd
               /\ \A i \in 0 .. n[j] - 1 :
                     \/ i \in settled
                     \/ \E k \in 1 .. j - 1 : n[k] = i
    <3> HIDE DEF n, m, p, settled
    <3>1. CASE j \in 1 .. Len(m)
      BY <2>3, <2>4, <2>5, <3>1
    <3>2. CASE j = Len(m) + 1
      BY <2>1, <2>2, <2>4, <3>2
    <3> QED
      BY <2>4, <3>1, <3>2
  <2>7. ChannelInv(c)'
    BY <1>0, <1>1, <2>6 DEF ChannelInv
  <2>8. ASSUME NEW i \in 0 .. p
        PROVE  i \in settled \/ \E k \in 1 .. Len(n) : n[k] = i
    <3> HIDE DEF n, m, p, settled
    <3>1. CASE i = p
      BY <2>4, <3>1
    <3>2. CASE i \in 0 .. p - 1
      BY <2>2, <2>4, <3>2
    <3> QED
      BY <2>1, <3>1, <3>2
  <2>9. 0 .. adapter'[c].pos - 1 = 0 .. p /\ adapter'[c].pos <= logEnd
    BY <1>0, <2>1
  <2>10. SessionInv(c)'
    <3> HIDE DEF p
    <3> QED
      BY <1>0, <1>1, <2>1, <2>2, <2>8, <2>9 DEF SessionInv
  <2> QED
    BY <1>0, <1>2, <2>7, <2>10, OneReplicaQuiet DEF ReplicaInv
<1> QED
  BY <1>3, <1>4, <1>5 DEF Session

(* Receive: the head of the channel moves into the worker's hands, or      *)
(* straight to the mark when it cannot be converted.                       *)
LEMMA ReceiveStep ==
    ASSUME DeliveryInv, TypeOK, TypeOK', NEW c \in Consumer, Receive(c)
    PROVE  DeliveryInv'
<1> DEFINE m == adapter[c].messages
           n == adapter'[c].messages
           settled == Kept(c) \cup {m[1]}
<1>1. /\ ReplicaInv(c)
      /\ m \in Seq(Offset) /\ m # <<>>
      /\ n = Tail(m)
      /\ adapter'[c].pos = adapter[c].pos
      /\ adapter'[c].marked = adapter[c].marked
      /\ adapter'[c].session = adapter[c].session
      /\ worker[c].pc = "select"
      /\ worker'[c].msg = Head(m)
      /\ worker'[c].pc \in {"mark", "onMessage"}
      /\ worker'[c].pc = "mark" => Head(m) \in Bad
      /\ UNCHANGED <<gcs, uploaded, logEnd, committed, owner>>
      /\ \A d \in Consumer \ {c} : UNCHANGED <<adapter[d], worker[d], gcs[d]>>
      /\ logEnd \in Nat
  BY ReplicaTyped, OffsetNat
     DEF Receive, DeliveryInv, TypeOK, AdapterState, WorkerState
<1>2. /\ Head(m) = m[1] /\ Len(m) \in Nat /\ Len(m) >= 1
      /\ Len(n) = Len(m) - 1
      /\ \A k \in 1 .. Len(n) : n[k] = m[k + 1]
  <2> HIDE DEF n, m
  <2> QED
    BY <1>1
<1>3. \A j \in 1 .. Len(m) : m[j] \in Nat
  BY <1>1, OffsetNat, SeqElement
<1>4. Kept(c)' = Kept(c) /\ InHand(c) = {}
  BY <1>1 DEF Kept, InHand
<1>5. (Kept(c) \cup InHand(c))' = settled
  <2>1. CASE worker'[c].pc = "mark"
    BY <1>1, <1>2, <1>4, <2>1 DEF InHand, Kept
  <2>2. CASE worker'[c].pc = "onMessage"
    BY <1>1, <1>2, <1>4, <2>2 DEF InHand
  <2> QED
    BY <1>1, <2>1, <2>2
<1>6. \A j \in 1 .. Len(m) :
         /\ m[j] < logEnd
         /\ \A i \in 0 .. m[j] - 1 :
               i \in Kept(c) \/ \E k \in 1 .. j - 1 : m[k] = i
  BY <1>1, <1>4 DEF ReplicaInv, ChannelInv
<1>7. WorkerInv(c)'
  <2>1. m[1] < logEnd /\ \A i \in 0 .. m[1] - 1 : i \in Kept(c)
    BY <1>2, <1>3, <1>6
  <2>2. Bad \subseteq Kept(c)
    BY DEF Kept
  <2> QED
    BY <1>1, <1>2, <1>4, <2>1, <2>2 DEF WorkerInv
<1>8. ChannelInv(c)'
  <2>1. ASSUME NEW j \in 1 .. Len(n)
        PROVE  /\ n[j] < logEnd
               /\ \A i \in 0 .. n[j] - 1 :
                     \/ i \in settled
                     \/ \E k \in 1 .. j - 1 : n[k] = i
    <3>1. /\ n[j] = m[j + 1] /\ j + 1 \in 1 .. Len(m) /\ m[j + 1] \in Nat
          /\ m[j + 1] < logEnd
      BY <1>2, <1>3, <1>6
    <3>2. ASSUME NEW i \in 0 .. m[j + 1] - 1
          PROVE  i \in settled \/ \E k \in 1 .. j - 1 : n[k] = i
      <4>1. CASE i \in Kept(c)
        BY <4>1
      <4>2. CASE \E k \in 1 .. j : m[k] = i
        <5>1. PICK k \in 1 .. j : m[k] = i
          BY <4>2
        <5>2. CASE k = 1
          BY <5>1, <5>2
        <5>3. CASE k # 1
          <6>1. k - 1 \in 1 .. j - 1 /\ k - 1 \in 1 .. Len(n)
            BY <5>1, <5>3, <1>2
          <6>2. n[k - 1] = m[k]
            BY <6>1, <1>2, <5>1
          <6> QED
            BY <5>1, <6>1, <6>2
        <5> QED
          BY <5>2, <5>3
      <4>3. i \in Kept(c) \/ \E k \in 1 .. (j + 1) - 1 : m[k] = i
        BY <1>6, <3>1
      <4>4. (j + 1) - 1 = j
        OBVIOUS
      <4> QED
        BY <4>1, <4>2, <4>3, <4>4
    <3> QED
      BY <3>1, <3>2
  <2> QED
    BY <1>1, <1>5, <2>1 DEF ChannelInv
<1>9. SessionInv(c)'
  <2> SUFFICES ASSUME adapter[c].session = "live" PROVE SessionInv(c)'
    BY <1>1 DEF SessionInv
  <2>1. ASSUME NEW i \in 0 .. adapter[c].pos - 1
        PROVE  i \in settled \/ \E k \in 1 .. Len(n) : n[k] = i
    <3>1. i \in Kept(c) \/ \E k \in 1 .. Len(m) : m[k] = i
      BY <1>1, <1>4 DEF ReplicaInv, SessionInv
    <3>2. CASE \E k \in 1 .. Len(m) : m[k] = i
      <4>1. PICK k \in 1 .. Len(m) : m[k] = i
        BY <3>2
      <4>2. CASE k = 1
        BY <4>1, <4>2
      <4>3. CASE k # 1
        <5>1. k - 1 \in 1 .. Len(n)
          BY <4>1, <4>3, <1>2
        <5>2. n[k - 1] = m[k]
          BY <5>1, <1>2, <4>1
        <5> QED
          BY <4>1, <5>1, <5>2
      <4> QED
        BY <4>2, <4>3
    <3> QED
      BY <3>1, <3>2
  <2> HIDE DEF n, settled
  <2>2. /\ adapter[c].pos <= logEnd /\ adapter[c].marked <= logEnd
        /\ \A i \in 0 .. adapter[c].marked - 1 : i \in Kept(c)
        /\ owner = c => committed <= adapter[c].marked
    BY <1>1 DEF ReplicaInv, SessionInv
  <2>3. \A i \in 0 .. adapter'[c].pos - 1 :
           i \in (Kept(c) \cup InHand(c))' \/ \E k \in 1 .. Len(n) : n[k] = i
    BY <1>1, <1>5, <2>1
  <2> QED
    BY <1>1, <1>4, <2>2, <2>3 DEF SessionInv, n
<1>10. MutexInv(c)' /\ FlushInv(c)' /\ BufferInv(c)'
  BY <1>1 DEF ReplicaInv, MutexInv, FlushInv, BufferInv
<1> QED
  BY <1>1, <1>7, <1>8, <1>9, <1>10, OneReplicaQuiet DEF ReplicaInv

(* The other steps of loopMain: a message reaches the mark only after the  *)
(* buffer took it.                                                         *)
LEMMA WorkerStep ==
    ASSUME DeliveryInv, TypeOK, TypeOK', NEW c \in Consumer, loopMain(c)
    PROVE  DeliveryInv'
<1>0. /\ ReplicaInv(c)
      /\ adapter[c] \in AdapterState
      /\ worker[c] \in WorkerState
      /\ gcs[c] \in GCSState
      /\ logEnd \in Nat /\ committed \in Nat /\ logEnd <= logEnd
      /\ adapter[c].session = "live" /\ owner = c =>
            committed <= adapter[c].marked
  BY ReplicaTyped, OffsetNat DEF DeliveryInv, TypeOK, ReplicaInv, SessionInv
<1>1. CASE Receive(c)
  BY <1>1, ReceiveStep
<1>2. CASE OnMessageCheck(c) \/ OnMessageFull(c)
  <2>1. /\ worker[c].pc \in {"onMessage", "lock"}
        /\ worker'[c].pc \in {"onMessage", "lock"}
        /\ worker'[c].msg = worker[c].msg
        /\ UNCHANGED <<adapter, gcs, uploaded, logEnd, committed, owner>>
        /\ \A d \in Consumer \ {c} : UNCHANGED <<adapter[d], worker[d], gcs[d]>>
    BY <1>0, <1>2 DEF OnMessageCheck, OnMessageFull, TypeOK, WorkerState
  <2>2. Kept(c)' = Kept(c) /\ InHand(c)' = InHand(c)
    BY <2>1 DEF Kept, InHand
  <2>3. /\ MutexInv(c)' /\ FlushInv(c)' /\ WorkerInv(c)' /\ BufferInv(c)'
    BY <1>0, <2>1, <2>2 DEF ReplicaInv, MutexInv, FlushInv, WorkerInv, BufferInv
  <2>4. ReplicaInv(c)'
    BY <1>0, <2>1, <2>2, <2>3, Grow
  <2> QED
    BY <2>1, <2>4, OneReplicaQuiet
<1>3. CASE OnMessageWrite(c)
  <2>1. /\ worker[c].pc = "lock"
        /\ worker'[c].pc = "mark"
        /\ worker'[c].msg = worker[c].msg
        /\ gcs[c].mu = "free"
        /\ gcs'[c].mu = gcs[c].mu
        /\ gcs'[c].pc = gcs[c].pc
        /\ gcs'[c].buffer = Append(gcs[c].buffer, worker[c].msg)
        /\ UNCHANGED <<adapter, uploaded, logEnd, committed, owner>>
        /\ \A d \in Consumer \ {c} : UNCHANGED <<adapter[d], worker[d], gcs[d]>>
    BY <1>0, <1>3 DEF OnMessageWrite, TypeOK, WorkerState, GCSState
  <2>2. Range(gcs'[c].buffer) = Range(gcs[c].buffer) \cup {worker[c].msg}
    BY <1>0, <2>1, RangeAppend DEF WorkerState, GCSState
  <2>3. /\ Kept(c)' = Kept(c) \cup {worker[c].msg}
        /\ InHand(c)' = {} /\ InHand(c) = {worker[c].msg}
    BY <2>1, <2>2 DEF Kept, InHand
  <2>4. MutexInv(c)' /\ FlushInv(c)' /\ WorkerInv(c)' /\ BufferInv(c)'
    BY <1>0, <2>1, <2>2, <2>3
       DEF ReplicaInv, MutexInv, FlushInv, WorkerInv, BufferInv
  <2>5. ReplicaInv(c)'
    BY <1>0, <2>1, <2>3, <2>4, Grow
  <2> QED
    BY <2>1, <2>5, OneReplicaQuiet
<1>4. CASE OnMessageWriteFails(c)
  <2>1. /\ worker[c].pc = "lock"
        /\ worker'[c].pc = "onMessage"
        /\ worker'[c].msg = worker[c].msg
        /\ gcs'[c].mu = gcs[c].mu
        /\ gcs'[c].pc = gcs[c].pc
        /\ gcs'[c].buffer = gcs[c].buffer
        /\ UNCHANGED <<adapter, uploaded, logEnd, committed, owner>>
        /\ \A d \in Consumer \ {c} : UNCHANGED <<adapter[d], worker[d], gcs[d]>>
    BY <1>0, <1>4 DEF OnMessageWriteFails, TypeOK, WorkerState, GCSState
  <2>2. Kept(c)' = Kept(c) /\ InHand(c)' = InHand(c)
    BY <2>1 DEF Kept, InHand
  <2>3. /\ MutexInv(c)' /\ FlushInv(c)' /\ WorkerInv(c)' /\ BufferInv(c)'
    BY <1>0, <2>1, <2>2 DEF ReplicaInv, MutexInv, FlushInv, WorkerInv, BufferInv
  <2>4. ReplicaInv(c)'
    BY <1>0, <2>1, <2>2, <2>3, Grow
  <2> QED
    BY <2>1, <2>4, OneReplicaQuiet
<1>5. CASE MarkOffset(c)
  <2> DEFINE msg == worker[c].msg
             mark == adapter'[c].marked
  <2>1. /\ worker[c].pc = "mark"
        /\ worker'[c] = NewConsumerWorker
        /\ UNCHANGED <<gcs, uploaded, logEnd, committed, owner>>
        /\ \A d \in Consumer \ {c} : UNCHANGED <<adapter[d], worker[d], gcs[d]>>
        /\ adapter'[c].messages = adapter[c].messages
        /\ adapter'[c].pos = adapter[c].pos
        /\ adapter'[c].session = adapter[c].session
        /\ \/ mark = adapter[c].marked
           \/ mark = msg + 1 /\ mark > adapter[c].marked
        /\ msg \in Nat /\ adapter[c].marked \in Nat
    BY <1>0, <1>5, OffsetNat DEF MarkOffset, TypeOK, AdapterState, WorkerState
  <2>2. /\ Kept(c)' = Kept(c) /\ InHand(c) = {} /\ InHand(c)' = {}
    BY <2>1 DEF Kept, InHand, NewConsumerWorker
  <2>3. MutexInv(c)' /\ FlushInv(c)' /\ WorkerInv(c)' /\ BufferInv(c)'
    BY <1>0, <2>1, <2>2 DEF ReplicaInv, MutexInv, FlushInv, WorkerInv,
       BufferInv, NewConsumerWorker
  <2>4. ChannelInv(c)'
    BY <1>0, <2>1, <2>2, ChannelGrows DEF ReplicaInv
  <2>5. msg < logEnd /\ \A i \in 0 .. msg : i \in Kept(c)
    BY <1>0, <2>1 DEF ReplicaInv, WorkerInv
  <2>6. SessionInv(c)'
    <3> SUFFICES ASSUME adapter[c].session = "live" PROVE SessionInv(c)'
      BY <2>1 DEF SessionInv
    <3>1. /\ adapter[c].pos <= logEnd
          /\ \A i \in 0 .. adapter[c].pos - 1 :
                \/ i \in Kept(c) \cup InHand(c)
                \/ \E k \in 1 .. Len(adapter[c].messages) :
                      adapter[c].messages[k] = i
          /\ adapter[c].marked <= logEnd
          /\ \A i \in 0 .. adapter[c].marked - 1 : i \in Kept(c)
          /\ owner = c => committed <= adapter[c].marked
      BY <1>0 DEF ReplicaInv, SessionInv
    <3>2. /\ mark <= logEnd
          /\ \A i \in 0 .. mark - 1 : i \in Kept(c)
          /\ owner = c => committed <= mark
      BY <1>0, <2>1, <2>5, <3>1
    <3> HIDE DEF mark
    <3> QED
      BY <2>1, <2>2, <3>1, <3>2 DEF SessionInv, mark
  <2> QED
    BY <2>1, <2>3, <2>4, <2>6, OneReplicaQuiet DEF ReplicaInv
<1> QED
  BY <1>1, <1>2, <1>3, <1>4, <1>5 DEF loopMain

(* The flush loop decides whether to flush and touches no message. *)
LEMMA LoopStep ==
    ASSUME DeliveryInv, TypeOK, TypeOK', NEW c \in Consumer, Start(c)
    PROVE  DeliveryInv'
<1>1. /\ ReplicaInv(c)
      /\ gcs[c] \in GCSState
      /\ logEnd <= logEnd
  BY ReplicaTyped, OffsetNat DEF DeliveryInv, TypeOK
<1>2. PICK v \in {"returned", "lock"} :
         /\ gcs[c].pc["loop"] = "check"
         /\ gcs' = [gcs EXCEPT ![c].pc["loop"] = v]
         /\ UNCHANGED <<adapter, worker, uploaded, logEnd, committed, owner>>
  BY DEF Start, StartReturn, StartFull, StartTick
<1>3. /\ gcs'[c].buffer = gcs[c].buffer
      /\ gcs'[c].mu = gcs[c].mu
      /\ gcs'[c].pc = [gcs[c].pc EXCEPT !["loop"] = v]
      /\ \A d \in Consumer \ {c} : gcs'[d] = gcs[d]
  BY <1>1, <1>2 DEF TypeOK, GCSState
<1>4. MutexInv(c)'
  BY <1>1, <1>2, <1>3 DEF ReplicaInv, MutexInv, Thread, GCSState
<1>5. ReplicaInv(c)'
  BY <1>1, <1>2, <1>3, <1>4, Grow DEF ReplicaInv, FlushInv, WorkerInv,
     BufferInv, Kept, InHand, SessionInv
<1> QED
  BY <1>2, <1>3, <1>5, OneReplicaQuiet

(* Where a thread is when Flush returns to it. *)
LEMMA ReturnedPC ==
    ASSUME NEW t
    PROVE  Returned(t) \in {"check", "returned"} /\ Failed(t) \in {"check", "failed"}
BY DEF Returned, Failed

(* The heart of the argument: only a closed compressor stores the whole    *)
(* buffer, and the lock held since then makes the marks safe to commit.    *)
LEMMA FlushStep ==
    ASSUME DeliveryInv, TypeOK, TypeOK', ClosesCompressor,
           NEW c \in Consumer, NEW t \in Thread, Flush(c, t)
    PROVE  DeliveryInv'
<1>0. /\ ReplicaInv(c)
      /\ adapter[c] \in AdapterState
      /\ gcs[c] \in GCSState
      /\ gcs \in [Consumer -> GCSState]
      /\ logEnd \in Nat /\ committed \in Nat /\ logEnd <= logEnd
      /\ committed <= logEnd /\ CommittedUploaded
      /\ \A i \in uploaded : i < logEnd
      /\ UNCHANGED <<adapter, worker, logEnd, owner>>
      /\ InHand(c)' = InHand(c)
      /\ adapter[c].session = "live" /\ owner = c =>
            committed <= adapter[c].marked
  <2>1. UNCHANGED <<adapter, worker, logEnd, owner>>
    BY DEF Flush, FlushEmpty, FlushUpload, FlushUploadFails, FlushCommit
  <2>2. InHand(c)' = InHand(c)
    BY <2>1 DEF InHand
  <2>3. logEnd \in Nat /\ committed \in Nat /\ logEnd <= logEnd
    <3>1. logEnd \in 0 .. MaxLog /\ committed \in 0 .. MaxLog
      BY DEF TypeOK
    <3> QED
      BY <3>1, OffsetNat
  <2>4. ReplicaInv(c) /\ committed <= logEnd /\ CommittedUploaded
        /\ \A i \in uploaded : i < logEnd
    BY DEF DeliveryInv
  <2>5. adapter[c].session = "live" /\ owner = c =>
            committed <= adapter[c].marked
    BY <2>4 DEF ReplicaInv, SessionInv
  <2> QED
    BY <2>1, <2>2, <2>3, <2>4, <2>5, ReplicaTyped DEF TypeOK
<1>1. CASE FlushEmpty(c, t)
  <2>1. /\ gcs[c].pc[t] = "lock"
        /\ gcs'[c].buffer = gcs[c].buffer
        /\ gcs'[c].mu = gcs[c].mu
        /\ gcs'[c].pc = [gcs[c].pc EXCEPT ![t] = Returned(t)]
        /\ Returned(t) # "onFlush"
        /\ UNCHANGED <<uploaded, committed>>
        /\ \A d \in Consumer \ {c} : gcs'[d] = gcs[d]
    BY <1>0, <1>1, ReturnedPC DEF FlushEmpty, GCSState
  <2>2. MutexInv(c)'
    BY <1>0, <2>1 DEF ReplicaInv, MutexInv, GCSState
  <2>3. ReplicaInv(c)'
    BY <1>0, <2>1, <2>2, Grow DEF ReplicaInv, FlushInv, WorkerInv, BufferInv,
       Kept
  <2> QED
    BY <1>0, <2>1, <2>3, OneReplicaQuiet
<1>2. CASE FlushUpload(c, t) \/ FlushUploadFails(c, t)
  <2>1. /\ gcs[c].pc[t] = "lock" /\ gcs[c].mu = "free"
        /\ gcs'[c].buffer = gcs[c].buffer
        /\ committed' = committed
        /\ uploaded \subseteq uploaded'
        /\ uploaded' \subseteq uploaded \cup Range(gcs[c].buffer)
        /\ \A d \in Consumer \ {c} : gcs'[d] = gcs[d]
    <3>1. /\ uploaded \subseteq uploaded'
          /\ uploaded' \subseteq uploaded \cup Range(gcs[c].buffer)
      BY <1>2, ContentsInBuffer DEF FlushUpload, FlushUploadFails
    <3>2. CASE FlushUpload(c, t)
      BY <1>0, <3>1, <3>2 DEF FlushUpload, GCSState
    <3>3. CASE FlushUploadFails(c, t)
      BY <1>0, <3>1, <3>3 DEF FlushUploadFails, GCSState
    <3> QED
      BY <1>2, <3>2, <3>3
  <2>2. MutexInv(c)' /\ FlushInv(c)'
    <3>1. CASE FlushUpload(c, t)
      <4>1. /\ gcs'[c].mu = t
            /\ gcs'[c].pc = [gcs[c].pc EXCEPT ![t] = "onFlush"]
        BY <1>0, <3>1 DEF FlushUpload, TypeOK, GCSState
      <4>2. uploaded' = uploaded \cup Range(gcs[c].buffer)
        BY <3>1 DEF FlushUpload, Contents
      <4> QED
        BY <1>0, <2>1, <4>1, <4>2
           DEF ReplicaInv, MutexInv, FlushInv, GCSState, Thread
    <3>2. CASE FlushUploadFails(c, t)
      <4>1. /\ gcs'[c].mu = "free"
            /\ gcs'[c].pc = [gcs[c].pc EXCEPT ![t] = Failed(t)]
            /\ Failed(t) # "onFlush"
        BY <1>0, <3>2 DEF FlushUploadFails, TypeOK, GCSState, Failed
      <4> QED
        BY <1>0, <2>1, <4>1
           DEF ReplicaInv, MutexInv, FlushInv, GCSState, Thread
    <3> QED
      BY <1>2, <3>1, <3>2
  <2>3. Kept(c) \subseteq Kept(c)'
    BY <2>1 DEF Kept
  <2>4. WorkerInv(c)' /\ BufferInv(c)'
    BY <1>0, <2>1, <2>3 DEF ReplicaInv, WorkerInv, BufferInv
  <2>5. ReplicaInv(c)'
    BY <1>0, <2>1, <2>2, <2>3, <2>4, Grow
  <2>6. \A i \in uploaded' : i < logEnd
    BY <1>0, <2>1 DEF ReplicaInv, BufferInv
  <2>7. CommittedUploaded'
    BY <1>0, <2>1 DEF CommittedUploaded
  <2> QED
    BY <1>0, <2>1, <2>5, <2>6, <2>7, OneReplica
<1>3. CASE FlushCommit(c, t)
  <2>1. /\ gcs[c].pc[t] = "onFlush"
        /\ gcs'[c].buffer = <<>>
        /\ gcs'[c].mu = "free"
        /\ gcs'[c].pc = [gcs[c].pc EXCEPT ![t] = Returned(t)]
        /\ Returned(t) # "onFlush"
        /\ uploaded' = uploaded
        /\ \A d \in Consumer \ {c} : gcs'[d] = gcs[d]
        /\ \/ committed' = committed
           \/ /\ committed' = adapter[c].marked
              /\ adapter[c].session = "live"
              /\ owner = c
    <3>1. /\ gcs[c].pc[t] = "onFlush"
          /\ gcs' = [gcs EXCEPT ![c].buffer = <<>>, ![c].bytesCounter = 0,
                               ![c].mu = "free", ![c].pc[t] = Returned(t)]
          /\ uploaded' = uploaded
      BY <1>3 DEF FlushCommit
    <3>2. gcs'[c] = [gcs[c] EXCEPT !.buffer = <<>>, !.bytesCounter = 0,
                                   !.mu = "free", !.pc[t] = Returned(t)]
      BY <1>0, <3>1
    <3>3. /\ gcs'[c].buffer = <<>>
          /\ gcs'[c].mu = "free"
          /\ gcs'[c].pc = [gcs[c].pc EXCEPT ![t] = Returned(t)]
      BY <1>0, <3>2 DEF GCSState
    <3>4. \A d \in Consumer \ {c} : gcs'[d] = gcs[d]
      BY <1>0, <3>1
    <3>5. \/ committed' = committed
          \/ /\ committed' = adapter[c].marked
             /\ adapter[c].session = "live"
             /\ owner = c
      BY <1>3 DEF FlushCommit, CommitOffsets
    <3> QED
      BY <3>1, <3>3, <3>4, <3>5, ReturnedPC
  <2>2. gcs[c].mu = t /\ t # "free"
    BY <1>0, <2>1 DEF ReplicaInv, MutexInv, Thread
  <2>3. Range(gcs[c].buffer) \subseteq uploaded
    BY <1>0, <2>2 DEF ReplicaInv, FlushInv
  <2>4. Kept(c)' = uploaded \cup Bad /\ Kept(c) = uploaded \cup Bad
    BY <2>1, <2>3, RangeEmpty DEF Kept
  <2>5. MutexInv(c)' /\ FlushInv(c)'
    BY <1>0, <2>1, <2>2 DEF ReplicaInv, MutexInv, FlushInv, GCSState, Thread
  <2>6. WorkerInv(c)' /\ BufferInv(c)'
    BY <1>0, <2>1, <2>4, RangeEmpty DEF ReplicaInv, WorkerInv, BufferInv
  <2>7. /\ committed' <= logEnd
        /\ adapter[c].session = "live" /\ owner = c =>
              committed' <= adapter[c].marked
    <3>1. adapter[c].marked \in Nat
      BY <1>0, OffsetNat DEF AdapterState
    <3>2. adapter[c].session = "live" => adapter[c].marked <= logEnd
      BY <1>0 DEF ReplicaInv, SessionInv
    <3> QED
      BY <1>0, <2>1, <3>1, <3>2
  <2>8. ReplicaInv(c)'
    BY <1>0, <2>4, <2>5, <2>6, <2>7, Grow
  <2>9. CommittedUploaded'
    <3>1. CASE committed' = committed
      BY <1>0, <2>1, <3>1 DEF CommittedUploaded
    <3>2. CASE committed' # committed
      BY <1>0, <2>1, <2>4, <3>2 DEF CommittedUploaded, ReplicaInv, SessionInv
    <3> QED
      BY <3>1, <3>2
  <2> QED
    BY <1>0, <2>1, <2>7, <2>8, <2>9, OneReplica
<1> QED
  BY <1>1, <1>2, <1>3 DEF Flush

(* Every step of the specification keeps the inductive invariant. *)
LEMMA DeliveryStep ==
    ASSUME DeliveryInv, TypeOK, TypeOK', ClosesCompressor, [Next]_vars
    PROVE  DeliveryInv'
<1>1. CASE UNCHANGED vars
  BY <1>1 DEF vars, DeliveryInv, CommittedUploaded, ReplicaInv, MutexInv,
     FlushInv, WorkerInv, ChannelInv, SessionInv, BufferInv, Kept, InHand
<1>2. CASE Produce \/ Rebalance
  <2>1. /\ UNCHANGED <<adapter, worker, gcs, uploaded, committed>>
        /\ owner' \in {owner, NoConsumer}
        /\ logEnd' \in {logEnd, logEnd + 1}
    BY <1>2 DEF Produce, Rebalance
  <2>2. logEnd \in Nat /\ committed \in Nat /\ uploaded \subseteq Nat
    BY OffsetNat DEF TypeOK
  <2>3. ASSUME NEW c \in Consumer PROVE ReplicaInv(c)'
    <3>1. ReplicaInv(c)
      BY DEF DeliveryInv
    <3>2. owner' = c => owner = c /\ committed' = committed
      BY <2>1, ConsumerAssumption
    <3>3. logEnd <= logEnd'
      BY <2>1, <2>2
    <3> QED
      BY <2>1, <3>1, <3>2, <3>3, Frame
  <2>4. committed' <= logEnd' /\ \A i \in uploaded' : i < logEnd'
    BY <2>1, <2>2 DEF DeliveryInv
  <2>5. CommittedUploaded'
    BY <2>1 DEF DeliveryInv, CommittedUploaded
  <2> QED
    BY <2>3, <2>4, <2>5 DEF DeliveryInv
<1>3. ASSUME NEW c \in Consumer,
             Process(c) \/ Session(c) \/ loopMain(c) \/ Start(c)
      PROVE  DeliveryInv'
  BY <1>3, ProcessStep, SessionStep, WorkerStep, LoopStep
<1>4. ASSUME NEW c \in Consumer, NEW t \in Thread, Flush(c, t)
      PROVE  DeliveryInv'
  BY <1>4, FlushStep
<1> QED
  BY <1>1, <1>2, <1>3, <1>4 DEF Next

(* The inductive invariant holds in every reachable state, when uploads go *)
(* through a compressor that is closed.                                    *)
THEOREM DeliveryInvariant == ClosesCompressor => (Spec => []DeliveryInv)
<1> SUFFICES ASSUME ClosesCompressor PROVE Spec => []DeliveryInv
  OBVIOUS
<1>1. TypeOK /\ TypeOK' /\ DeliveryInv /\ [Next]_vars => DeliveryInv'
  BY DeliveryStep
<1> QED
  BY TypeCorrect, DeliveryInit, <1>1, PTL DEF Spec

(* At-least-once delivery, for any number of replicas and any sizes: with  *)
(* gzip or zstd, an offset is committed only when its message was stored   *)
(* in the bucket or could not be converted.                                *)
THEOREM AtLeastOnce == ClosesCompressor => (Spec => []CommittedUploaded)
<1>1. DeliveryInv => CommittedUploaded
  BY DEF DeliveryInv
<1> QED
  BY DeliveryInvariant, <1>1, PTL

-----------------------------------------------------------------------------
(* Monotonic commits and the refinement. *)

(* Only the onFlushFunc of a replica that owns the partition commits. *)
LEMMA CommitStep ==
    ASSUME [Next]_vars
    PROVE  committed' = committed \/
           \E c \in Consumer, t \in Thread :
               /\ FlushCommit(c, t)
               /\ adapter[c].session = "live"
               /\ owner = c
               /\ committed' = adapter[c].marked
<1>1. CASE UNCHANGED vars
  BY <1>1 DEF vars
<1>2. CASE Produce \/ Rebalance
  BY <1>2 DEF Produce, Rebalance
<1>3. ASSUME NEW c \in Consumer, Process(c) \/ Session(c)
      PROVE  committed' = committed
  BY <1>3 DEF Process, spawnLogsWorker, Crash, Exit, Vanish, Stop, Session,
     Setup, Cleanup, ConsumeClaim
<1>4. ASSUME NEW c \in Consumer, loopMain(c) \/ Start(c)
      PROVE  committed' = committed
  BY <1>4 DEF loopMain, Receive, OnMessageCheck, OnMessageFull,
     OnMessageWrite, OnMessageWriteFails, MarkOffset, Start, StartReturn,
     StartFull, StartTick
<1>5. ASSUME NEW c \in Consumer, NEW t \in Thread,
             FlushEmpty(c, t) \/ FlushUpload(c, t) \/ FlushUploadFails(c, t)
      PROVE  committed' = committed
  BY <1>5 DEF FlushEmpty, FlushUpload, FlushUploadFails
<1>6. ASSUME NEW c \in Consumer, NEW t \in Thread, FlushCommit(c, t),
             committed' # committed
      PROVE  /\ adapter[c].session = "live"
             /\ owner = c
             /\ committed' = adapter[c].marked
  BY <1>6 DEF FlushCommit, CommitOffsets
<1> QED
  BY <1>1, <1>2, <1>3, <1>4, <1>5, <1>6 DEF Next, Flush

(* A commit writes a mark of the owner's session, which started at the     *)
(* committed offset: it never goes back.                                   *)
LEMMA CommitGrows ==
    ASSUME DeliveryInv, TypeOK, [Next]_vars
    PROVE  committed' >= committed
<1>1. committed \in Nat
  BY OffsetNat DEF TypeOK
<1>2. ASSUME NEW c \in Consumer, adapter[c].session = "live", owner = c,
             committed' = adapter[c].marked
      PROVE  committed' >= committed
  <2>1. committed <= adapter[c].marked /\ adapter[c].marked \in Nat
    BY <1>2, ReplicaTyped, OffsetNat
       DEF DeliveryInv, ReplicaInv, SessionInv, AdapterState
  <2> QED
    BY <1>1, <1>2, <2>1
<1> QED
  BY <1>1, <1>2, CommitStep

(* The committed offset of the group never moves back: neither a fenced    *)
(* replica nor the messages an older session left in a channel can undo a  *)
(* commit.                                                                 *)
THEOREM MonotonicCommits == ClosesCompressor => (Spec => CommitsNeverRegress)
<1> SUFFICES ASSUME ClosesCompressor PROVE Spec => CommitsNeverRegress
  OBVIOUS
<1>1. DeliveryInv /\ TypeOK /\ [Next]_vars => [committed' >= committed]_committed
  BY CommitGrows
<1> QED
  BY DeliveryInvariant, TypeCorrect, <1>1, PTL DEF Spec, CommitsNeverRegress

(* What reaches the bucket in a step is in the log. *)
LEMMA UploadStep ==
    ASSUME DeliveryInv, TypeOK, [Next]_vars
    PROVE  \/ uploaded' = uploaded
           \/ /\ \E S \in SUBSET (0 .. logEnd - 1) : uploaded' = uploaded \cup S
              /\ UNCHANGED <<logEnd, committed>>
<1>1. CASE UNCHANGED vars
  BY <1>1 DEF vars
<1>2. CASE Produce \/ Rebalance
  BY <1>2 DEF Produce, Rebalance
<1>3. ASSUME NEW c \in Consumer, Process(c) \/ Session(c)
      PROVE  uploaded' = uploaded
  BY <1>3 DEF Process, spawnLogsWorker, Crash, Exit, Vanish, Stop, Session,
     Setup, Cleanup, ConsumeClaim
<1>4. ASSUME NEW c \in Consumer, loopMain(c) \/ Start(c)
      PROVE  uploaded' = uploaded
  BY <1>4 DEF loopMain, Receive, OnMessageCheck, OnMessageFull,
     OnMessageWrite, OnMessageWriteFails, MarkOffset, Start, StartReturn,
     StartFull, StartTick
<1>5. ASSUME NEW c \in Consumer, NEW t \in Thread,
             FlushEmpty(c, t) \/ FlushCommit(c, t)
      PROVE  uploaded' = uploaded
  BY <1>5 DEF FlushEmpty, FlushCommit
<1>6. ASSUME NEW c \in Consumer, NEW t \in Thread,
             FlushUpload(c, t) \/ FlushUploadFails(c, t)
      PROVE  /\ \E S \in SUBSET (0 .. logEnd - 1) : uploaded' = uploaded \cup S
             /\ UNCHANGED <<logEnd, committed>>
  <2>1. PICK S \in Contents(c) \cup {{}} : uploaded' = uploaded \cup S
    BY <1>6 DEF FlushUpload, FlushUploadFails
  <2>2. S \subseteq Range(gcs[c].buffer)
    BY ContentsInBuffer
  <2>3. Range(gcs[c].buffer) \subseteq Nat
    BY RangeInOffset, OffsetNat
  <2>4. \A i \in Range(gcs[c].buffer) : i < logEnd
    BY DEF DeliveryInv, ReplicaInv, BufferInv
  <2>5. logEnd \in Nat
    BY OffsetNat DEF TypeOK
  <2>6. S \in SUBSET (0 .. logEnd - 1)
    BY <2>2, <2>3, <2>4, <2>5
  <2> QED
    BY <1>6, <2>1, <2>6 DEF FlushUpload, FlushUploadFails
<1> QED
  BY <1>1, <1>2, <1>3, <1>4, <1>5, <1>6 DEF Next, Flush

(* A step of the replicas is a step of the sink, or changes nothing of it. *)
LEMMA SinkStep ==
    ASSUME DeliveryInv, DeliveryInv', TypeOK, [Next]_vars
    PROVE  [Sink!Next]_Sink!sinkVars
<1>0. logEnd \in Nat /\ committed \in Nat
  BY OffsetNat DEF TypeOK
<1>1. CASE uploaded' # uploaded
  BY <1>1, UploadStep DEF Sink!Next, Sink!Deliver
<1>2. CASE uploaded' = uploaded /\ committed' # committed
  <2>1. PICK c \in Consumer, t \in Thread :
               /\ FlushCommit(c, t)
               /\ adapter[c].session = "live"
               /\ owner = c
               /\ committed' = adapter[c].marked
    BY <1>2, CommitStep
  <2>2. logEnd' = logEnd
    BY <2>1 DEF FlushCommit
  <2>3. adapter[c].marked \in Nat
    BY ReplicaTyped, OffsetNat DEF AdapterState
  <2>4. committed' \in committed .. logEnd
    BY <1>0, <2>1, <2>2, <2>3, CommitGrows DEF DeliveryInv
  <2>5. \A i \in 0 .. committed' - 1 : i \in uploaded \cup Bad
    BY <1>2 DEF DeliveryInv, CommittedUploaded
  <2> QED
    BY <1>2, <2>2, <2>4, <2>5 DEF Sink!Next, Sink!Acknowledge
<1>3. CASE UNCHANGED <<uploaded, committed>>
  <2>1. logEnd' = logEnd \/ logEnd' = logEnd + 1
    <3>1. ASSUME NEW c \in Consumer, Process(c) \/ Session(c)
          PROVE  logEnd' = logEnd
      BY <3>1 DEF Process, spawnLogsWorker, Crash, Exit, Vanish, Stop,
         Session, Setup, Cleanup, ConsumeClaim
    <3>2. ASSUME NEW c \in Consumer, loopMain(c) \/ Start(c)
          PROVE  logEnd' = logEnd
      BY <3>2 DEF loopMain, Receive, OnMessageCheck, OnMessageFull,
         OnMessageWrite, OnMessageWriteFails, MarkOffset, Start, StartReturn,
         StartFull, StartTick
    <3>3. ASSUME NEW c \in Consumer, NEW t \in Thread, Flush(c, t)
          PROVE  logEnd' = logEnd
      BY <3>3 DEF Flush, FlushEmpty, FlushUpload, FlushUploadFails, FlushCommit
    <3> QED
      BY <3>1, <3>2, <3>3 DEF Next, vars, Produce, Rebalance
  <2> QED
    BY <1>3, <2>1 DEF Sink!Next, Sink!Produce, Sink!sinkVars
<1> QED
  BY <1>1, <1>2, <1>3

(* The replicas of consumer-gcs, whatever they go through, implement an    *)
(* at-least-once sink: seen from the log, the committed offset and the     *)
(* bucket, every step is a step of LogSink or none.                        *)
THEOREM Refinement == ClosesCompressor => (Spec => ImplementsSink)
<1> SUFFICES ASSUME ClosesCompressor PROVE Spec => ImplementsSink
  OBVIOUS
<1>1. Init => Sink!Init
  BY DEF Init, Sink!Init
<1>2. DeliveryInv /\ DeliveryInv' /\ TypeOK /\ [Next]_vars
         => [Sink!Next]_Sink!sinkVars
  BY SinkStep
<1> QED
  BY DeliveryInvariant, TypeCorrect, <1>1, <1>2, PTL
     DEF Spec, ImplementsSink, Sink!Spec


-----------------------------------------------------------------------------
(* What a Stop leaves behind. *)

(* The counter counts at least the lines of the buffer, so Flush finds the *)
(* buffer empty when it finds the counter zero.  The flag is up as soon as *)
(* Stop has begun: after it, at most the one message whose OnMessage was   *)
(* already waiting for the lock comes in.                                  *)
StopInv(c) ==
    /\ Len(gcs[c].buffer) <= gcs[c].bytesCounter
    /\ gcs[c].pc["stop"] # "idle" => gcs[c].isStop
    /\ gcs[c].pc["stop"] = "returned" =>
          \/ Len(gcs[c].buffer) = 0
          \/ Len(gcs[c].buffer) = 1 /\ worker[c].pc # "lock"

(* A replica whose buffer and Stop do not move, and whose worker does not  *)
(* come to wait for the lock.                                              *)
LEMMA StopFrame ==
    ASSUME NEW c \in Consumer, StopInv(c),
           gcs'[c].buffer = gcs[c].buffer,
           gcs'[c].bytesCounter = gcs[c].bytesCounter,
           gcs'[c].isStop = gcs[c].isStop,
           gcs'[c].pc["stop"] = gcs[c].pc["stop"],
           \/ worker'[c].pc = worker[c].pc
           \/ worker'[c].pc # "lock"
           \/ ~gcs[c].isStop
    PROVE  StopInv(c)'
BY DEF StopInv

(* The steps of a replica keep it. *)
LEMMA StopStepOf ==
    ASSUME TypeOK, NEW c \in Consumer, StopInv(c),
           \/ Process(c) \/ Session(c) \/ loopMain(c) \/ Start(c)
           \/ \E t \in Thread : Flush(c, t)
    PROVE  StopInv(c)'
<1>0. /\ gcs \in [Consumer -> GCSState] /\ gcs[c] \in GCSState
      /\ worker \in [Consumer -> WorkerState] /\ worker[c] \in WorkerState
      /\ gcs[c].buffer \in Seq(Offset) /\ Len(gcs[c].buffer) \in Nat
      /\ gcs[c].bytesCounter \in Nat
      /\ "stop" \in Thread /\ "loop" \in Thread
  BY DEF TypeOK, GCSState, Thread
<1>1. CASE spawnLogsWorker(c) \/ Session(c)
  <2>1. gcs' = gcs /\ worker' = worker
    BY <1>1 DEF spawnLogsWorker, Session, Setup, Cleanup, ConsumeClaim
  <2> QED
    BY <2>1, StopFrame
<1>2. CASE Crash(c) \/ Exit(c)
  <2>1. gcs'[c] = NewGCS
    BY <1>0, <1>2 DEF Crash, Exit, Vanish
  <2> QED
    BY <2>1 DEF StopInv, NewGCS, Thread
<1>3. CASE Stop(c)
  <2>1. /\ gcs'[c].buffer = gcs[c].buffer
        /\ gcs'[c].bytesCounter = gcs[c].bytesCounter
        /\ gcs'[c].isStop
        /\ gcs'[c].pc["stop"] = "lock"
    BY <1>0, <1>3 DEF Stop, GCSState
  <2> QED
    BY <2>1 DEF StopInv
<1>4. CASE Receive(c) \/ OnMessageFull(c) \/ MarkOffset(c)
  <2>1. gcs' = gcs
    BY <1>4 DEF Receive, OnMessageFull, MarkOffset
  <2>2. worker'[c].pc # "lock"
    BY <1>0, <1>4 DEF Receive, OnMessageFull, MarkOffset, NewConsumerWorker,
                      WorkerState
  <2> QED
    BY <2>1, <2>2, StopFrame
<1>5. CASE OnMessageCheck(c)
  BY <1>5, StopFrame DEF OnMessageCheck
<1>6. CASE OnMessageWrite(c)
  <2>1. /\ gcs'[c].buffer = Append(gcs[c].buffer, worker[c].msg)
        /\ gcs'[c].bytesCounter = gcs[c].bytesCounter + 1
        /\ gcs'[c].isStop = gcs[c].isStop
        /\ gcs'[c].pc = gcs[c].pc
        /\ worker[c].pc = "lock" /\ worker'[c].pc = "mark"
    BY <1>0, <1>6 DEF OnMessageWrite, GCSState, WorkerState
  <2>2. Len(gcs'[c].buffer) = Len(gcs[c].buffer) + 1
    BY <1>0, <2>1 DEF WorkerState
  <2> QED
    BY <1>0, <2>1, <2>2 DEF StopInv
<1>7. CASE OnMessageWriteFails(c)
  <2>1. PICK n \in {0, 1} : gcs' = [gcs EXCEPT ![c].bytesCounter = @ + n]
    BY <1>7 DEF OnMessageWriteFails
  <2>2. /\ gcs'[c].buffer = gcs[c].buffer
        /\ gcs'[c].bytesCounter = gcs[c].bytesCounter + n
        /\ gcs'[c].isStop = gcs[c].isStop
        /\ gcs'[c].pc = gcs[c].pc
        /\ worker'[c].pc = "onMessage"
    BY <1>0, <1>7, <2>1 DEF OnMessageWriteFails, GCSState, WorkerState
  <2> QED
    BY <1>0, <2>2 DEF StopInv
<1>8. CASE Start(c)
  <2>1. /\ gcs'[c].buffer = gcs[c].buffer
        /\ gcs'[c].bytesCounter = gcs[c].bytesCounter
        /\ gcs'[c].isStop = gcs[c].isStop
        /\ gcs'[c].pc["stop"] = gcs[c].pc["stop"]
        /\ worker' = worker
    BY <1>0, <1>8 DEF Start, StartReturn, StartFull, StartTick, GCSState
  <2> QED
    BY <2>1, StopFrame
<1>9. ASSUME NEW t \in Thread, FlushEmpty(c, t) PROVE StopInv(c)'
  <2>1. /\ gcs'[c].buffer = gcs[c].buffer
        /\ gcs'[c].bytesCounter = gcs[c].bytesCounter
        /\ gcs'[c].isStop = gcs[c].isStop
        /\ gcs'[c].pc = [gcs[c].pc EXCEPT ![t] = Returned(t)]
        /\ gcs[c].pc[t] = "lock" /\ gcs[c].bytesCounter = 0
        /\ worker' = worker
    BY <1>0, <1>9 DEF FlushEmpty, GCSState
  <2>2. Len(gcs[c].buffer) = 0
    BY <1>0, <2>1 DEF StopInv
  <2>3. gcs'[c].pc["stop"] # "idle" => gcs[c].pc["stop"] # "idle"
    BY <1>0, <2>1 DEF GCSState, Returned, Thread
  <2> QED
    BY <1>0, <2>1, <2>2, <2>3 DEF StopInv
<1>10. ASSUME NEW t \in Thread, FlushUpload(c, t) \/ FlushUploadFails(c, t)
       PROVE  StopInv(c)'
  <2>1. /\ gcs'[c].buffer = gcs[c].buffer
        /\ gcs'[c].bytesCounter = gcs[c].bytesCounter
        /\ gcs'[c].isStop = gcs[c].isStop
        /\ gcs[c].pc[t] = "lock"
        /\ worker' = worker
    BY <1>0, <1>10 DEF FlushUpload, FlushUploadFails, GCSState
  <2>2. PICK p : /\ gcs'[c].pc = [gcs[c].pc EXCEPT ![t] = p]
                 /\ t = "stop" => p \in {"onFlush", "failed"}
    <3>1. CASE FlushUpload(c, t)
      <4>1. gcs'[c].pc = [gcs[c].pc EXCEPT ![t] = "onFlush"]
        BY <1>0, <3>1 DEF FlushUpload, GCSState
      <4> QED
        BY <4>1
    <3>2. CASE FlushUploadFails(c, t)
      <4>1. gcs'[c].pc = [gcs[c].pc EXCEPT ![t] = Failed(t)]
        BY <1>0, <3>2 DEF FlushUploadFails, GCSState
      <4>2. t = "stop" => Failed(t) = "failed"
        BY DEF Failed
      <4> QED
        BY <4>1, <4>2
    <3> QED
      BY <1>10, <3>1, <3>2
  <2>3. \/ gcs'[c].pc["stop"] = gcs[c].pc["stop"]
        \/ /\ gcs'[c].pc["stop"] \in {"onFlush", "failed"}
           /\ gcs[c].pc["stop"] = "lock"
    BY <1>0, <2>1, <2>2 DEF GCSState
  <2> QED
    BY <2>1, <2>3 DEF StopInv
<1>11. ASSUME NEW t \in Thread, FlushCommit(c, t) PROVE StopInv(c)'
  <2>1. /\ gcs'[c].buffer = <<>>
        /\ gcs'[c].bytesCounter = 0
        /\ gcs'[c].isStop = gcs[c].isStop
        /\ gcs'[c].pc = [gcs[c].pc EXCEPT ![t] = Returned(t)]
        /\ gcs[c].pc[t] = "onFlush"
    BY <1>0, <1>11 DEF FlushCommit, GCSState
  <2>2. gcs'[c].pc["stop"] # "idle" => gcs[c].pc["stop"] # "idle"
    BY <1>0, <2>1 DEF GCSState
  <2> QED
    BY <2>1, <2>2 DEF StopInv
<1> QED
  BY <1>1, <1>2, <1>3, <1>4, <1>5, <1>6, <1>7, <1>8, <1>9, <1>10, <1>11
     DEF Process, loopMain, Flush

(* A step of one replica leaves the buffers of the others alone. *)
LEMMA OthersAlone ==
    ASSUME TypeOK, NEW c \in Consumer, NEW d \in Consumer \ {c},
           \/ Process(c) \/ Session(c) \/ loopMain(c) \/ Start(c)
           \/ \E t \in Thread : Flush(c, t)
    PROVE  gcs'[d] = gcs[d] /\ worker'[d] = worker[d]
<1>1. CASE Process(c) \/ Session(c)
  BY <1>1 DEF Process, spawnLogsWorker, Crash, Exit, Vanish, Stop, Session,
              Setup, Cleanup, ConsumeClaim, TypeOK
<1>2. CASE loopMain(c)
  BY <1>2 DEF loopMain, Receive, OnMessageCheck, OnMessageFull,
              OnMessageWrite, OnMessageWriteFails, MarkOffset, TypeOK
<1>3. CASE Start(c) \/ \E t \in Thread : Flush(c, t)
  BY <1>3 DEF Start, StartReturn, StartFull, StartTick, Flush, FlushEmpty,
              FlushUpload, FlushUploadFails, FlushCommit, TypeOK
<1> QED
  BY <1>1, <1>2, <1>3

(* A Stop that went through leaves at most one message in the buffer, for  *)
(* any number of replicas and any sizes, whichever of the worker, the      *)
(* flush loop and Stop gets the lock first.                                *)
THEOREM AtMostOneLeft == Spec => []StopLeavesAtMostOne
<1> DEFINE Inv == \A c \in Consumer : StopInv(c)
<1>1. Init => Inv
  BY DEF Init, NewGCS, StopInv, Thread
<1>2. TypeOK /\ Inv /\ [Next]_vars => Inv'
  <2> SUFFICES ASSUME TypeOK, Inv, [Next]_vars, NEW d \in Consumer
               PROVE  StopInv(d)'
    OBVIOUS
  <2>1. CASE UNCHANGED vars \/ Produce \/ Rebalance
    <3>1. gcs' = gcs /\ worker' = worker
      BY <2>1 DEF vars, Produce, Rebalance
    <3> QED
      BY <3>1, StopFrame
  <2>2. ASSUME NEW c \in Consumer,
               \/ Process(c) \/ Session(c) \/ loopMain(c) \/ Start(c)
               \/ \E t \in Thread : Flush(c, t)
        PROVE  StopInv(d)'
    <3>1. CASE c = d
      BY <2>2, <3>1, StopStepOf
    <3>2. CASE c # d
      <4>1. gcs'[d] = gcs[d] /\ worker'[d] = worker[d]
        BY <2>2, <3>2, OthersAlone
      <4> QED
        BY <4>1, StopFrame
    <3> QED
      BY <3>1, <3>2
  <2> QED
    BY <2>1, <2>2 DEF Next
<1>3. Inv => StopLeavesAtMostOne
  <2> SUFFICES ASSUME Inv, NEW c \in Consumer,
                      gcs[c].pc["stop"] = "returned"
               PROVE  Len(gcs[c].buffer) <= 1
    BY DEF StopLeavesAtMostOne
  <2>1. Len(gcs[c].buffer) = 0 \/ Len(gcs[c].buffer) = 1
    BY DEF StopInv
  <2>2. \A n \in {0, 1} : n <= 1
    OBVIOUS
  <2> QED
    BY <2>1, <2>2
<1> HIDE DEF Inv
<1> QED
  BY <1>1, <1>2, <1>3, TypeCorrect, PTL DEF Spec
=============================================================================
