---------------------------- MODULE GCSConsumer ----------------------------
(***************************************************************************)
(* The consumer-gcs mode of barito-flow for one partition of one topic:    *)
(* the replicas of the process, each with its consumer-group adapter       *)
(* (flow/kafka_factory.go), its consumer worker (flow/consumer_worker.go)  *)
(* and its GCS output (flow/consumer_output_gcs.go), wired together by     *)
(* spawnLogsWorker (flow/barito_kafka_consumer_gcs_service.go); with the   *)
(* Kafka broker, the group coordinator and the bucket they talk to.        *)
(*                                                                         *)
(* Four goroutines of a replica interleave: the adapter (which fills the   *)
(* channel), the worker (loopMain), the flush loop (GCS.Start) and, after  *)
(* a termination signal, the goroutine that calls GCS.Stop.  A step is a   *)
(* critical section of GCS.mu, an access to a channel or an unlocked flag, *)
(* or one call to Kafka or to the storage.                                 *)
(*                                                                         *)
(* A message is its offset.  Every message counts as one byte, so the      *)
(* buffer is full after FlushMaxBytes messages.                            *)
(***************************************************************************)
EXTENDS Integers, Sequences, Functions

CONSTANTS
    Consumer,           \* the replicas of the process
    NoConsumer,         \* no replica owns the partition
    Bad,                \* offsets of messages that cannot be converted
    FlushMaxBytes,      \* GCSSettings.FlushMaxBytes
    ChannelCap,         \* capacity of consumerGroupAdapter.messages
    Compressor,         \* GCSSettings.Compressor
    MaxLog,             \* bound: number of messages ever produced
    Signalled           \* bound: replicas a termination signal may reach

ASSUME ConsumerAssumption ==
    /\ NoConsumer \notin Consumer
    /\ Signalled \subseteq Consumer

ASSUME SizeAssumption ==
    /\ FlushMaxBytes \in Nat
    /\ ChannelCap \in Nat \ {0}
    /\ MaxLog \in Nat \ {0}

ASSUME CompressorAssumption == Compressor \in {"", "gzip", "zstd"}

ASSUME BadAssumption == Bad \subseteq Nat

VARIABLES
    logEnd,             \* broker: offset of the next message
    committed,          \* broker: committed offset of the consumer group
    owner,              \* broker: the replica of the current generation
    up,                 \* the replicas whose process runs
    adapter,            \* consumerGroupAdapter, with the group session
    worker,             \* consumerWorker: its program counter and message
    gcs,                \* GCS: its fields and the counters of its threads
    uploaded            \* every message ever stored in an object

vars == <<logEnd, committed, owner, up, adapter, worker, gcs, uploaded>>

-----------------------------------------------------------------------------
(* The state of one replica. *)

Offset == 0 .. MaxLog - 1
Thread == {"loop", "stop"}

AdapterState ==
    [session  : {"none", "live"},   \* does a.session accept marks and commits
     pos      : 0 .. MaxLog,        \* next offset the claim delivers
     messages : Seq(Offset),        \* the channel
     marked   : 0 .. MaxLog]        \* offset marked in the session

WorkerState ==
    [pc  : {"select", "onMessage", "lock", "mark"},
     msg : Offset]

GCSState ==
    [buffer       : Seq(Offset),    \* the complete lines in the temp file
     bytesCounter : Nat,
     isStop       : BOOLEAN,
     mu           : Thread \cup {"free"},
     pc           : [Thread -> {"idle", "check", "lock", "onFlush",
                                "returned", "failed"}]]

newConsumerGroupAdapter ==
    [session |-> "none", pos |-> 0, messages |-> <<>>, marked |-> 0]

NewConsumerWorker == [pc |-> "select", msg |-> 0]

NewGCS ==
    [buffer |-> <<>>, bytesCounter |-> 0, isStop |-> FALSE, mu |-> "free",
     pc |-> [t \in Thread |-> IF t = "loop" THEN "check" ELSE "idle"]]

Init ==
    /\ logEnd = 0
    /\ committed = 0
    /\ owner = NoConsumer
    /\ up = {}
    /\ adapter = [c \in Consumer |-> newConsumerGroupAdapter]
    /\ worker = [c \in Consumer |-> NewConsumerWorker]
    /\ gcs = [c \in Consumer |-> NewGCS]
    /\ uploaded = {}

-----------------------------------------------------------------------------
(* The environment: producers and the group coordinator. *)

Produce ==
    /\ logEnd < MaxLog
    /\ logEnd' = logEnd + 1
    /\ UNCHANGED <<committed, owner, up, adapter, worker, gcs, uploaded>>

(* The coordinator ends the generation: the owner missed its heartbeats,   *)
(* died, left, or another member joined.  Its session still looks alive to *)
(* the replica until it hears of it.                                       *)
Rebalance ==
    /\ owner # NoConsumer
    /\ owner' = NoConsumer
    /\ UNCHANGED <<logEnd, committed, up, adapter, worker, gcs, uploaded>>

-----------------------------------------------------------------------------
(* The life of a process. *)

spawnLogsWorker(c) ==
    /\ c \notin up
    /\ up' = up \cup {c}
    /\ UNCHANGED <<logEnd, committed, owner, adapter, worker, gcs, uploaded>>

(* Everything the process holds in memory and in its temp file is gone.    *)
(* The coordinator learns of it later, with a Rebalance.                   *)
Vanish(c) ==
    /\ up' = up \ {c}
    /\ adapter' = [adapter EXCEPT ![c] = newConsumerGroupAdapter]
    /\ worker' = [worker EXCEPT ![c] = NewConsumerWorker]
    /\ gcs' = [gcs EXCEPT ![c] = NewGCS]
    /\ UNCHANGED <<logEnd, committed, owner, uploaded>>

Crash(c) ==
    /\ c \in up
    /\ Vanish(c)

(* service.Close on a termination signal calls GCS.Stop: raise the flag,   *)
(* then Flush.  The worker is not stopped.                                 *)
Stop(c) ==
    /\ c \in Signalled
    /\ c \in up
    /\ gcs[c].pc["stop"] = "idle"
    /\ gcs' = [gcs EXCEPT ![c].isStop = TRUE, ![c].pc["stop"] = "lock"]
    /\ UNCHANGED <<logEnd, committed, owner, up, adapter, worker, uploaded>>

Exit(c) ==
    /\ c \in up
    /\ gcs[c].pc["stop"] \in {"returned", "failed"}
    /\ Vanish(c)

-----------------------------------------------------------------------------
(* The consumer-group adapter. *)

(* The replica joins the next generation: the session starts at the        *)
(* committed offset (OffsetOldest when there is none) and Setup stores it  *)
(* in a.session.  The channel keeps what an earlier session left in it.    *)
Setup(c) ==
    /\ c \in up
    /\ adapter[c].session = "none"
    /\ owner = NoConsumer
    /\ owner' = c
    /\ adapter' = [adapter EXCEPT ![c].session = "live",
                                  ![c].pos = committed,
                                  ![c].marked = committed]
    /\ UNCHANGED <<logEnd, committed, up, worker, gcs, uploaded>>

(* The replica hears that its generation is over; a.session now refers to  *)
(* a released session.  Auto-commit is off: nothing is committed here.     *)
Cleanup(c) ==
    /\ adapter[c].session = "live"
    /\ owner # c
    /\ adapter' = [adapter EXCEPT ![c].session = "none",
                                  ![c].pos = 0, ![c].marked = 0]
    /\ UNCHANGED <<logEnd, committed, owner, up, worker, gcs, uploaded>>

(* A fenced replica may still fetch: only commits carry the generation. *)
ConsumeClaim(c) ==
    /\ adapter[c].session = "live"
    /\ adapter[c].pos < logEnd
    /\ Len(adapter[c].messages) < ChannelCap
    /\ adapter' = [adapter EXCEPT ![c].messages = Append(@, adapter[c].pos),
                                  ![c].pos = @ + 1]
    /\ UNCHANGED <<logEnd, committed, owner, up, worker, gcs, uploaded>>

-----------------------------------------------------------------------------
(* The worker: loopMain, the OnSuccess callback and GCS.OnMessage. *)

(* Mutant of Receive: the message is marked before the callback has it. *)
ReceiveMarksFirst(c) ==
    /\ worker[c].pc = "select"
    /\ adapter[c].messages # <<>>
    /\ LET m == Head(adapter[c].messages) IN
          /\ adapter' = [adapter EXCEPT ![c].messages = Tail(@),
                                        ![c].marked = IF m >= @ THEN m + 1 ELSE @]
          /\ worker' = [worker EXCEPT ![c] = [pc |-> "onMessage", msg |-> m]]
    /\ UNCHANGED <<logEnd, committed, owner, up, gcs, uploaded>>

(* Receive a message and convert it.  The callback logs a message it       *)
(* cannot convert and returns, so loopMain goes on to mark it.             *)
Receive(c) ==
    /\ worker[c].pc = "select"
    /\ adapter[c].messages # <<>>
    /\ adapter' = [adapter EXCEPT ![c].messages = Tail(@)]
    /\ worker' = [worker EXCEPT ![c] =
                    [pc  |-> IF Head(adapter[c].messages) \in Bad
                             THEN "mark" ELSE "onMessage",
                     msg |-> Head(adapter[c].messages)]]
    /\ UNCHANGED <<logEnd, committed, owner, up, gcs, uploaded>>

(* Mutant of OnMessageCheck: isStop is not tested. *)
OnMessageCheckIgnoresStop(c) ==
    /\ worker[c].pc = "onMessage"
    /\ worker' = [worker EXCEPT ![c].pc = "lock"]
    /\ UNCHANGED <<logEnd, committed, owner, up, adapter, gcs, uploaded>>

(* OnMessage reads isStop before it takes the lock; while it is set, the   *)
(* callback sleeps and tries again.                                        *)
OnMessageCheck(c) ==
    /\ worker[c].pc = "onMessage"
    /\ ~gcs[c].isStop
    /\ worker' = [worker EXCEPT ![c].pc = "lock"]
    /\ UNCHANGED <<logEnd, committed, owner, up, adapter, gcs, uploaded>>

(* Mutant of OnMessageFull: the callback does not retry a refused message. *)
OnMessageFullGivesUp(c) ==
    /\ worker[c].pc = "lock"
    /\ gcs[c].mu = "free"
    /\ gcs[c].bytesCounter >= FlushMaxBytes
    /\ worker' = [worker EXCEPT ![c].pc = "mark"]
    /\ UNCHANGED <<logEnd, committed, owner, up, adapter, gcs, uploaded>>

(* The buffer is full: OnMessage refuses, the callback will try again. *)
OnMessageFull(c) ==
    /\ worker[c].pc = "lock"
    /\ gcs[c].mu = "free"
    /\ gcs[c].bytesCounter >= FlushMaxBytes
    /\ worker' = [worker EXCEPT ![c].pc = "onMessage"]
    /\ UNCHANGED <<logEnd, committed, owner, up, adapter, gcs, uploaded>>

OnMessageWrite(c) ==
    /\ worker[c].pc = "lock"
    /\ gcs[c].mu = "free"
    /\ gcs[c].bytesCounter < FlushMaxBytes
    /\ gcs' = [gcs EXCEPT ![c].buffer = Append(@, worker[c].msg),
                          ![c].bytesCounter = @ + 1]
    /\ worker' = [worker EXCEPT ![c].pc = "mark"]
    /\ UNCHANGED <<logEnd, committed, owner, up, adapter, uploaded>>

(* The file refuses the line, or takes a part of it: the part is counted,  *)
(* and the callback tries again with the whole line.                       *)
OnMessageWriteFails(c) ==
    /\ worker[c].pc = "lock"
    /\ gcs[c].mu = "free"
    /\ gcs[c].bytesCounter < FlushMaxBytes
    /\ \E n \in {0, 1} : gcs' = [gcs EXCEPT ![c].bytesCounter = @ + n]
    /\ worker' = [worker EXCEPT ![c].pc = "onMessage"]
    /\ UNCHANGED <<logEnd, committed, owner, up, adapter, uploaded>>

(* Mutant of MarkOffset: ResetOffset, which also moves a mark back. *)
MarkOffsetResets(c) ==
    /\ worker[c].pc = "mark"
    /\ adapter' = IF adapter[c].session = "live"
                  THEN [adapter EXCEPT ![c].marked = worker[c].msg + 1]
                  ELSE adapter
    /\ worker' = [worker EXCEPT ![c] = NewConsumerWorker]
    /\ UNCHANGED <<logEnd, committed, owner, up, gcs, uploaded>>

(* loopMain marks the message in whatever session is current by now.  A    *)
(* session keeps the largest mark; a released one ignores it.              *)
MarkOffset(c) ==
    /\ worker[c].pc = "mark"
    /\ adapter' =
         IF adapter[c].session = "live" /\ worker[c].msg + 1 > adapter[c].marked
         THEN [adapter EXCEPT ![c].marked = worker[c].msg + 1]
         ELSE adapter
    /\ worker' = [worker EXCEPT ![c] = NewConsumerWorker]
    /\ UNCHANGED <<logEnd, committed, owner, up, gcs, uploaded>>

-----------------------------------------------------------------------------
(* The flush loop: GCS.Start.  One round tests isStop, reads bytesCounter  *)
(* under the lock and decides; what another thread does between the test,  *)
(* the read and the decision it can as well do after the decision, before  *)
(* Flush takes the lock.  A round that only sleeps is a stuttering step.   *)

StartReturn(c) ==
    /\ gcs[c].pc["loop"] = "check"
    /\ gcs[c].isStop
    /\ gcs' = [gcs EXCEPT ![c].pc["loop"] = "returned"]
    /\ UNCHANGED <<logEnd, committed, owner, up, adapter, worker, uploaded>>

StartFull(c) ==
    /\ c \in up
    /\ gcs[c].pc["loop"] = "check"
    /\ ~gcs[c].isStop
    /\ gcs[c].mu = "free"
    /\ FlushMaxBytes > 0
    /\ gcs[c].bytesCounter >= FlushMaxBytes
    /\ gcs' = [gcs EXCEPT ![c].pc["loop"] = "lock"]
    /\ UNCHANGED <<logEnd, committed, owner, up, adapter, worker, uploaded>>

(* The ticker, which may fire at any time, has fired. *)
StartTick(c) ==
    /\ c \in up
    /\ gcs[c].pc["loop"] = "check"
    /\ ~gcs[c].isStop
    /\ gcs[c].mu = "free"
    /\ ~(FlushMaxBytes > 0 /\ gcs[c].bytesCounter >= FlushMaxBytes)
    /\ gcs' = [gcs EXCEPT ![c].pc["loop"] = "lock"]
    /\ UNCHANGED <<logEnd, committed, owner, up, adapter, worker, uploaded>>

-----------------------------------------------------------------------------
(* Flush, called by the loop and by Stop.  It holds GCS.mu from before the *)
(* upload until the new buffer is there, in two steps: up to the upload,   *)
(* and from the commit on.  What others can do while it waits for the      *)
(* storage they can also do before it takes the lock, and the buffer it    *)
(* replaces after the commit is not visible to them without the lock.      *)

(* Flush returns nothing: the loop goes round and Stop is over, either at  *)
(* the end of Flush ("returned") or where the upload failed ("failed").    *)
Returned(t) == IF t = "loop" THEN "check" ELSE "returned"
Failed(t) == IF t = "loop" THEN "check" ELSE "failed"

FlushEmpty(c, t) ==
    /\ gcs[c].pc[t] = "lock"
    /\ gcs[c].mu = "free"
    /\ gcs[c].bytesCounter = 0
    /\ gcs' = [gcs EXCEPT ![c].pc[t] = Returned(t)]
    /\ UNCHANGED <<logEnd, committed, owner, up, adapter, worker, uploaded>>

(* What a reader gets back from the object.  Without a compressor the data *)
(* still goes through a gzip writer, but it is not closed: its last block  *)
(* never reaches the object.                                               *)
ClosesCompressor == Compressor # ""

Contents(c) ==
    LET buffer == gcs[c].buffer IN
    IF ClosesCompressor
    THEN {Range(buffer)}
    ELSE {Range(SubSeq(buffer, 1, k)) : k \in {0} \cup 0 .. Len(buffer) - 1}

FlushUpload(c, t) ==
    /\ gcs[c].pc[t] = "lock"
    /\ gcs[c].mu = "free"
    /\ gcs[c].bytesCounter # 0
    /\ \E S \in Contents(c) : uploaded' = uploaded \cup S
    /\ gcs' = [gcs EXCEPT ![c].pc[t] = "onFlush", ![c].mu = t]
    /\ UNCHANGED <<logEnd, committed, owner, up, adapter, worker>>

(* Mutant of FlushUploadFails: the error is logged and Flush goes on. *)
FlushUploadFailsGoesOn(c, t) ==
    /\ gcs[c].pc[t] = "lock"
    /\ gcs[c].mu = "free"
    /\ gcs[c].bytesCounter # 0
    /\ \E S \in Contents(c) \cup {{}} : uploaded' = uploaded \cup S
    /\ gcs' = [gcs EXCEPT ![c].pc[t] = "onFlush", ![c].mu = t]
    /\ UNCHANGED <<logEnd, committed, owner, up, adapter, worker>>

(* The upload reports an error, possibly after the object was stored: the  *)
(* buffer is kept for a later flush.                                       *)
FlushUploadFails(c, t) ==
    /\ gcs[c].pc[t] = "lock"
    /\ gcs[c].mu = "free"
    /\ gcs[c].bytesCounter # 0
    /\ \E S \in Contents(c) \cup {{}} : uploaded' = uploaded \cup S
    /\ gcs' = [gcs EXCEPT ![c].pc[t] = Failed(t)]
    /\ UNCHANGED <<logEnd, committed, owner, up, adapter, worker>>

(* The onFlushFunc: OnConsumerFlush commits what the session has marked.   *)
(* A released session commits nothing, the broker refuses a session of an  *)
(* older generation, and a commit may fail: none of this is reported to    *)
(* Flush, which goes on to replace the buffer.                             *)
CommitOffsets(c) ==
    \/ /\ adapter[c].session = "live"
       /\ owner = c
       /\ committed' = adapter[c].marked
    \/ UNCHANGED committed

(* Mutants of FlushCommit: the counter is reduced by what a full buffer    *)
(* holds, or not reset at all.                                             *)
FlushCommitSubtracts(c, t) ==
    /\ gcs[c].pc[t] = "onFlush"
    /\ CommitOffsets(c)
    /\ gcs' = [gcs EXCEPT ![c].buffer = <<>>,
                          ![c].bytesCounter = @ - FlushMaxBytes,
                          ![c].mu = "free",
                          ![c].pc[t] = Returned(t)]
    /\ UNCHANGED <<logEnd, owner, up, adapter, worker, uploaded>>

FlushCommitKeepsCounter(c, t) ==
    /\ gcs[c].pc[t] = "onFlush"
    /\ CommitOffsets(c)
    /\ gcs' = [gcs EXCEPT ![c].buffer = <<>>,
                          ![c].mu = "free",
                          ![c].pc[t] = Returned(t)]
    /\ UNCHANGED <<logEnd, owner, up, adapter, worker, uploaded>>

(* The upload is done: commit, replace the buffer, release the lock. *)
FlushCommit(c, t) ==
    /\ gcs[c].pc[t] = "onFlush"
    /\ CommitOffsets(c)
    /\ gcs' = [gcs EXCEPT ![c].buffer = <<>>,
                          ![c].bytesCounter = 0,
                          ![c].mu = "free",
                          ![c].pc[t] = Returned(t)]
    /\ UNCHANGED <<logEnd, owner, up, adapter, worker, uploaded>>

-----------------------------------------------------------------------------

Flush(c, t) ==
    \/ FlushEmpty(c, t)
    \/ FlushUpload(c, t)
    \/ FlushUploadFails(c, t)
    \/ FlushCommit(c, t)

loopMain(c) ==
    \/ Receive(c)
    \/ OnMessageCheck(c)
    \/ OnMessageFull(c)
    \/ OnMessageWrite(c)
    \/ OnMessageWriteFails(c)
    \/ MarkOffset(c)

Start(c) ==
    \/ StartReturn(c)
    \/ StartFull(c)
    \/ StartTick(c)

Process(c) ==
    \/ spawnLogsWorker(c)
    \/ Crash(c)
    \/ Stop(c)
    \/ Exit(c)

Session(c) ==
    \/ Setup(c)
    \/ Cleanup(c)
    \/ ConsumeClaim(c)

Next ==
    \/ Produce
    \/ Rebalance
    \/ \E c \in Consumer :
          \/ Process(c)
          \/ Session(c)
          \/ loopMain(c)
          \/ Start(c)
          \/ \E t \in Thread : Flush(c, t)

Spec == Init /\ [][Next]_vars

-----------------------------------------------------------------------------
(* Fairness.  Every goroutine of a running process is scheduled, a replica *)
(* that can join does, and a coordinator drops a member whose session is   *)
(* gone.  Go's mutex does not starve a waiter, the file and the storage    *)
(* do not refuse for ever what is retried for ever: strong fairness.       *)
(* Crashes, stops and rebalances are not fair, and from some point on they *)
(* no longer happen.                                                       *)

DropDeadMember ==
    /\ \A c \in Consumer : owner = c => adapter[c].session = "none"
    /\ Rebalance

Disruption ==
    \/ Rebalance /\ ~DropDeadMember
    \/ \E c \in Consumer : Crash(c) \/ Stop(c)

Fairness ==
    /\ WF_vars(DropDeadMember)
    /\ \A c \in Consumer :
          /\ WF_vars(spawnLogsWorker(c))
          /\ WF_vars(Exit(c))
          /\ SF_vars(Setup(c))
          /\ WF_vars(Cleanup(c))
          /\ WF_vars(ConsumeClaim(c))
          /\ WF_vars(Receive(c))
          /\ WF_vars(OnMessageCheck(c))
          /\ WF_vars(OnMessageFull(c))
          /\ SF_vars(OnMessageWrite(c))
          /\ WF_vars(MarkOffset(c))
          /\ WF_vars(Start(c))
          /\ \A t \in Thread :
                /\ WF_vars(FlushEmpty(c, t))
                /\ SF_vars(FlushUpload(c, t))
                /\ WF_vars(FlushCommit(c, t))

FairSpec == Spec /\ Fairness /\ <>[][~Disruption]_vars

-----------------------------------------------------------------------------
(* Properties. *)

(* The type of the state: in particular bytesCounter, which OnMessage adds *)
(* to and Flush resets, never becomes negative.                            *)
TypeOK ==
    /\ logEnd \in 0 .. MaxLog
    /\ committed \in 0 .. MaxLog
    /\ owner \in Consumer \cup {NoConsumer}
    /\ up \subseteq Consumer
    /\ adapter \in [Consumer -> AdapterState]
    /\ worker \in [Consumer -> WorkerState]
    /\ gcs \in [Consumer -> GCSState]
    /\ uploaded \subseteq Offset

(* At-least-once delivery: whatever interleaving of worker, flush loop and *)
(* Stop, whatever crash, failed upload, lost commit or rebalance, an       *)
(* offset that the group has committed (and that no replica will ever read *)
(* again) belongs to a message that was stored in an object, or to one the *)
(* callback could not convert.                                             *)
CommittedUploaded ==
    \A i \in 0 .. committed - 1 : i \in uploaded \cup Bad

(* The committed offset never moves back: a replica that was fenced, or    *)
(* that works through what an older session left in its channel, never     *)
(* undoes the commit of the replica that took over.                        *)
CommitsNeverRegress == [][committed' >= committed]_committed

(* A Stop whose flush went through leaves at most one message behind in    *)
(* the buffer: the one whose OnMessage had passed the unlocked test of     *)
(* isStop when Stop raised it.                                             *)
StopLeavesAtMostOne ==
    \A c \in Consumer :
        gcs[c].pc["stop"] = "returned" => Len(gcs[c].buffer) <= 1

(* Why CommittedUploaded holds.  Every message below the place where a     *)
(* session started is uploaded or unconvertible.  From there on a replica  *)
(* handles every message in order, so all that is below a message it       *)
(* handles, has in its channel or will fetch is settled, or on its way     *)
(* through this replica.  A marked message has left the worker for the     *)
(* buffer, and what leaves the buffer is uploaded.  At the commit, Flush   *)
(* has held the lock since the upload: whatever was marked meanwhile was   *)
(* in the buffer it uploaded.                                              *)
Kept(c) == uploaded \cup Bad \cup Range(gcs[c].buffer)

InHand(c) ==
    IF worker[c].pc \in {"onMessage", "lock"} THEN {worker[c].msg} ELSE {}

MutexInv(c) == \A t \in Thread : gcs[c].pc[t] = "onFlush" <=> gcs[c].mu = t

FlushInv(c) == gcs[c].mu # "free" => Range(gcs[c].buffer) \subseteq uploaded

WorkerInv(c) ==
    /\ worker[c].pc # "select" => worker[c].msg < logEnd
    /\ worker[c].pc \in {"onMessage", "lock", "mark"} =>
          \A i \in 0 .. worker[c].msg - 1 : i \in Kept(c)
    /\ worker[c].pc = "mark" => worker[c].msg \in Kept(c)

ChannelInv(c) ==
    \A j \in 1 .. Len(adapter[c].messages) :
        /\ adapter[c].messages[j] < logEnd
        /\ \A i \in 0 .. adapter[c].messages[j] - 1 :
              \/ i \in Kept(c) \cup InHand(c)
              \/ \E k \in 1 .. j - 1 : adapter[c].messages[k] = i

SessionInv(c) ==
    adapter[c].session = "live" =>
        /\ adapter[c].pos <= logEnd
        /\ \A i \in 0 .. adapter[c].pos - 1 :
              \/ i \in Kept(c) \cup InHand(c)
              \/ \E k \in 1 .. Len(adapter[c].messages) :
                    adapter[c].messages[k] = i
        /\ adapter[c].marked <= logEnd
        /\ \A i \in 0 .. adapter[c].marked - 1 : i \in Kept(c)
        /\ owner = c => committed <= adapter[c].marked

BufferInv(c) == \A i \in Range(gcs[c].buffer) : i < logEnd

ReplicaInv(c) ==
    /\ MutexInv(c)
    /\ FlushInv(c)
    /\ WorkerInv(c)
    /\ ChannelInv(c)
    /\ SessionInv(c)
    /\ BufferInv(c)

DeliveryInv ==
    /\ committed <= logEnd
    /\ \A i \in uploaded : i < logEnd
    /\ CommittedUploaded
    /\ \A c \in Consumer : ReplicaInv(c)

(* The group of replicas implements an at-least-once sink. *)
Sink == INSTANCE LogSink WITH durable <- uploaded, acked <- committed
ImplementsSink == Sink!Spec

(* Once replicas stop crashing and the group settles, every message that   *)
(* was produced is stored, also one that arrives while the buffer is full, *)
(* sits in the buffer of a replica that dies, or was fetched by a replica  *)
(* that lost the partition.                                                *)
EveryMessageUploaded ==
    \A i \in Offset : i < logEnd ~> i \in uploaded \cup Bad
=============================================================================
