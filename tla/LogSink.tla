------------------------------ MODULE LogSink ------------------------------
(***************************************************************************)
(* What a consumer of one topic partition promises, seen from outside: the *)
(* producers append messages to a log, the sink makes messages durable in  *)
(* any order and any number of times, and acknowledges a prefix of the log *)
(* (the committed offset of the consumer group).  A message leaves Kafka's *)
(* responsibility when it is acknowledged, so an acknowledged message must *)
(* be durable, unless it is one the sink is entitled to drop because it    *)
(* cannot be decoded.  This is at-least-once delivery.                     *)
(***************************************************************************)
EXTENDS Naturals

CONSTANT Bad            \* offsets whose message cannot be converted

VARIABLES
    logEnd,             \* offset of the next message to be produced
    durable,            \* offsets whose message reached the storage
    acked               \* offsets below this one are acknowledged

sinkVars == <<logEnd, durable, acked>>

Init ==
    /\ logEnd = 0
    /\ durable = {}
    /\ acked = 0

Produce ==
    /\ logEnd' = logEnd + 1
    /\ UNCHANGED <<durable, acked>>

Deliver ==
    /\ \E S \in SUBSET (0 .. logEnd - 1) : durable' = durable \cup S
    /\ UNCHANGED <<logEnd, acked>>

Acknowledge ==
    /\ \E n \in acked .. logEnd :
          /\ \A i \in 0 .. n - 1 : i \in durable \cup Bad
          /\ acked' = n
    /\ UNCHANGED <<logEnd, durable>>

Next == Produce \/ Deliver \/ Acknowledge

Spec == Init /\ [][Next]_sinkVars
=============================================================================
