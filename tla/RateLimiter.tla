---------------------------- MODULE RateLimiter ----------------------------
(***************************************************************************)
(* The local rate limiter of the producer (flow/rate_limiter.go) with its  *)
(* buckets (flow/leaky_bucket.go), for the requests of one topic.  gRPC    *)
(* handlers call IsHitLimit concurrently while loopRefillBuckets refills.  *)
(*                                                                         *)
(* The map of buckets has no lock.  A bucket has one, but Take tests the   *)
(* token before it takes the lock, and Refill never takes it.  A step is   *)
(* one access to the map, or one read or write of a bucket's fields.       *)
(***************************************************************************)
EXTENDS Integers, FiniteSets

CONSTANTS
    Handler,            \* concurrent requests of the topic
    None,               \* no bucket, no lock holder
    Counts,             \* sizes of the requests, in messages
    MaxTokens,          \* values of maxTokenIfNotExist in the requests
    Duration,           \* rateLimiter.duration
    MaxRequests,        \* bound: requests that begin between two refills
    MaxRefills          \* bound: refills of a process

ASSUME HandlerAssumption == None \notin Handler

ASSUME LimitAssumption ==
    /\ Counts \subseteq Nat
    /\ MaxTokens \subseteq Nat
    /\ MaxTokens # {}
    /\ Duration \in Nat \ {0}
    /\ MaxRequests \in Nat
    /\ MaxRefills \in Nat

(* Finitely many requests are under way, and one of them is the largest. *)
ASSUME LoadAssumption ==
    /\ IsFiniteSet(Handler)
    /\ \E m \in Counts : \A n \in Counts : n <= m

VARIABLES
    bucketMap,          \* the topic's entry: who created the bucket, or None
    bucket,             \* the bucket each handler created, if it did
    handler,            \* the handlers: program counter, arguments, locals
    refill,             \* loopRefillBuckets: program counter and locals
    admitted,           \* history: messages a bucket let through, and by
    lowered,            \* how much its maximum was lowered, since a refill
    requests,           \* requests begun since a refill, for the bound
    refills             \* number of refills, for the bound

vars == <<bucketMap, bucket, handler, refill, admitted, lowered,
          requests, refills>>

-----------------------------------------------------------------------------

NewLeakyBucket(max) == [max |-> max, token |-> max, lock |-> None]

Idle == [pc |-> "idle", count |-> 0, max |-> 0, b |-> None, seen |-> 0]

(* A process that has not yet called limiter.Start. *)
Init ==
    /\ bucketMap = None
    /\ bucket = [h \in Handler |-> NewLeakyBucket(0)]
    /\ handler = [h \in Handler |-> Idle]
    /\ refill = [pc |-> "new", b |-> None, max |-> 0]
    /\ admitted = [h \in Handler |-> 0]
    /\ lowered = [h \in Handler |-> 0]
    /\ requests = 0
    /\ refills = 0

-----------------------------------------------------------------------------
(* IsHitLimit *)

Goto(h, pc) == handler' = [handler EXCEPT ![h].pc = pc]

(* The request looks its bucket up. *)
IsHitLimit(h) ==
    /\ refill.pc \notin {"new", "returned"}
    /\ handler[h].pc = "idle"
    /\ requests < MaxRequests
    /\ requests' = requests + 1
    /\ \E n \in Counts, m \in MaxTokens :
          handler' = [handler EXCEPT ![h] =
                        [pc    |-> IF bucketMap = None THEN "put" ELSE "compare",
                         count |-> n,
                         max   |-> m * Duration,
                         b     |-> bucketMap,
                         seen  |-> 0]]
    /\ UNCHANGED <<bucketMap, bucket, refill, admitted, lowered, refills>>

(* There was none: it puts a new one, over one that another handler may    *)
(* have put meanwhile, and goes on with its own.                           *)
PutNewBucket(h) ==
    /\ handler[h].pc = "put"
    /\ bucket' = [bucket EXCEPT ![h] = NewLeakyBucket(handler[h].max)]
    /\ bucketMap' = h
    /\ handler' = [handler EXCEPT ![h].pc = "compare", ![h].b = h]
    /\ UNCHANGED <<refill, admitted, lowered, requests, refills>>

(* The Go runtime may notice that another goroutine, a request or the      *)
(* refill loop, is at the map while one writes: the process ends and       *)
(* starts afresh.                                                          *)
ConcurrentMapWrite ==
    /\ \E h \in Handler : handler[h].pc = "put"
    /\ bucketMap' = None
    /\ bucket' = [h \in Handler |-> NewLeakyBucket(0)]
    /\ handler' = [h \in Handler |-> Idle]
    /\ refill' = [pc |-> "new", b |-> None, max |-> 0]
    /\ admitted' = [h \in Handler |-> 0]
    /\ lowered' = [h \in Handler |-> 0]
    /\ requests' = 0
    /\ refills' = 0

CompareMax(h) ==
    /\ handler[h].pc = "compare"
    /\ Goto(h, IF bucket[handler[h].b].max # handler[h].max
               THEN "updateMax" ELSE "check")
    /\ UNCHANGED <<bucketMap, bucket, refill, admitted, lowered, requests, refills>>

(* By how much m exceeds n. *)
Excess(m, n) == IF m > n THEN m - n ELSE 0

(* UpdateMax computes the token under the lock ... *)
UpdateMaxRead(h) ==
    LET b == handler[h].b
        new == handler[h].max IN
    /\ handler[h].pc = "updateMax"
    /\ bucket[b].lock = None
    /\ bucket' = [bucket EXCEPT ![b].lock = h]
    /\ handler' =
         [handler EXCEPT
            ![h].pc = IF new > bucket[b].max THEN "raise" ELSE "lower",
            ![h].seen = bucket[b].token + Excess(new, bucket[b].max)]
    /\ UNCHANGED <<bucketMap, refill, admitted, lowered, requests, refills>>

(* ... and stores it only when the maximum grows. *)
UpdateMaxWrite(h) ==
    LET b == handler[h].b IN
    /\ handler[h].pc \in {"raise", "lower"}
    /\ bucket' = [bucket EXCEPT
                    ![b].token = IF handler[h].pc = "raise"
                                 THEN handler[h].seen ELSE @,
                    ![b].max = handler[h].max,
                    ![b].lock = None]
    /\ lowered' = [lowered EXCEPT ![b] =
                     @ + Excess(bucket[b].max, handler[h].max)]
    /\ Goto(h, "check")
    /\ UNCHANGED <<bucketMap, refill, admitted, requests, refills>>

(* Take: the test, without the lock.  A refused request hits the limit. *)
TakeRefuse(h) ==
    /\ handler[h].pc = "check"
    /\ bucket[handler[h].b].token - handler[h].count < 0
    /\ handler' = [handler EXCEPT ![h] = Idle]
    /\ UNCHANGED <<bucketMap, bucket, refill, admitted, lowered, requests, refills>>

(* Mutant of TakeCheck: the token is not compared with the count. *)
TakeCheckUntested(h) ==
    /\ handler[h].pc = "check"
    /\ Goto(h, "take")
    /\ UNCHANGED <<bucketMap, bucket, refill, admitted, lowered, requests, refills>>

TakeCheck(h) ==
    /\ handler[h].pc = "check"
    /\ bucket[handler[h].b].token - handler[h].count >= 0
    /\ Goto(h, "take")
    /\ UNCHANGED <<bucketMap, bucket, refill, admitted, lowered, requests, refills>>

(* Mutant of TakeRead: the subtraction is not under the lock either. *)
TakeReadUnlocked(h) ==
    /\ handler[h].pc = "take"
    /\ handler' = [handler EXCEPT ![h].pc = "write",
                                  ![h].seen = bucket[handler[h].b].token]
    /\ UNCHANGED <<bucketMap, bucket, refill, admitted, lowered, requests, refills>>

(* Take: the subtraction, a read and a write under the lock. *)
TakeRead(h) ==
    LET b == handler[h].b IN
    /\ handler[h].pc = "take"
    /\ bucket[b].lock = None
    /\ bucket' = [bucket EXCEPT ![b].lock = h]
    /\ handler' = [handler EXCEPT ![h].pc = "write",
                                  ![h].seen = bucket[b].token]
    /\ UNCHANGED <<bucketMap, refill, admitted, lowered, requests, refills>>

TakeWrite(h) ==
    LET b == handler[h].b IN
    /\ handler[h].pc = "write"
    /\ bucket' = [bucket EXCEPT ![b].token = handler[h].seen - handler[h].count,
                                ![b].lock = None]
    /\ admitted' = [admitted EXCEPT ![b] = @ + handler[h].count]
    /\ handler' = [handler EXCEPT ![h] = Idle]
    /\ UNCHANGED <<bucketMap, refill, lowered, requests, refills>>

-----------------------------------------------------------------------------
(* loopRefillBuckets *)

Start ==
    /\ refill.pc = "new"
    /\ refill' = [refill EXCEPT !.pc = "select"]
    /\ UNCHANGED <<bucketMap, bucket, handler, admitted, lowered, requests, refills>>

(* The tick: refillBuckets reads the maximum of the bucket in the map. *)
RefillRead ==
    /\ refill.pc = "select"
    /\ bucketMap # None
    /\ refills < MaxRefills
    /\ refill' = [pc |-> "write", b |-> bucketMap, max |-> bucket[bucketMap].max]
    /\ UNCHANGED <<bucketMap, bucket, handler, admitted, lowered, requests, refills>>

Lost(b) ==
    \E h \in Handler : handler[h].b = b /\ handler[h].pc \in {"raise", "write"}

(* Refill stores it as the token, whatever a lock holder is doing: one     *)
(* that has read the token will overwrite it, and the refill is lost.  The *)
(* maximum may have been lowered since it was read.                        *)
RefillWrite ==
    LET b == refill.b IN
    /\ refill.pc = "write"
    /\ bucket' = [bucket EXCEPT ![b].token = refill.max]
    /\ refill' = [refill EXCEPT !.pc = "select"]
    /\ admitted' = [admitted EXCEPT ![b] = 0]
    /\ lowered' = [lowered EXCEPT ![b] =
                     IF Lost(b) THEN @ + Excess(refill.max, bucket[b].max)
                                ELSE Excess(refill.max, bucket[b].max)]
    /\ requests' = 0
    /\ refills' = refills + 1
    /\ UNCHANGED <<bucketMap, handler>>

(* producerService.Close waits for the handlers before it calls Stop. *)
Stop ==
    /\ refill.pc = "select"
    /\ \A h \in Handler : handler[h].pc = "idle"
    /\ refill' = [refill EXCEPT !.pc = "returned"]
    /\ UNCHANGED <<bucketMap, bucket, handler, admitted, lowered, requests, refills>>

-----------------------------------------------------------------------------

Take(h) ==
    \/ TakeRefuse(h)
    \/ TakeCheck(h)
    \/ TakeRead(h)
    \/ TakeWrite(h)

Request(h) ==
    \/ IsHitLimit(h)
    \/ PutNewBucket(h)
    \/ CompareMax(h)
    \/ UpdateMaxRead(h)
    \/ UpdateMaxWrite(h)
    \/ Take(h)

Refill ==
    \/ Start
    \/ RefillRead
    \/ RefillWrite
    \/ Stop

Next ==
    \/ \E h \in Handler : Request(h)
    \/ ConcurrentMapWrite
    \/ Refill

Spec == Init /\ [][Next]_vars

-----------------------------------------------------------------------------
(* Properties. *)

Largest(S) == CHOOSE m \in S : \A n \in S : n <= m

(* No token is spent twice: what a bucket let through since its last       *)
(* refill and what it has left never add up to more than its maximum, plus *)
(* what was taken from the maximum since then (UpdateMax leaves the tokens *)
(* of the old maximum in the bucket).  A refill that falls between the     *)
(* read and the write of a Take is lost, not doubled.                      *)
NoTokenSpentTwice ==
    \A h \in Handler :
        bucket[h].token + admitted[h] <= bucket[h].max + lowered[h]

BucketState == [max : Nat, token : Int, lock : Handler \cup {None}]

HandlerState ==
    [pc    : {"idle", "put", "compare", "updateMax", "raise", "lower",
              "check", "take", "write"},
     count : Nat,
     max   : Nat,
     b     : Handler \cup {None},
     seen  : Int]

(* The type of the state. *)
TypeOK ==
    /\ bucketMap \in Handler \cup {None}
    /\ bucket \in [Handler -> BucketState]
    /\ handler \in [Handler -> HandlerState]
    /\ refill \in [pc : {"new", "select", "write", "returned"},
                   b : Handler \cup {None}, max : Nat]
    /\ admitted \in [Handler -> Nat]
    /\ lowered \in [Handler -> Nat]
    /\ requests \in Nat
    /\ refills \in Nat

(* Why no token is spent twice.  A handler past its lookup has a bucket,   *)
(* and one in a critical section holds that bucket's lock; what it has     *)
(* read still adds up when it is written, although a refill may have come  *)
(* between.  A bucket about to be put is not in use.                       *)
Fresh(h) ==
    /\ bucketMap # h
    /\ refill.b # h
    /\ admitted[h] = 0
    /\ \A g \in Handler : handler[g].b # h

FreshInv ==
    /\ bucketMap = None => \A h \in Handler : Fresh(h)
    /\ \A h \in Handler : handler[h].pc = "put" => Fresh(h)

HasBucket(h) == handler[h].pc \notin {"idle", "put"} => handler[h].b # None

HoldsLock(h) ==
    handler[h].pc \in {"raise", "lower", "write"} =>
        bucket[handler[h].b].lock = h

SeenAddsUp(h) ==
    LET b == handler[h].b IN
    /\ handler[h].pc = "write" =>
          handler[h].seen + admitted[b] <= bucket[b].max + lowered[b]
    /\ handler[h].pc = "raise" =>
          /\ handler[h].max > bucket[b].max
          /\ handler[h].seen + admitted[b] <= handler[h].max + lowered[b]

TokenInv ==
    /\ FreshInv
    /\ refill.pc = "write" => refill.b # None
    /\ \A h \in Handler : HasBucket(h) /\ HoldsLock(h) /\ SeenAddsUp(h)
    /\ NoTokenSpentTwice

(* The price of testing the token outside the lock: between two refills a  *)
(* bucket lets through at most one request per handler more than that,     *)
(* whichever refills and changes of the maximum fall between the steps of  *)
(* a Take.                                                                 *)
OverrunBounded ==
    \A h \in Handler :
        admitted[h] <= bucket[h].max + lowered[h]
                       + Cardinality(Handler) * Largest(Counts)
=============================================================================
