-------------------------- MODULE RedisRateLimiter --------------------------
(***************************************************************************)
(* The rate limiter that producer processes share through Redis            *)
(* (flow/redis_rate_limiter.go), for the requests of one topic: a counter  *)
(* that the first request of an interval creates and gives an expiry, in   *)
(* two commands that may each fail, be repeated or be cut off by a crash.  *)
(*                                                                         *)
(* setupRedisRateLimiter sets a mutex, so a process has one call at a time *)
(* (several processes run concurrently).  A process that was refused a     *)
(* connection asks its local limiter; what that one decides is the matter  *)
(* of module RateLimiter, and here it may let any request through.         *)
(***************************************************************************)
EXTENDS Integers

CONSTANTS
    Process,            \* the producer processes
    Counts,             \* sizes of the requests, in messages
    MaxTokens,          \* values of maxTokenIfNotExist in the requests
    Duration,           \* RedisRateLimiter.duration, in seconds
    MaxInt,             \* the largest int32: 2^31 - 1 in the code
    MaxCounter,         \* bound: no request begins at a counter beyond this
    MaxFaults           \* bound: commands that fail or repeat, and crashes

ASSUME LimitAssumption ==
    /\ Counts \subseteq Nat
    /\ MaxTokens \subseteq Nat
    /\ MaxTokens # {}
    /\ Duration \in Nat \ {0}
    /\ MaxInt \in Nat
    /\ \A m \in MaxTokens : m * Duration <= MaxInt
    /\ MaxCounter \in Nat
    /\ MaxFaults \in Nat

VARIABLES
    key,                \* Redis: the counter of the topic and its expiry
    isUsingLocal,       \* RedisRateLimiter.isUsingLocal of each process
    call,               \* the call that holds the mutex of each process
    granted,            \* history: messages let through in this window,
    fallback,           \*   and those of them that a local limiter let through
    faults              \* number of faults so far, for the bound

vars == <<key, isUsingLocal, call, granted, fallback, faults>>

-----------------------------------------------------------------------------

(* The conversion of an integer to int32: what does not fit wraps around. *)
Int32(n) == ((n + MaxInt + 1) % (2 * (MaxInt + 1))) - (MaxInt + 1)

Limits == {Int32(m * Duration) : m \in MaxTokens}

KeyState == [exists : BOOLEAN, token : Nat, ttl : BOOLEAN]

CallState == [pc : {"idle", "incrBy", "expireNx"}, count : Nat, max : Nat]

NoKey == [exists |-> FALSE, token |-> 0, ttl |-> FALSE]

Idle == [pc |-> "idle", count |-> 0, max |-> 0]

Init ==
    /\ key = NoKey
    /\ isUsingLocal = [p \in Process |-> FALSE]
    /\ call = [p \in Process |-> Idle]
    /\ granted = 0
    /\ fallback = 0
    /\ faults = 0

Return(p) == call' = [call EXCEPT ![p] = Idle]

Fault ==
    /\ faults < MaxFaults
    /\ faults' = faults + 1

-----------------------------------------------------------------------------
(* IsHitLimit *)

(* The call has the mutex and finds that the process uses Redis. *)
IsHitLimit(p) ==
    /\ call[p].pc = "idle"
    /\ ~isUsingLocal[p]
    /\ key.token <= MaxCounter
    /\ \E n \in Counts, max \in Limits :
          call' = [call EXCEPT ![p] =
                     [pc |-> "incrBy", count |-> n, max |-> max]]
    /\ UNCHANGED <<key, isUsingLocal, granted, fallback, faults>>

(* The process uses its local limiter, which lets the request through.  A  *)
(* request that the local limiter refuses changes nothing here.            *)
IsHitLimitLocal(p) ==
    /\ call[p].pc = "idle"
    /\ isUsingLocal[p]
    /\ fallback <= MaxCounter
    /\ \E n \in Counts :
          /\ granted' = granted + n
          /\ fallback' = fallback + n
    /\ UNCHANGED <<key, isUsingLocal, call, faults>>

(* INCRBY creates a key that does not exist, without expiry. *)
Incremented(n) ==
    [key EXCEPT !.exists = TRUE, !.token = @ + n]

(* Mutants of Answer: the limit is compared with the count of the request, *)
(* not with the counter; the expiry is left to a later request; a counter  *)
(* of one, not of the request's count, is taken for a new key.             *)
AnswerByCount(p, token) ==
    /\ granted' = IF call[p].count > call[p].max
                  THEN granted ELSE granted + call[p].count
    /\ IF call[p].count <= call[p].max /\ token = call[p].count
       THEN call' = [call EXCEPT ![p].pc = "expireNx"]
       ELSE Return(p)

AnswerNoExpiry(p, token) ==
    /\ granted' = IF token > call[p].max
                  THEN granted ELSE granted + call[p].count
    /\ Return(p)

AnswerFirstIsOne(p, token) ==
    /\ granted' = IF token > call[p].max
                  THEN granted ELSE granted + call[p].count
    /\ IF token <= call[p].max /\ token = 1
       THEN call' = [call EXCEPT ![p].pc = "expireNx"]
       ELSE Return(p)

(* What the call makes of the counter: it is refused beyond the limit, and *)
(* otherwise let through, at once unless the counter equals its count      *)
(* ("means the key is newly created").                                     *)
Answer(p, token) ==
    /\ granted' = IF token > call[p].max
                  THEN granted ELSE granted + call[p].count
    /\ IF token <= call[p].max /\ token = call[p].count
       THEN call' = [call EXCEPT ![p].pc = "expireNx"]
       ELSE Return(p)

(* The counter comes back as an int64 and is cut to an int32. *)
incrBy(p) ==
    /\ call[p].pc = "incrBy"
    /\ key' = Incremented(call[p].count)
    /\ Answer(p, Int32(key'.token))
    /\ UNCHANGED <<isUsingLocal, fallback, faults>>

(* The client repeats a command whose answer it did not get. *)
incrByRepeated(p) ==
    /\ call[p].pc = "incrBy"
    /\ Fault
    /\ key' = Incremented(2 * call[p].count)
    /\ Answer(p, Int32(key'.token))
    /\ UNCHANGED <<isUsingLocal, fallback>>

(* An error, possibly after Redis performed the command: the request is    *)
(* refused.  When the connection was refused the process turns to its      *)
(* local limiter.                                                          *)
incrByFails(p) ==
    /\ call[p].pc = "incrBy"
    /\ Fault
    /\ key' \in {key, Incremented(call[p].count)}
    /\ \E refused \in BOOLEAN :
          isUsingLocal' = [isUsingLocal EXCEPT ![p] = @ \/ refused]
    /\ Return(p)
    /\ UNCHANGED <<granted, fallback>>

(* EXPIRE NX does nothing to a key that has an expiry, or does not exist. *)
expireNx(p) ==
    /\ call[p].pc = "expireNx"
    /\ key' = [key EXCEPT !.ttl = key.exists]
    /\ Return(p)
    /\ UNCHANGED <<isUsingLocal, granted, fallback, faults>>

(* The request is refused although its messages were counted as granted. *)
expireNxFails(p) ==
    /\ call[p].pc = "expireNx"
    /\ Fault
    /\ key' \in {key, [key EXCEPT !.ttl = key.exists]}
    /\ \E refused \in BOOLEAN :
          isUsingLocal' = [isUsingLocal EXCEPT ![p] = @ \/ refused]
    /\ Return(p)
    /\ UNCHANGED <<granted, fallback>>

-----------------------------------------------------------------------------

(* The hook of the client, which takes no lock.  When the client opens     *)
(* connections is its own affair: the model lets it happen at any time,    *)
(* and relies on it for nothing.                                           *)
onConnect(p) ==
    /\ isUsingLocal[p]
    /\ isUsingLocal' = [isUsingLocal EXCEPT ![p] = FALSE]
    /\ UNCHANGED <<key, call, granted, fallback, faults>>

(* Redis removes a key whose time is over; the next window begins. *)
Expire ==
    /\ key.exists
    /\ key.ttl
    /\ key' = NoKey
    /\ granted' = 0
    /\ fallback' = 0
    /\ UNCHANGED <<isUsingLocal, call, faults>>

(* The process ends in the middle of a call, and starts afresh. *)
Crash(p) ==
    /\ call[p].pc # "idle"
    /\ Fault
    /\ Return(p)
    /\ isUsingLocal' = [isUsingLocal EXCEPT ![p] = FALSE]
    /\ UNCHANGED <<key, granted, fallback>>

-----------------------------------------------------------------------------

Command(p) ==
    \/ incrBy(p)
    \/ incrByRepeated(p)
    \/ incrByFails(p)
    \/ expireNx(p)
    \/ expireNxFails(p)

Next ==
    \/ \E p \in Process :
          \/ IsHitLimit(p)
          \/ IsHitLimitLocal(p)
          \/ Command(p)
          \/ onConnect(p)
          \/ Crash(p)
    \/ Expire

Spec == Init /\ [][Next]_vars

(* A command that was sent is answered, or runs into its timeout; Redis    *)
(* removes expired keys.  No request ever has to come.                     *)
Fairness ==
    /\ \A p \in Process : WF_vars(Command(p))
    /\ WF_vars(Expire)

FairSpec == Spec /\ Fairness

-----------------------------------------------------------------------------
(* Properties. *)

(* The type of the state. *)
TypeOK ==
    /\ key \in KeyState
    /\ isUsingLocal \in [Process -> BOOLEAN]
    /\ call \in [Process -> CallState]
    /\ granted \in Nat
    /\ fallback \in Nat
    /\ faults \in Nat

(* From one expiry of the key to the next, all processes together let      *)
(* through no more than the largest limit that a request carried and what  *)
(* their local limiters let through while Redis refused the connection,    *)
(* although each compares the counter with its own limit, commands are     *)
(* lost or repeated, and the key may expire between the two commands of a  *)
(* call.  The claim ends where the counter leaves int32: the code then     *)
(* reads a negative number and lets every request through.                 *)
GrantedWithinLimit ==
    key.token <= MaxInt => \E max \in Limits : granted <= max + fallback

(* Why it holds: the counter counts at least what Redis let through.       *)
CounterInv ==
    /\ granted <= key.token + fallback
    /\ \A p \in Process : call[p].pc # "idle" => call[p].max \in Limits
    /\ GrantedWithinLimit

(* A counter without an expiry has a call that is about to set it, as long *)
(* as no command failed and no process ended in a call: of the processes   *)
(* that increment a new key at the same time, one recognises it as new,    *)
(* also when the key expired and came back between its two commands.       *)
ExpiryInHand ==
    faults = 0 /\ key.exists /\ ~key.ttl =>
        \E p \in Process : call[p].pc = "expireNx"

(* "WithDuration sets topic expiration": when no command fails and no      *)
(* process ends in a call, a counter always goes away again, so that a     *)
(* topic at its limit is not refused for ever.                             *)
KeyExpires == [](faults = 0) => (key.exists ~> ~key.exists)
=============================================================================
