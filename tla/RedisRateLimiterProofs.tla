----------------------- MODULE RedisRateLimiterProofs -----------------------
(***************************************************************************)
(* Proofs about RedisRateLimiter, for any number of processes, any request *)
(* sizes and limits, and any number of faults.                             *)
(***************************************************************************)
EXTENDS RedisRateLimiter, TLAPS

-----------------------------------------------------------------------------

(* A number that is less than the divisor is its own remainder. *)
LEMMA SmallRemainder ==
    ASSUME NEW a \in Nat, NEW d \in Nat, a < d
    PROVE  a % d = a
OBVIOUS

(* A number that fits into an int32 is not changed by the conversion. *)
LEMMA Int32Fits ==
    ASSUME NEW n \in Nat, n <= MaxInt
    PROVE  Int32(n) = n
<1> DEFINE a == n + MaxInt + 1
           d == 2 * (MaxInt + 1)
<1>1. a \in Nat /\ d \in Nat /\ a < d /\ a - (MaxInt + 1) = n
  BY LimitAssumption
<1>2. a % d = a
  BY <1>1, SmallRemainder
<1> QED
  BY <1>1, <1>2 DEF Int32

(* A limit is a number of messages that fits into an int32. *)
LEMMA LimitsFit ==
    /\ Limits \subseteq Nat
    /\ Limits # {}
    /\ \A max \in Limits : max <= MaxInt
<1>1. \A m \in MaxTokens : m * Duration \in Nat /\ m * Duration <= MaxInt
  BY LimitAssumption
<1>2. \A m \in MaxTokens : Int32(m * Duration) = m * Duration
  BY <1>1, Int32Fits
<1>3. PICK m : m \in MaxTokens
  BY LimitAssumption
<1>4. Int32(m * Duration) \in Limits
  BY <1>3 DEF Limits
<1> QED
  BY <1>1, <1>2, <1>4 DEF Limits

(* An increment keeps the shape of the key and never lowers the counter. *)
LEMMA IncrementedKey ==
    ASSUME key \in KeyState, NEW n \in Nat
    PROVE  /\ Incremented(n) \in KeyState
           /\ Incremented(n).token = key.token + n
<1>1. key.token \in Nat /\ key.token + n \in Nat
  BY DEF KeyState
<1>2. Incremented(n).token = key.token + n
  BY DEF KeyState, Incremented
<1>3. Incremented(n) \in KeyState
  BY <1>1 DEF KeyState, Incremented
<1> QED
  BY <1>2, <1>3

(* A fresh Redis and fresh processes satisfy the invariant. *)
LEMMA CounterInit == Init => TypeOK /\ CounterInv
<1> SUFFICES ASSUME Init PROVE TypeOK /\ CounterInv
  OBVIOUS
<1>1. TypeOK
  BY DEF Init, TypeOK, KeyState, CallState, NoKey, Idle
<1>2. CounterInv
  <2>1. PICK max \in Limits : 0 <= max
    <3>1. PICK max : max \in Limits
      BY LimitsFit
    <3>2. max \in Nat
      BY <3>1, LimitsFit
    <3> QED
      BY <3>1, <3>2
  <2>2. granted = 0 /\ fallback = 0 /\ key.token = 0
    BY DEF Init, NoKey
  <2>3. \A p \in Process : call[p].pc = "idle"
    BY DEF Init, Idle
  <2> QED
    BY <2>1, <2>2, <2>3, LimitsFit DEF CounterInv, GrantedWithinLimit
<1> QED
  BY <1>1, <1>2

(* What a process makes of a counter that grew by at least its count. *)
LEMMA AnswerStep ==
    ASSUME TypeOK, CounterInv, NEW p \in Process, call[p].pc = "incrBy",
           NEW k \in Nat, k >= call[p].count,
           key' = Incremented(k), Answer(p, Int32(key'.token)),
           isUsingLocal' = isUsingLocal, fallback' = fallback, faults' \in Nat
    PROVE  TypeOK' /\ CounterInv'
<1>1. /\ key \in KeyState /\ key.token \in Nat
      /\ granted \in Nat /\ fallback \in Nat
      /\ call \in [Process -> CallState]
      /\ call[p] \in CallState /\ call[p].count \in Nat /\ call[p].max \in Nat
  BY DEF TypeOK, KeyState, CallState
<1>2. key' \in KeyState /\ key'.token = key.token + k
  BY <1>1, IncrementedKey
<1>3. granted' = granted \/ granted' = granted + call[p].count
  BY DEF Answer
<1>4. granted' \in Nat /\ granted' <= key'.token + fallback'
  BY <1>1, <1>2, <1>3 DEF CounterInv
<1>5. GrantedWithinLimit'
  <2> SUFFICES ASSUME key'.token <= MaxInt
               PROVE  \E max \in Limits : granted' <= max + fallback'
    BY DEF GrantedWithinLimit, Limits
  <2>0. Int32(key'.token) = key'.token
    BY <1>1, <1>2, Int32Fits
  <2>1. CASE key'.token > call[p].max
    <3>1. granted' = granted /\ fallback' = fallback
      BY <2>0, <2>1 DEF Answer
    <3>2. key.token <= MaxInt
      BY <1>1, <1>2, LimitAssumption
    <3> QED
      BY <3>1, <3>2 DEF CounterInv, GrantedWithinLimit
  <2>2. CASE ~(key'.token > call[p].max)
    <3>1. granted' <= call[p].max + fallback'
      BY <1>1, <1>2, <1>4, <2>2
    <3>2. call[p].max \in Limits
      BY DEF CounterInv
    <3> QED
      BY <3>1, <3>2
  <2> QED
    BY <2>1, <2>2
<1>6. PICK r : /\ call' = [call EXCEPT ![p] = r]
               /\ r \in CallState
               /\ r = Idle \/ r.max = call[p].max
  <2>1. CASE call' = [call EXCEPT ![p].pc = "expireNx"]
    <3> DEFINE r == [call[p] EXCEPT !.pc = "expireNx"]
    <3>1. call' = [call EXCEPT ![p] = r] /\ r \in CallState /\ r.max = call[p].max
      BY <1>1, <2>1 DEF CallState
    <3> QED
      BY <3>1
  <2>2. CASE Return(p)
    BY <2>2 DEF Return, Idle, CallState
  <2> QED
    BY <2>1, <2>2 DEF Answer
<1>7. call' \in [Process -> CallState]
  BY <1>1, <1>6
<1>8. \A q \in Process : call'[q].pc # "idle" => call'[q].max \in Limits
  <2> SUFFICES ASSUME NEW q \in Process, call'[q].pc # "idle"
               PROVE  call'[q].max \in Limits
    OBVIOUS
  <2>1. CASE q = p
    BY <1>1, <1>6, <2>1 DEF CounterInv, Idle
  <2>2. CASE q # p
    BY <1>1, <1>6, <2>2 DEF CounterInv
  <2> QED
    BY <2>1, <2>2
<1> QED
  BY <1>2, <1>4, <1>5, <1>7, <1>8 DEF TypeOK, CounterInv, Limits

(* A step that grants nothing and at most ends the call of a process. *)
LEMMA QuietStep ==
    ASSUME TypeOK, CounterInv, NEW p \in Process,
           key' \in KeyState, key'.token >= key.token,
           granted' = granted, fallback' = fallback,
           isUsingLocal' \in [Process -> BOOLEAN], faults' \in Nat,
           Return(p) \/ UNCHANGED call
    PROVE  TypeOK' /\ CounterInv'
<1>1. /\ key.token \in Nat /\ key'.token \in Nat
      /\ granted \in Nat /\ fallback \in Nat
  BY DEF TypeOK, KeyState
<1>2. granted' <= key'.token + fallback'
  BY <1>1 DEF CounterInv
<1>3. call' \in [Process -> CallState]
  BY DEF Return, Idle, TypeOK, CallState
<1>4. \A q \in Process : call'[q].pc # "idle" => call'[q].max \in Limits
  BY DEF Return, Idle, TypeOK, CounterInv
<1>5. GrantedWithinLimit'
  BY <1>1, LimitAssumption DEF CounterInv, GrantedWithinLimit, Limits, Int32
<1> QED
  BY <1>1, <1>2, <1>3, <1>4, <1>5 DEF TypeOK, CounterInv, Limits

(* Every step of a process or of Redis keeps the invariant. *)
LEMMA CounterStep ==
    TypeOK /\ CounterInv /\ [Next]_vars => TypeOK' /\ CounterInv'
<1> SUFFICES ASSUME TypeOK, CounterInv, [Next]_vars
             PROVE  TypeOK' /\ CounterInv'
  OBVIOUS
<1>0. /\ key \in KeyState /\ key.token \in Nat /\ faults \in Nat
      /\ isUsingLocal \in [Process -> BOOLEAN]
      /\ \A p \in Process : call[p].count \in Nat
  BY DEF TypeOK, KeyState, CallState
<1>1. ASSUME NEW p \in Process, IsHitLimit(p)
      PROVE  TypeOK' /\ CounterInv'
  <2>1. PICK n \in Counts, max \in Limits :
          call' = [call EXCEPT ![p] =
                     [pc |-> "incrBy", count |-> n, max |-> max]]
    BY <1>1 DEF IsHitLimit
  <2>2. n \in Nat /\ max \in Nat
    BY LimitAssumption, LimitsFit
  <2>3. TypeOK'
    BY <1>1, <2>1, <2>2 DEF IsHitLimit, TypeOK, CallState
  <2>4. \A q \in Process : call'[q].pc # "idle" => call'[q].max \in Limits
    BY <2>1 DEF TypeOK, CounterInv
  <2> QED
    BY <1>1, <2>3, <2>4
       DEF IsHitLimit, CounterInv, GrantedWithinLimit, Limits
<1>2. ASSUME NEW p \in Process, incrBy(p)
      PROVE  TypeOK' /\ CounterInv'
  BY <1>0, <1>2, AnswerStep DEF incrBy
<1>3. ASSUME NEW p \in Process, incrByRepeated(p)
      PROVE  TypeOK' /\ CounterInv'
  <2>1. /\ 2 * call[p].count \in Nat
        /\ 2 * call[p].count >= call[p].count
        /\ faults' \in Nat
    BY <1>0, <1>3 DEF incrByRepeated, Fault
  <2> QED
    BY <1>3, <2>1, AnswerStep DEF incrByRepeated
<1>4. ASSUME NEW p \in Process, incrByFails(p)
      PROVE  TypeOK' /\ CounterInv'
  <2>1. key' \in KeyState /\ key'.token >= key.token
    BY <1>0, <1>4, IncrementedKey DEF incrByFails
  <2>2. isUsingLocal' \in [Process -> BOOLEAN]
    BY <1>0, <1>4 DEF incrByFails
  <2>3. /\ faults' \in Nat /\ Return(p)
        /\ granted' = granted /\ fallback' = fallback
    BY <1>0, <1>4 DEF incrByFails, Fault
  <2> QED
    BY <2>1, <2>2, <2>3, QuietStep
<1>5. ASSUME NEW p \in Process, expireNx(p)
      PROVE  TypeOK' /\ CounterInv'
  <2>1. key' \in KeyState /\ key'.token >= key.token
    BY <1>0, <1>5 DEF expireNx, KeyState
  <2> QED
    BY <1>0, <1>5, <2>1, QuietStep DEF expireNx
<1>6. ASSUME NEW p \in Process, expireNxFails(p)
      PROVE  TypeOK' /\ CounterInv'
  <2>1. key' \in KeyState /\ key'.token >= key.token
    BY <1>0, <1>6 DEF expireNxFails, KeyState
  <2>2. isUsingLocal' \in [Process -> BOOLEAN]
    BY <1>0, <1>6 DEF expireNxFails
  <2>3. /\ faults' \in Nat /\ Return(p)
        /\ granted' = granted /\ fallback' = fallback
    BY <1>0, <1>6 DEF expireNxFails, Fault
  <2> QED
    BY <2>1, <2>2, <2>3, QuietStep
<1>7. ASSUME NEW p \in Process, onConnect(p)
      PROVE  TypeOK' /\ CounterInv'
  <2>1. isUsingLocal' \in [Process -> BOOLEAN]
    BY <1>0, <1>7 DEF onConnect
  <2> QED
    BY <1>0, <1>7, <2>1, QuietStep DEF onConnect
<1>8. ASSUME NEW p \in Process, Crash(p)
      PROVE  TypeOK' /\ CounterInv'
  <2>1. isUsingLocal' \in [Process -> BOOLEAN]
    BY <1>0, <1>8 DEF Crash
  <2> QED
    BY <1>0, <1>8, <2>1, QuietStep DEF Crash, Fault
<1>9. ASSUME NEW p \in Process, IsHitLimitLocal(p)
      PROVE  TypeOK' /\ CounterInv'
  <2>1. PICK n \in Counts : granted' = granted + n /\ fallback' = fallback + n
    BY <1>9 DEF IsHitLimitLocal
  <2>2. n \in Nat /\ granted \in Nat /\ fallback \in Nat
    BY LimitAssumption DEF TypeOK
  <2>3. TypeOK'
    BY <1>9, <2>1, <2>2 DEF IsHitLimitLocal, TypeOK
  <2>4. granted' <= key'.token + fallback'
    BY <1>0, <1>9, <2>1, <2>2 DEF IsHitLimitLocal, CounterInv
  <2>5. GrantedWithinLimit'
    <3> SUFFICES ASSUME key'.token <= MaxInt
                 PROVE  \E max \in Limits : granted' <= max + fallback'
      BY DEF GrantedWithinLimit, Limits
    <3>1. PICK max \in Limits : granted <= max + fallback
      BY <1>9 DEF IsHitLimitLocal, CounterInv, GrantedWithinLimit
    <3>2. granted' <= max + fallback'
      BY <2>1, <2>2, <3>1, LimitsFit
    <3> QED
      BY <3>2
  <2> QED
    BY <1>9, <2>3, <2>4, <2>5 DEF IsHitLimitLocal, CounterInv, Limits
<1>10. CASE Expire
  <2>1. TypeOK'
    BY <1>10 DEF Expire, TypeOK, NoKey, KeyState
  <2> QED
    <3>1. key'.token = 0 /\ granted' = 0 /\ fallback' = 0 /\ call' = call
      BY <1>10 DEF Expire, NoKey
    <3>2. PICK max : max \in Limits
      BY LimitsFit
    <3>3. max \in Nat
      BY <3>2, LimitsFit
    <3>4. granted' <= max + fallback'
      BY <3>1, <3>3
    <3> QED
      BY <2>1, <3>1, <3>2, <3>4 DEF CounterInv, GrantedWithinLimit, Limits
<1>11. CASE UNCHANGED vars
  BY <1>11 DEF vars, TypeOK, CounterInv, GrantedWithinLimit, Limits
<1> QED
  BY <1>1, <1>2, <1>3, <1>4, <1>5, <1>6, <1>7, <1>8, <1>9, <1>10, <1>11
     DEF Next, Command

(* From one expiry to the next, the processes that share a counter in      *)
(* Redis let through no more than some request's limit, beside what the    *)
(* local limiters let through, as long as the counter fits into an int32:  *)
(* INCRBY is atomic, and whatever Redis let through was counted before.    *)
THEOREM SharedLimit == Spec => []GrantedWithinLimit
<1>1. CounterInv => GrantedWithinLimit
  BY DEF CounterInv
<1> QED
  BY CounterInit, CounterStep, <1>1, PTL DEF Spec

-----------------------------------------------------------------------------
(* Which call sets the expiry. *)

(* No request alone exceeds its limit. *)
RequestsFit == \A n \in Counts, max \in Limits : n <= max

(* A key that does not exist counts nothing, so the call that creates it   *)
(* finds its own count; and a call that is under way fits its limit, so it *)
(* is not refused before it sets the expiry.                               *)
ExpiryInv ==
    /\ ~key.exists => key.token = 0
    /\ \A p \in Process : call[p].pc = "incrBy" => call[p].count <= call[p].max
    /\ ExpiryInHand

(* A call that increments the counter creates the key, or leaves it to the *)
(* calls that were there; a faulty one promises nothing.                   *)
LEMMA ExpiryIncrement ==
    ASSUME TypeOK, CounterInv, ExpiryInv, NEW p \in Process, incrBy(p)
    PROVE  ExpiryInv'
<1>1. /\ key \in KeyState /\ key.token \in Nat
      /\ call \in [Process -> CallState] /\ call[p] \in CallState
      /\ call[p].count \in Nat /\ call[p].max \in Nat
  BY DEF TypeOK, KeyState, CallState
<1>2. /\ key'.exists /\ key'.token = key.token + call[p].count
      /\ key'.ttl = key.ttl
  BY <1>1 DEF incrBy, Incremented, KeyState
<1>3. \A q \in Process \ {p} : call'[q] = call[q]
  BY <1>1 DEF incrBy, Answer, Return
<1>4. call'[p].pc # "incrBy"
  BY <1>1 DEF incrBy, Answer, Return, Idle, CallState
<1>5. ExpiryInHand'
  <2> SUFFICES ASSUME faults' = 0, ~key'.ttl
               PROVE  \E q \in Process : call'[q].pc = "expireNx"
    BY DEF ExpiryInHand
  <2>1. faults = 0 /\ ~key.ttl
    BY <1>2 DEF incrBy
  <2>2. CASE key.exists
    <3>1. PICK q \in Process : call[q].pc = "expireNx"
      BY <2>1, <2>2 DEF ExpiryInv, ExpiryInHand
    <3>2. q # p
      BY <3>1 DEF incrBy
    <3> QED
      BY <1>3, <3>1, <3>2
  <2>3. CASE ~key.exists
    <3>1. key'.token = call[p].count /\ call[p].count <= call[p].max
      BY <1>1, <1>2, <2>3 DEF ExpiryInv, incrBy
    <3>2. Int32(key'.token) = key'.token
      BY <1>1, <3>1, Int32Fits, LimitsFit, LimitAssumption DEF CounterInv, incrBy
    <3>3. call' = [call EXCEPT ![p].pc = "expireNx"]
      BY <3>1, <3>2 DEF incrBy, Answer
    <3> QED
      BY <1>1, <3>3 DEF CallState
  <2> QED
    BY <2>2, <2>3
<1> QED
  BY <1>2, <1>3, <1>4, <1>5 DEF ExpiryInv

(* After a fault nothing is promised of the expiry. *)
LEMMA ExpiryFault ==
    ASSUME TypeOK, ExpiryInv, Fault,
           ~key'.exists => key'.token = 0,
           \A p \in Process : call'[p].pc = "incrBy" => call'[p] = call[p]
    PROVE  ExpiryInv'
<1>1. faults' # 0
  BY DEF Fault, TypeOK
<1> QED
  BY <1>1 DEF ExpiryInv, ExpiryInHand

(* Every step keeps the invariant when requests fit their limits. *)
LEMMA ExpiryStep ==
    ASSUME RequestsFit, TypeOK, CounterInv, ExpiryInv, [Next]_vars
    PROVE  ExpiryInv'
<1>0. key \in KeyState /\ call \in [Process -> CallState]
  BY DEF TypeOK
<1>1. ASSUME NEW p \in Process, IsHitLimit(p) PROVE ExpiryInv'
  <2>1. PICK n \in Counts, max \in Limits :
          call' = [call EXCEPT ![p] =
                     [pc |-> "incrBy", count |-> n, max |-> max]]
    BY <1>1 DEF IsHitLimit
  <2>2. n <= max
    BY DEF RequestsFit
  <2>3. \A q \in Process :
          call'[q].pc = "incrBy" => call'[q].count <= call'[q].max
    BY <1>0, <2>1, <2>2 DEF ExpiryInv
  <2>4. \A q \in Process :
          call[q].pc = "expireNx" => call'[q].pc = "expireNx"
    BY <1>0, <1>1, <2>1 DEF IsHitLimit
  <2>5. key' = key /\ faults' = faults
    BY <1>1 DEF IsHitLimit
  <2> QED
    BY <2>3, <2>4, <2>5 DEF ExpiryInv, ExpiryInHand
<1>2. ASSUME NEW p \in Process, incrBy(p) PROVE ExpiryInv'
  BY <1>2, ExpiryIncrement
<1>3. ASSUME NEW p \in Process,
             incrByRepeated(p) \/ incrByFails(p) \/ expireNxFails(p) \/ Crash(p)
      PROVE  ExpiryInv'
  <2>1. Fault
    BY <1>3 DEF incrByRepeated, incrByFails, expireNxFails, Crash
  <2>2. ~key'.exists => key'.token = 0
    <3>1. \A k : Incremented(k).exists
      BY <1>0 DEF Incremented, KeyState
    <3>2. [key EXCEPT !.ttl = key.exists].exists = key.exists
      BY <1>0 DEF KeyState
    <3>3. [key EXCEPT !.ttl = key.exists].token = key.token
      BY <1>0 DEF KeyState
    <3> QED
      BY <1>3, <3>1, <3>2, <3>3
         DEF incrByRepeated, incrByFails, expireNxFails, Crash, ExpiryInv
  <2>3. \A q \in Process : call'[q].pc = "incrBy" => call'[q] = call[q]
    BY <1>0, <1>3 DEF incrByRepeated, incrByFails, expireNxFails, Crash,
       Answer, Return, Idle, CallState
  <2> QED
    BY <2>1, <2>2, <2>3, ExpiryFault
<1>4. ASSUME NEW p \in Process, expireNx(p) PROVE ExpiryInv'
  <2>1. /\ key'.exists = key.exists
        /\ key'.token = key.token
        /\ key'.ttl = key.exists
    BY <1>0, <1>4 DEF expireNx, KeyState
  <2>2. \A q \in Process : call'[q].pc = "incrBy" => call'[q] = call[q]
    BY <1>0, <1>4 DEF expireNx, Return, Idle, CallState
  <2> QED
    BY <2>1, <2>2 DEF ExpiryInv, ExpiryInHand
<1>5. ASSUME NEW p \in Process, onConnect(p) \/ IsHitLimitLocal(p)
      PROVE  ExpiryInv'
  BY <1>5 DEF onConnect, IsHitLimitLocal, ExpiryInv, ExpiryInHand
<1>6. CASE Expire
  BY <1>6 DEF Expire, NoKey, ExpiryInv, ExpiryInHand
<1>7. CASE UNCHANGED vars
  BY <1>7 DEF vars, ExpiryInv, ExpiryInHand
<1> QED
  BY <1>1, <1>2, <1>3, <1>4, <1>5, <1>6, <1>7 DEF Next, Command

(* When no request alone exceeds its limit and no fault occurs, a counter  *)
(* without an expiry has a call that is about to set it, for any number of *)
(* processes.  RequestsFit is what redis_no_expiry shows to be needed.     *)
THEOREM SomeCallSetsExpiry == RequestsFit => (Spec => []ExpiryInHand)
<1> SUFFICES ASSUME RequestsFit PROVE Spec => []ExpiryInHand
  OBVIOUS
<1>1. Init => ExpiryInv
  BY DEF Init, NoKey, Idle, ExpiryInv, ExpiryInHand
<1>2. TypeOK /\ CounterInv /\ ExpiryInv /\ [Next]_vars => ExpiryInv'
  BY ExpiryStep
<1>3. ExpiryInv => ExpiryInHand
  BY DEF ExpiryInv
<1> QED
  BY <1>1, <1>2, <1>3, CounterInit, CounterStep, PTL DEF Spec
=============================================================================
