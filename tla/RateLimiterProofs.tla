------------------------ MODULE RateLimiterProofs ------------------------
(***************************************************************************)
(* Proofs about RateLimiter: for any number of handlers, any sizes of the  *)
(* requests and any maxima, no bucket spends a token twice, and none lets  *)
(* through more than one request per handler beyond its maximum.           *)
(***************************************************************************)
EXTENDS RateLimiter, FiniteSetTheorems, TLAPS


(* Excess never is negative, and covers what it is the excess of. *)
LEMMA ExcessCovers ==
    ASSUME NEW m \in Nat, NEW n \in Nat
    PROVE  Excess(m, n) \in Nat /\ m <= n + Excess(m, n)
BY DEF Excess

(* A handler's record keeps its shape in the steps that set two fields. *)
LEMMA HandlerUpdate ==
    ASSUME NEW x \in HandlerState
    PROVE  /\ \A h \in Handler :
                 [x EXCEPT !.pc = "compare", !.b = h] \in HandlerState
           /\ \A n \in Int :
                 /\ [x EXCEPT !.pc = "raise", !.seen = n] \in HandlerState
                 /\ [x EXCEPT !.pc = "lower", !.seen = n] \in HandlerState
                 /\ [x EXCEPT !.pc = "write", !.seen = n] \in HandlerState
BY DEF HandlerState

USE DEF BucketState, HandlerState

(* A process that has not started is well formed and has spent nothing. *)
LEMMA TokenInit == Init => TypeOK /\ TokenInv
BY HandlerAssumption
   DEF Init, TypeOK, TokenInv, FreshInv, Fresh, HasBucket, HoldsLock,
       SeenAddsUp, NoTokenSpentTwice, NewLeakyBucket, Idle

(* Every step of a handler and of the refill loop keeps the types. *)
LEMMA TypeStep == TypeOK /\ TokenInv /\ [Next]_vars => TypeOK'
<1> SUFFICES ASSUME TypeOK, TokenInv, [Next]_vars
             PROVE  TypeOK'
  OBVIOUS
<1> USE HandlerAssumption, LimitAssumption
<1>1. ASSUME NEW h \in Handler, IsHitLimit(h)
      PROVE  TypeOK'
  <2>1. PICK n \in Counts, m \in MaxTokens :
          handler' = [handler EXCEPT ![h] =
                        [pc    |-> IF bucketMap = None THEN "put" ELSE "compare",
                         count |-> n, max |-> m * Duration,
                         b     |-> bucketMap, seen  |-> 0]]
    BY <1>1 DEF IsHitLimit
  <2>2. n \in Nat /\ m * Duration \in Nat
    OBVIOUS
  <2> QED
    BY <1>1, <2>1, <2>2 DEF IsHitLimit, TypeOK
<1>2. ASSUME NEW h \in Handler, PutNewBucket(h)
      PROVE  TypeOK'
  <2>1. NewLeakyBucket(handler[h].max) \in BucketState
    BY DEF TypeOK, NewLeakyBucket
  <2>2. bucket' \in [Handler -> BucketState]
    BY <1>2, <2>1 DEF PutNewBucket, TypeOK
  <2> DEFINE r == [handler[h] EXCEPT !.pc = "compare", !.b = h]
  <2>a. r \in HandlerState
    <3>1. handler[h] \in HandlerState
      BY DEF TypeOK
    <3> HIDE DEF HandlerState
    <3> QED
      BY <3>1, HandlerUpdate
  <2>b. handler' = [handler EXCEPT ![h] = r]
    BY <1>2 DEF PutNewBucket, TypeOK
  <2> HIDE DEF r
  <2>3. handler' \in [Handler -> HandlerState]
    BY <2>a, <2>b DEF TypeOK
  <2> QED
    BY <1>2, <2>2, <2>3 DEF PutNewBucket, TypeOK
<1>3. ASSUME NEW h \in Handler, CompareMax(h)
      PROVE  TypeOK'
  BY <1>3 DEF CompareMax, Goto, TypeOK
<1>4. ASSUME NEW h \in Handler, UpdateMaxRead(h)
      PROVE  TypeOK'
  <2>1. handler[h].b \in Handler
    BY <1>4 DEF UpdateMaxRead, TokenInv, HasBucket, TypeOK
  <2>2. Excess(handler[h].max, bucket[handler[h].b].max) \in Nat
    BY <2>1, ExcessCovers DEF TypeOK
  <2>3. bucket' \in [Handler -> BucketState]
    BY <1>4, <2>1 DEF UpdateMaxRead, TypeOK
  <2>4. bucket[handler[h].b].token \in Int
    BY <2>1 DEF TypeOK
  <2> DEFINE b == handler[h].b
             new == handler[h].max
             r == [handler[h] EXCEPT
                     !.pc = IF new > bucket[b].max THEN "raise" ELSE "lower",
                     !.seen = bucket[b].token + Excess(new, bucket[b].max)]
  <2>a. r \in HandlerState
    <3>1. handler[h] \in HandlerState
      BY DEF TypeOK
    <3>2. bucket[b].token + Excess(new, bucket[b].max) \in Int
      BY <2>2, <2>4
    <3> HIDE DEF HandlerState
    <3>3. CASE new > bucket[b].max
      BY <3>1, <3>2, <3>3, HandlerUpdate
    <3>4. CASE ~(new > bucket[b].max)
      BY <3>1, <3>2, <3>4, HandlerUpdate
    <3> QED
      BY <3>3, <3>4
  <2>b. handler' = [handler EXCEPT ![h] = r]
    BY <1>4 DEF UpdateMaxRead, TypeOK
  <2> HIDE DEF r
  <2>5. handler' \in [Handler -> HandlerState]
    BY <2>a, <2>b DEF TypeOK
  <2> QED
    BY <1>4, <2>3, <2>5 DEF UpdateMaxRead, TypeOK
<1>5. ASSUME NEW h \in Handler, UpdateMaxWrite(h)
      PROVE  TypeOK'
  <2>1. handler[h].b \in Handler
    BY <1>5 DEF UpdateMaxWrite, TokenInv, HasBucket, TypeOK
  <2>2. Excess(bucket[handler[h].b].max, handler[h].max) \in Nat
    BY <2>1, ExcessCovers DEF TypeOK
  <2>3. bucket' \in [Handler -> BucketState]
    BY <1>5, <2>1 DEF UpdateMaxWrite, TypeOK
  <2>4. lowered' \in [Handler -> Nat]
    BY <1>5, <2>1, <2>2 DEF UpdateMaxWrite, TypeOK
  <2>5. handler' \in [Handler -> HandlerState]
    BY <1>5 DEF UpdateMaxWrite, Goto, TypeOK
  <2> QED
    BY <1>5, <2>3, <2>4, <2>5 DEF UpdateMaxWrite, TypeOK
<1>6. ASSUME NEW h \in Handler, Take(h)
      PROVE  TypeOK'
  <2>1. CASE TakeRefuse(h)
    BY <2>1 DEF TakeRefuse, Idle, TypeOK
  <2>2. CASE TakeCheck(h)
    BY <2>2 DEF TakeCheck, Goto, TypeOK
  <2>3. CASE TakeRead(h)
    <3>1. handler[h].b \in Handler
      BY <2>3 DEF TakeRead, TokenInv, HasBucket, TypeOK
    <3>2. bucket' \in [Handler -> BucketState]
      BY <2>3, <3>1 DEF TakeRead, TypeOK
    <3>3. bucket[handler[h].b].token \in Int
      BY <3>1 DEF TypeOK
    <3> DEFINE r == [handler[h] EXCEPT !.pc = "write",
                                       !.seen = bucket[handler[h].b].token]
    <3>a. r \in HandlerState
      <4>1. handler[h] \in HandlerState
        BY DEF TypeOK
      <4> HIDE DEF HandlerState
      <4> QED
        BY <3>3, <4>1, HandlerUpdate
    <3>b. handler' = [handler EXCEPT ![h] = r]
      BY <2>3 DEF TakeRead, TypeOK
    <3> HIDE DEF r
    <3>4. handler' \in [Handler -> HandlerState]
      BY <3>a, <3>b DEF TypeOK
    <3> QED
      BY <2>3, <3>2, <3>4 DEF TakeRead, TypeOK
  <2>4. CASE TakeWrite(h)
    <3>1. handler[h].b \in Handler
      BY <2>4 DEF TakeWrite, TokenInv, HasBucket, TypeOK
    <3> QED
      BY <2>4, <3>1 DEF TakeWrite, Idle, TypeOK
  <2> QED
    BY <1>6, <2>1, <2>2, <2>3, <2>4 DEF Take
<1>7. CASE ConcurrentMapWrite
  BY <1>7 DEF ConcurrentMapWrite, TypeOK, NewLeakyBucket, Idle
<1>8. CASE Refill
  <2>1. CASE RefillRead
    BY <2>1 DEF RefillRead, TypeOK
  <2>2. CASE RefillWrite
    <3>1. refill.b \in Handler
      BY <2>2 DEF RefillWrite, TokenInv, TypeOK
    <3>2. Excess(refill.max, bucket[refill.b].max) \in Nat
      BY <3>1, ExcessCovers DEF TypeOK
    <3> QED
      BY <2>2, <3>1, <3>2 DEF RefillWrite, TypeOK
  <2> QED
    BY <1>8, <2>1, <2>2 DEF Refill, Start, Stop, TypeOK
<1>9. CASE UNCHANGED vars
  BY <1>9 DEF vars, TypeOK
<1> QED
  BY <1>1, <1>2, <1>3, <1>4, <1>5, <1>6, <1>7, <1>8, <1>9 DEF Next, Request

(* A bucket that is about to be put stays out of use. *)
LEMMA FreshStep == TypeOK /\ TokenInv /\ [Next]_vars => FreshInv'
<1> SUFFICES ASSUME TypeOK, TokenInv, [Next]_vars
             PROVE  FreshInv'
  OBVIOUS
<1> USE HandlerAssumption
<1>1. ASSUME NEW h \in Handler, IsHitLimit(h)
      PROVE  FreshInv'
  BY <1>1 DEF IsHitLimit, TypeOK, TokenInv, FreshInv, Fresh
<1>2. ASSUME NEW h \in Handler, PutNewBucket(h)
      PROVE  FreshInv'
  BY <1>2 DEF PutNewBucket, TypeOK, TokenInv, FreshInv, Fresh
<1>3. ASSUME NEW h \in Handler,
             CompareMax(h) \/ UpdateMaxRead(h) \/ UpdateMaxWrite(h)
             \/ TakeCheck(h) \/ TakeRead(h)
      PROVE  FreshInv'
  <2>1. /\ UNCHANGED <<bucketMap, refill, admitted>>
        /\ handler[h].pc # "put"
    BY <1>3 DEF CompareMax, UpdateMaxRead, UpdateMaxWrite, TakeCheck, TakeRead
  <2>2. handler'[h].pc # "put" /\ handler'[h].b = handler[h].b
    BY <1>3 DEF CompareMax, UpdateMaxRead, UpdateMaxWrite, TakeCheck, TakeRead,
                Goto, TypeOK
  <2>3. \A g \in Handler \ {h} : handler'[g] = handler[g]
    BY <1>3 DEF CompareMax, UpdateMaxRead, UpdateMaxWrite, TakeCheck, TakeRead,
                Goto, TypeOK
  <2> QED
    BY <2>1, <2>2, <2>3 DEF TokenInv, FreshInv, Fresh
<1>4. ASSUME NEW h \in Handler, TakeRefuse(h)
      PROVE  FreshInv'
  BY <1>4 DEF TakeRefuse, Idle, TypeOK, TokenInv, FreshInv, Fresh
<1>5. ASSUME NEW h \in Handler, TakeWrite(h)
      PROVE  FreshInv'
  BY <1>5 DEF TakeWrite, Idle, TypeOK, TokenInv, FreshInv, Fresh, HasBucket
<1>6. CASE ConcurrentMapWrite
  BY <1>6 DEF ConcurrentMapWrite, Idle, FreshInv, Fresh
<1>7. CASE Refill
  BY <1>7 DEF Refill, Start, Stop, RefillRead, RefillWrite,
              TypeOK, TokenInv, FreshInv, Fresh
<1>8. CASE UNCHANGED vars
  BY <1>8 DEF vars, TokenInv, FreshInv, Fresh
<1> QED
  BY <1>1, <1>2, <1>3, <1>4, <1>5, <1>6, <1>7, <1>8 DEF Next, Request, Take

(* Every step keeps the locks and the sums in order. *)
LEMMA TokenStep == TypeOK /\ TokenInv /\ [Next]_vars => TokenInv'
<1> SUFFICES ASSUME TypeOK, TokenInv, [Next]_vars
             PROVE  TokenInv'
  OBVIOUS
<1> USE HandlerAssumption
<1> DEFINE Rest == /\ (refill.pc = "write" => refill.b # None)'
                   /\ \A g \in Handler : HasBucket(g)' /\ HoldsLock(g)'
                                         /\ SeenAddsUp(g)'
                   /\ NoTokenSpentTwice'
<1>0. FreshInv' /\ TypeOK'
  BY FreshStep, TypeStep
<1> SUFFICES Rest
  BY <1>0 DEF TokenInv
<1>1. ASSUME NEW h \in Handler, IsHitLimit(h)
      PROVE  Rest
  BY <1>1 DEF IsHitLimit, TypeOK, TokenInv, HasBucket, HoldsLock, SeenAddsUp,
              NoTokenSpentTwice
<1>2. ASSUME NEW h \in Handler, PutNewBucket(h)
      PROVE  Rest
  <2>1. Fresh(h) /\ handler[h].max \in Nat /\ lowered[h] \in Nat
    BY <1>2 DEF PutNewBucket, TokenInv, FreshInv, TypeOK
  <2>2. \A g \in Handler \ {h} : /\ bucket'[g] = bucket[g]
                                 /\ handler'[g] = handler[g]
    BY <1>2 DEF PutNewBucket, TypeOK
  <2>3. /\ bucket'[h] = NewLeakyBucket(handler[h].max)
        /\ handler'[h].pc = "compare"
        /\ handler'[h].b = h
    BY <1>2 DEF PutNewBucket, TypeOK
  <2>4. UNCHANGED <<refill, admitted, lowered>>
    BY <1>2 DEF PutNewBucket
  <2>5. NoTokenSpentTwice'
    BY <2>1, <2>2, <2>3, <2>4
       DEF Fresh, NewLeakyBucket, TokenInv, NoTokenSpentTwice
  <2>6. ASSUME NEW g \in Handler
        PROVE  HasBucket(g)' /\ HoldsLock(g)' /\ SeenAddsUp(g)'
    <3>1. CASE g = h
      BY <2>3, <3>1 DEF HasBucket, HoldsLock, SeenAddsUp
    <3>2. CASE g # h
      <4>1. handler[g].b # h /\ handler[g].b \in Handler \cup {None}
        BY <2>1 DEF Fresh, TypeOK
      <4>2. HasBucket(g) /\ HoldsLock(g) /\ SeenAddsUp(g)
        BY DEF TokenInv
      <4> QED
        BY <2>2, <2>4, <3>2, <4>1, <4>2 DEF HasBucket, HoldsLock, SeenAddsUp
    <3> QED
      BY <3>1, <3>2
  <2> QED
    BY <2>4, <2>5, <2>6 DEF TokenInv
<1>3. ASSUME NEW h \in Handler,
             CompareMax(h) \/ TakeCheck(h) \/ TakeRefuse(h)
      PROVE  Rest
  <2>1. UNCHANGED <<bucket, refill, admitted, lowered>>
    BY <1>3 DEF CompareMax, TakeCheck, TakeRefuse
  <2>2. /\ handler'[h].pc \notin {"raise", "lower", "write"}
        /\ HasBucket(h)'
    BY <1>3 DEF CompareMax, TakeCheck, TakeRefuse, Goto, Idle, TypeOK,
                TokenInv, HasBucket
  <2>3. \A g \in Handler \ {h} : handler'[g] = handler[g]
    BY <1>3 DEF CompareMax, TakeCheck, TakeRefuse, Goto, TypeOK
  <2>4. ASSUME NEW g \in Handler
        PROVE  HasBucket(g)' /\ HoldsLock(g)' /\ SeenAddsUp(g)'
    <3>1. CASE g = h
      BY <2>2, <3>1 DEF HoldsLock, SeenAddsUp
    <3>2. CASE g # h
      BY <2>1, <2>3, <3>2 DEF TokenInv, HasBucket, HoldsLock, SeenAddsUp
    <3> QED
      BY <3>1, <3>2
  <2> QED
    BY <2>1, <2>4 DEF TokenInv, NoTokenSpentTwice
<1>4. ASSUME NEW h \in Handler, UpdateMaxRead(h)
      PROVE  Rest
  <2>1. handler[h].b \in Handler
    BY <1>4 DEF UpdateMaxRead, TokenInv, HasBucket, TypeOK
  <2> DEFINE b == handler[h].b
  <2>2. /\ bucket[b].max \in Nat /\ handler[h].max \in Nat
        /\ bucket[b].token \in Int /\ admitted[b] \in Nat /\ lowered[b] \in Nat
        /\ bucket[b].token + admitted[b] <= bucket[b].max + lowered[b]
    BY <2>1 DEF TypeOK, TokenInv, NoTokenSpentTwice
  <2>3. /\ bucket' = [bucket EXCEPT ![b].lock = h]
        /\ bucket[b].lock = None
        /\ UNCHANGED <<refill, admitted, lowered>>
    BY <1>4 DEF UpdateMaxRead
  <2>4. \A g \in Handler : /\ bucket'[g].max = bucket[g].max
                           /\ bucket'[g].token = bucket[g].token
                           /\ g # b => bucket'[g].lock = bucket[g].lock
    BY <2>1, <2>3 DEF TypeOK
  <2>5. bucket'[b].lock = h
    BY <2>1, <2>3 DEF TypeOK
  <2>6. /\ handler'[h].pc = IF handler[h].max > bucket[b].max
                            THEN "raise" ELSE "lower"
        /\ handler'[h].b = b
        /\ handler'[h].max = handler[h].max
        /\ handler'[h].seen =
             bucket[b].token + Excess(handler[h].max, bucket[b].max)
        /\ \A g \in Handler \ {h} : handler'[g] = handler[g]
    BY <1>4 DEF UpdateMaxRead, TypeOK
  <2>7. ASSUME NEW g \in Handler
        PROVE  HasBucket(g)' /\ HoldsLock(g)' /\ SeenAddsUp(g)'
    <3>1. CASE g = h
      <4>1. HasBucket(h)' /\ HoldsLock(h)'
        BY <2>1, <2>5, <2>6 DEF HasBucket, HoldsLock
      <4>2. SeenAddsUp(h)'
        BY <2>1, <2>2, <2>3, <2>4, <2>6 DEF SeenAddsUp, Excess
      <4> QED
        BY <3>1, <4>1, <4>2
    <3>2. CASE g # h
      <4>1. HasBucket(g) /\ HoldsLock(g) /\ SeenAddsUp(g)
        BY DEF TokenInv
      <4>2. handler'[g] = handler[g] /\ handler[g].b \in Handler \cup {None}
        BY <2>6, <3>2 DEF TypeOK
      <4>3. HasBucket(g)' /\ SeenAddsUp(g)'
        BY <2>3, <2>4, <4>1, <4>2 DEF HasBucket, SeenAddsUp
      <4>4. HoldsLock(g)'
        BY <2>3, <2>4, <4>1, <4>2 DEF HasBucket, HoldsLock
      <4> QED
        BY <4>3, <4>4
    <3> QED
      BY <3>1, <3>2
  <2>8. NoTokenSpentTwice'
    BY <2>3, <2>4 DEF TokenInv, NoTokenSpentTwice
  <2> QED
    BY <2>3, <2>7, <2>8 DEF TokenInv
<1>5. ASSUME NEW h \in Handler, UpdateMaxWrite(h)
      PROVE  Rest
  <2>1. handler[h].b \in Handler
    BY <1>5 DEF UpdateMaxWrite, TokenInv, HasBucket, TypeOK
  <2> DEFINE b == handler[h].b
  <2>2. /\ bucket[b].max \in Nat /\ handler[h].max \in Nat
        /\ handler[h].seen \in Int
        /\ bucket[b].token \in Int /\ admitted[b] \in Nat /\ lowered[b] \in Nat
        /\ bucket[b].token + admitted[b] <= bucket[b].max + lowered[b]
        /\ bucket[b].lock = h
        /\ SeenAddsUp(h)
    BY <1>5, <2>1 DEF UpdateMaxWrite, TypeOK, TokenInv, NoTokenSpentTwice,
                      HoldsLock
  <2>3. /\ \A g \in Handler \ {b} : /\ bucket'[g] = bucket[g]
                                    /\ lowered'[g] = lowered[g]
        /\ bucket'[b].max = handler[h].max
        /\ bucket'[b].token = IF handler[h].pc = "raise"
                              THEN handler[h].seen ELSE bucket[b].token
        /\ lowered'[b] = lowered[b] + Excess(bucket[b].max, handler[h].max)
        /\ UNCHANGED <<refill, admitted>>
    BY <1>5, <2>1 DEF UpdateMaxWrite, TypeOK
  <2>4. /\ handler'[h].pc = "check"
        /\ handler'[h].b = b
        /\ \A g \in Handler \ {h} : handler'[g] = handler[g]
    BY <1>5 DEF UpdateMaxWrite, Goto, TypeOK
  <2>5. bucket'[b].token + admitted'[b] <= bucket'[b].max + lowered'[b]
    BY <2>1, <2>2, <2>3 DEF SeenAddsUp, Excess
  <2>6. NoTokenSpentTwice'
    BY <2>3, <2>5 DEF TokenInv, NoTokenSpentTwice
  <2>7. ASSUME NEW g \in Handler
        PROVE  HasBucket(g)' /\ HoldsLock(g)' /\ SeenAddsUp(g)'
    <3>1. CASE g = h
      BY <2>1, <2>4, <3>1 DEF HasBucket, HoldsLock, SeenAddsUp
    <3>2. CASE g # h
      <4>1. HasBucket(g) /\ HoldsLock(g) /\ SeenAddsUp(g)
        BY DEF TokenInv
      <4>2. handler'[g] = handler[g] /\ handler[g].b \in Handler \cup {None}
        BY <2>4, <3>2 DEF TypeOK
      <4>3. handler[g].pc \in {"raise", "lower", "write"} => handler[g].b # b
        BY <2>2, <3>2, <4>1 DEF HoldsLock
      <4> QED
        BY <2>3, <4>1, <4>2, <4>3 DEF HasBucket, HoldsLock, SeenAddsUp
    <3> QED
      BY <3>1, <3>2
  <2> QED
    BY <2>3, <2>6, <2>7 DEF TokenInv
<1>6. ASSUME NEW h \in Handler, TakeRead(h)
      PROVE  Rest
  <2>1. handler[h].b \in Handler
    BY <1>6 DEF TakeRead, TokenInv, HasBucket, TypeOK
  <2> DEFINE b == handler[h].b
  <2>2. /\ bucket' = [bucket EXCEPT ![b].lock = h]
        /\ bucket[b].lock = None
        /\ UNCHANGED <<refill, admitted, lowered>>
        /\ bucket[b].token + admitted[b] <= bucket[b].max + lowered[b]
    BY <1>6, <2>1 DEF TakeRead, TokenInv, NoTokenSpentTwice
  <2>3. /\ bucket'[b].lock = h
        /\ \A g \in Handler : /\ bucket'[g].max = bucket[g].max
                              /\ bucket'[g].token = bucket[g].token
                              /\ g # b => bucket'[g].lock = bucket[g].lock
    BY <2>1, <2>2 DEF TypeOK
  <2>4. /\ handler'[h].pc = "write"
        /\ handler'[h].b = b
        /\ handler'[h].seen = bucket[b].token
        /\ \A g \in Handler \ {h} : handler'[g] = handler[g]
    BY <1>6 DEF TakeRead, TypeOK
  <2>5. ASSUME NEW g \in Handler
        PROVE  HasBucket(g)' /\ HoldsLock(g)' /\ SeenAddsUp(g)'
    <3>1. CASE g = h
      BY <2>1, <2>2, <2>3, <2>4, <3>1 DEF HasBucket, HoldsLock, SeenAddsUp
    <3>2. CASE g # h
      <4>1. HasBucket(g) /\ HoldsLock(g) /\ SeenAddsUp(g)
        BY DEF TokenInv
      <4>2. handler'[g] = handler[g] /\ handler[g].b \in Handler \cup {None}
        BY <2>4, <3>2 DEF TypeOK
      <4> QED
        BY <2>2, <2>3, <4>1, <4>2 DEF HasBucket, HoldsLock, SeenAddsUp
    <3> QED
      BY <3>1, <3>2
  <2>6. NoTokenSpentTwice'
    BY <2>2, <2>3 DEF TokenInv, NoTokenSpentTwice
  <2> QED
    BY <2>2, <2>5, <2>6 DEF TokenInv
<1>7. ASSUME NEW h \in Handler, TakeWrite(h)
      PROVE  Rest
  <2>1. handler[h].b \in Handler
    BY <1>7 DEF TakeWrite, TokenInv, HasBucket, TypeOK
  <2> DEFINE b == handler[h].b
  <2>2. /\ bucket[b].max \in Nat /\ handler[h].count \in Nat
        /\ handler[h].seen \in Int
        /\ admitted[b] \in Nat /\ lowered[b] \in Nat
        /\ handler[h].seen + admitted[b] <= bucket[b].max + lowered[b]
        /\ bucket[b].lock = h
    BY <1>7, <2>1 DEF TakeWrite, TypeOK, TokenInv, HoldsLock, SeenAddsUp
  <2>3. /\ \A g \in Handler \ {b} : /\ bucket'[g] = bucket[g]
                                    /\ admitted'[g] = admitted[g]
        /\ bucket'[b].max = bucket[b].max
        /\ bucket'[b].token = handler[h].seen - handler[h].count
        /\ admitted'[b] = admitted[b] + handler[h].count
        /\ UNCHANGED <<refill, lowered>>
    BY <1>7, <2>1 DEF TakeWrite, TypeOK
  <2>4. /\ handler'[h] = Idle
        /\ \A g \in Handler \ {h} : handler'[g] = handler[g]
    BY <1>7 DEF TakeWrite, TypeOK
  <2>5. bucket'[b].token + admitted'[b] <= bucket'[b].max + lowered'[b]
    BY <2>2, <2>3
  <2>6. NoTokenSpentTwice'
    BY <2>3, <2>5 DEF TokenInv, NoTokenSpentTwice
  <2>7. ASSUME NEW g \in Handler
        PROVE  HasBucket(g)' /\ HoldsLock(g)' /\ SeenAddsUp(g)'
    <3>1. CASE g = h
      BY <2>4, <3>1 DEF Idle, HasBucket, HoldsLock, SeenAddsUp
    <3>2. CASE g # h
      <4>1. HasBucket(g) /\ HoldsLock(g) /\ SeenAddsUp(g)
        BY DEF TokenInv
      <4>2. handler'[g] = handler[g] /\ handler[g].b \in Handler \cup {None}
        BY <2>4, <3>2 DEF TypeOK
      <4>3. handler[g].pc \in {"raise", "lower", "write"} => handler[g].b # b
        BY <2>2, <3>2, <4>1 DEF HoldsLock
      <4> QED
        BY <2>3, <4>1, <4>2, <4>3 DEF HasBucket, HoldsLock, SeenAddsUp
    <3> QED
      BY <3>1, <3>2
  <2> QED
    BY <2>3, <2>6, <2>7 DEF TokenInv
<1>8. CASE ConcurrentMapWrite
  BY <1>8 DEF ConcurrentMapWrite, Idle, NewLeakyBucket,
              HasBucket, HoldsLock, SeenAddsUp, NoTokenSpentTwice
<1>9. CASE Start \/ Stop \/ RefillRead
  BY <1>9 DEF Start, Stop, RefillRead, TypeOK, TokenInv, HasBucket, HoldsLock,
              SeenAddsUp, NoTokenSpentTwice
<1>10. CASE RefillWrite
  <2>1. refill.b \in Handler
    BY <1>10 DEF RefillWrite, TokenInv, TypeOK
  <2> DEFINE b == refill.b
             e == Excess(refill.max, bucket[b].max)
  <2>2. /\ bucket[b].max \in Nat /\ refill.max \in Nat
        /\ admitted[b] \in Nat /\ lowered[b] \in Nat
    BY <2>1 DEF TypeOK
  <2>3. e \in Nat /\ refill.max <= bucket[b].max + e
    BY <2>2, ExcessCovers
  <2> HIDE DEF e
  <2>4. /\ \A g \in Handler \ {b} : /\ bucket'[g] = bucket[g]
                                    /\ admitted'[g] = admitted[g]
                                    /\ lowered'[g] = lowered[g]
        /\ bucket'[b].max = bucket[b].max
        /\ bucket'[b].token = refill.max
        /\ bucket'[b].lock = bucket[b].lock
        /\ admitted'[b] = 0
        /\ lowered'[b] = IF Lost(b) THEN lowered[b] + e ELSE e
        /\ handler' = handler
        /\ refill'.pc = "select"
    BY <1>10, <2>1 DEF RefillWrite, TypeOK, e
  <2>5. NoTokenSpentTwice'
    BY <2>1, <2>2, <2>3, <2>4 DEF TokenInv, NoTokenSpentTwice
  <2>6. ASSUME NEW g \in Handler
        PROVE  HasBucket(g)' /\ HoldsLock(g)' /\ SeenAddsUp(g)'
    <3>1. /\ HasBucket(g) /\ HoldsLock(g) /\ SeenAddsUp(g)
          /\ handler[g].b \in Handler \cup {None}
          /\ handler[g].seen \in Int /\ handler[g].max \in Nat
      BY DEF TokenInv, TypeOK
    <3>2. HasBucket(g)' /\ HoldsLock(g)'
      BY <2>4, <3>1 DEF HasBucket, HoldsLock
    <3>3. CASE handler[g].b = b /\ handler[g].pc \in {"raise", "write"}
      <4>1. lowered'[b] = lowered[b] + e
        BY <2>4, <3>3 DEF Lost
      <4> QED
        BY <2>1, <2>2, <2>3, <2>4, <3>1, <3>2, <3>3, <4>1 DEF SeenAddsUp
    <3>4. CASE ~(handler[g].b = b /\ handler[g].pc \in {"raise", "write"})
      BY <2>4, <3>1, <3>2, <3>4 DEF HasBucket, SeenAddsUp
    <3> QED
      BY <3>2, <3>3, <3>4
  <2> QED
    BY <2>4, <2>5, <2>6
<1>11. CASE UNCHANGED vars
  BY <1>11 DEF vars, TokenInv, HasBucket, HoldsLock, SeenAddsUp,
               NoTokenSpentTwice
<1> QED
  BY <1>1, <1>2, <1>3, <1>4, <1>5, <1>6, <1>7, <1>8, <1>9, <1>10, <1>11
     DEF Next, Request, Take, Refill

(* The inductive invariant of the limiter holds in every reachable state. *)
THEOREM LimiterInvariant == Spec => [](TypeOK /\ TokenInv)
<1>1. Init => TypeOK /\ TokenInv
  BY TokenInit
<1>2. TypeOK /\ TokenInv /\ [Next]_vars => (TypeOK /\ TokenInv)'
  BY TypeStep, TokenStep
<1> QED
  BY <1>1, <1>2, PTL DEF Spec

(* No bucket spends a token twice, for any number of concurrent handlers   *)
(* and refills: Take's lock is enough for that, although its test and      *)
(* Refill do not take it.                                                  *)
THEOREM TokensSpentOnce == Spec => []NoTokenSpentTwice
<1>1. TokenInv => NoTokenSpentTwice
  BY DEF TokenInv
<1> QED
  BY LimiterInvariant, <1>1, PTL

-----------------------------------------------------------------------------
(* The bound on what a bucket lets through. *)

(* The handlers that passed the test of a bucket and have not taken yet. *)
Takers(b) ==
    {h \in Handler : handler[h].b = b /\ handler[h].pc \in {"take", "write"}}

(* What a bucket may let through beyond its maximum when k handlers are    *)
(* about to take: one request of each of the others.                       *)
Slack(k) == Largest(Counts) * (Cardinality(Handler) - k)

(* A handler that takes went through the test when the bucket held all of  *)
(* the sum, so each one uses up the slack it gave up when it passed.       *)
OverrunInv ==
    /\ \A h \in Handler : handler[h].count <= Largest(Counts)
    /\ \A b \in Handler :
          admitted[b] <= bucket[b].max + lowered[b]
                         + Slack(Cardinality(Takers(b)))

LEMMA LargestCount ==
    /\ Largest(Counts) \in Nat
    /\ \A n \in Counts : n <= Largest(Counts)
<1>1. Largest(Counts) \in Counts /\ \A n \in Counts : n <= Largest(Counts)
  BY LoadAssumption DEF Largest
<1> QED
  BY <1>1, LimitAssumption

LEMMA TakersFinite ==
    ASSUME NEW b
    PROVE  /\ IsFiniteSet(Takers(b))
           /\ Cardinality(Takers(b)) \in Nat
           /\ Cardinality(Handler) \in Nat
           /\ Cardinality(Takers(b)) <= Cardinality(Handler)
<1>1. Takers(b) \in SUBSET Handler
  BY DEF Takers
<1>2. IsFiniteSet(Takers(b)) /\ Cardinality(Takers(b)) <= Cardinality(Handler)
  BY <1>1, LoadAssumption, FS_Subset
<1> QED
  BY <1>2, LoadAssumption, FS_CardinalityType

LEMMA SlackNat ==
    ASSUME NEW k \in Nat, Cardinality(Handler) \in Nat, k <= Cardinality(Handler)
    PROVE  Slack(k) \in Nat
<1>1. Cardinality(Handler) - k \in Nat
  OBVIOUS
<1> QED
  BY <1>1, LargestCount DEF Slack

LEMMA SlackGrows ==
    ASSUME NEW k \in Nat, Cardinality(Handler) \in Nat
    PROVE  Slack(k - 1) = Slack(k) + Largest(Counts)
<1> DEFINE L == Largest(Counts)
           N == Cardinality(Handler)
<1>1. L \in Int /\ N \in Int
  BY LargestCount
<1> HIDE DEF L, N
<1>2. L * (N - (k - 1)) = L * (N - k) + L
  BY <1>1
<1> QED
  BY <1>2 DEF Slack, L, N

(* In a well-formed state the bound of a bucket is a number. *)
LEMMA BoundNat ==
    ASSUME TypeOK, NEW b \in Handler
    PROVE  /\ admitted[b] \in Nat
           /\ bucket[b].max \in Nat
           /\ lowered[b] \in Nat
           /\ Slack(Cardinality(Takers(b))) \in Nat
<1>1. Slack(Cardinality(Takers(b))) \in Nat
  BY TakersFinite, SlackNat
<1> QED
  BY <1>1 DEF TypeOK

(* The bound of a bucket grows with its maximum, and does not shrink       *)
(* unless a handler passes the test.                                       *)
LEMMA BoundKept ==
    ASSUME TypeOK, TypeOK', OverrunInv, NEW b \in Handler,
           Takers(b)' = Takers(b),
           admitted'[b] = admitted[b],
           bucket[b].max + lowered[b] <= bucket'[b].max + lowered'[b]
    PROVE  (admitted[b] <= bucket[b].max + lowered[b]
                           + Slack(Cardinality(Takers(b))))'
<1> DEFINE S == Slack(Cardinality(Takers(b)))
<1>1. S' = S
  BY DEF Slack
<1>2. admitted[b] <= bucket[b].max + lowered[b] + S
  BY DEF OverrunInv
<1>3. /\ admitted[b] \in Nat /\ bucket[b].max \in Nat /\ lowered[b] \in Nat
      /\ bucket'[b].max \in Nat /\ lowered'[b] \in Nat
      /\ S \in Nat
  BY BoundNat DEF TypeOK
<1> HIDE DEF S
<1>4. admitted'[b] <= bucket'[b].max + lowered'[b] + S
  BY <1>2, <1>3
<1> QED
  BY <1>1, <1>4 DEF S

(* The slack of the next state. *)
LEMMA NextSlackNat ==
    ASSUME NEW b \in Handler
    PROVE  Slack(Cardinality(Takers(b)))' \in Nat
<1>1. Takers(b)' \in SUBSET Handler
  BY DEF Takers
<1>2. IsFiniteSet(Takers(b)') /\ Cardinality(Takers(b)') <= Cardinality(Handler)
  BY <1>1, LoadAssumption, FS_Subset
<1>3. Cardinality(Takers(b)') \in Nat /\ Cardinality(Handler) \in Nat
  BY <1>2, LoadAssumption, FS_CardinalityType
<1> QED
  BY <1>2, <1>3, SlackNat

(* A bucket that has let nothing through is within its bound. *)
LEMMA NothingAdmitted ==
    ASSUME TypeOK', NEW b \in Handler, admitted'[b] = 0
    PROVE  (admitted[b] <= bucket[b].max + lowered[b]
                           + Slack(Cardinality(Takers(b))))'
<1> DEFINE S == Slack(Cardinality(Takers(b)))
<1>1. S' \in Nat
  BY NextSlackNat
<1>2. bucket'[b].max \in Nat /\ lowered'[b] \in Nat
  BY DEF TypeOK
<1> HIDE DEF S
<1>3. admitted'[b] <= bucket'[b].max + lowered'[b] + S'
  BY <1>1, <1>2
<1> QED
  BY <1>3 DEF S

(* Every step keeps the bound. *)
LEMMA OverrunStep ==
    TypeOK /\ TokenInv /\ OverrunInv /\ [Next]_vars => OverrunInv'
<1> SUFFICES ASSUME TypeOK, TokenInv, OverrunInv, [Next]_vars
             PROVE  OverrunInv'
  OBVIOUS
<1> USE HandlerAssumption
<1> DEFINE Bound(b) == admitted[b] <= bucket[b].max + lowered[b]
                                      + Slack(Cardinality(Takers(b)))
           Small == \A h \in Handler : handler[h].count <= Largest(Counts)
<1>0. TypeOK' /\ 0 <= Largest(Counts)
  BY TypeStep, LargestCount
<1> SUFFICES Small' /\ \A b \in Handler : Bound(b)'
  BY DEF OverrunInv
<1>1. ASSUME NEW h \in Handler, IsHitLimit(h)
      PROVE  Small' /\ \A b \in Handler : Bound(b)'
  <2>1. handler'[h].count \in Counts /\ handler[h].pc = "idle"
        /\ handler'[h].pc \in {"put", "compare"}
    BY <1>1 DEF IsHitLimit, TypeOK
  <2>2. \A g \in Handler \ {h} : handler'[g] = handler[g]
    BY <1>1 DEF IsHitLimit, TypeOK
  <2>3. Small'
    BY <2>1, <2>2, LargestCount DEF OverrunInv
  <2>4. \A b \in Handler : Takers(b)' = Takers(b)
    BY <2>1, <2>2 DEF Takers
  <2> QED
    BY <1>0, <1>1, <2>3, <2>4, BoundKept DEF IsHitLimit, TypeOK
<1>2. ASSUME NEW h \in Handler, PutNewBucket(h)
      PROVE  Small' /\ \A b \in Handler : Bound(b)'
  <2>1. /\ handler[h].pc = "put" /\ handler'[h].pc = "compare"
        /\ handler'[h].count = handler[h].count
        /\ \A g \in Handler \ {h} : handler'[g] = handler[g]
        /\ \A g \in Handler \ {h} : bucket'[g] = bucket[g]
        /\ UNCHANGED <<admitted, lowered>>
    BY <1>2 DEF PutNewBucket, TypeOK
  <2>2. Small'
    BY <2>1 DEF OverrunInv
  <2>3. Bound(h)'
    <3>1. admitted'[h] = 0
      BY <1>2, <2>1 DEF PutNewBucket, TokenInv, FreshInv, Fresh
    <3> QED
      BY <1>0, <3>1, NothingAdmitted
  <2>4. ASSUME NEW b \in Handler, b # h PROVE Bound(b)'
    <3>1. Takers(b)' = Takers(b)
      BY <2>1 DEF Takers
    <3>2. bucket[b].max + lowered[b] <= bucket'[b].max + lowered'[b]
      BY <2>1, <2>4 DEF TypeOK
    <3> QED
      BY <1>0, <2>1, <3>1, <3>2, BoundKept
  <2> QED
    BY <2>2, <2>3, <2>4
<1>3. ASSUME NEW h \in Handler,
             CompareMax(h) \/ UpdateMaxRead(h) \/ TakeRefuse(h) \/ TakeRead(h)
      PROVE  Small' /\ \A b \in Handler : Bound(b)'
  <2>1. /\ handler'[h].count <= Largest(Counts)
        /\ \/ /\ handler[h].pc \notin {"take", "write"}
              /\ handler'[h].pc \notin {"take", "write"}
           \/ /\ handler[h].pc \in {"take", "write"}
              /\ handler'[h].pc \in {"take", "write"}
              /\ handler'[h].b = handler[h].b
        /\ \A g \in Handler \ {h} : handler'[g] = handler[g]
    BY <1>0, <1>3 DEF CompareMax, UpdateMaxRead, TakeRefuse, TakeRead, Goto,
                      Idle, TypeOK, OverrunInv
  <2>2. Small'
    BY <2>1 DEF OverrunInv
  <2>3. \A b \in Handler : Takers(b)' = Takers(b)
    BY <2>1 DEF Takers
  <2>4. UNCHANGED <<admitted, lowered>>
    BY <1>3 DEF CompareMax, UpdateMaxRead, TakeRefuse, TakeRead
  <2>5. \A b \in Handler : bucket'[b].max = bucket[b].max
    BY <1>3 DEF CompareMax, UpdateMaxRead, TakeRefuse, TakeRead, TypeOK
  <2>6. \A b \in Handler :
           bucket[b].max + lowered[b] <= bucket'[b].max + lowered'[b]
    BY <2>4, <2>5 DEF TypeOK
  <2> QED
    BY <1>0, <2>2, <2>3, <2>4, <2>6, BoundKept
<1>4. ASSUME NEW h \in Handler, UpdateMaxWrite(h)
      PROVE  Small' /\ \A b \in Handler : Bound(b)'
  <2>1. handler[h].b \in Handler
    BY <1>4 DEF UpdateMaxWrite, TokenInv, HasBucket, TypeOK
  <2>2. /\ handler'[h].count = handler[h].count
        /\ handler[h].pc \notin {"take", "write"}
        /\ handler'[h].pc \notin {"take", "write"}
        /\ \A g \in Handler \ {h} : handler'[g] = handler[g]
    BY <1>4 DEF UpdateMaxWrite, Goto, TypeOK
  <2>3. Small'
    BY <2>2 DEF OverrunInv
  <2>4. \A b \in Handler : Takers(b)' = Takers(b)
    BY <2>2 DEF Takers
  <2>5. /\ \A g \in Handler \ {handler[h].b} :
              bucket'[g] = bucket[g] /\ lowered'[g] = lowered[g]
        /\ bucket'[handler[h].b].max = handler[h].max
        /\ lowered'[handler[h].b] =
              lowered[handler[h].b]
              + Excess(bucket[handler[h].b].max, handler[h].max)
        /\ admitted' = admitted
    BY <1>4, <2>1 DEF UpdateMaxWrite, TypeOK
  <2>6. ASSUME NEW b \in Handler
        PROVE  bucket[b].max + lowered[b] <= bucket'[b].max + lowered'[b]
    <3>1. /\ bucket[b].max \in Nat /\ lowered[b] \in Nat
          /\ handler[h].max \in Nat
      BY DEF TypeOK
    <3>2. CASE b = handler[h].b
      BY <2>5, <3>1, <3>2 DEF Excess
    <3>3. CASE b # handler[h].b
      BY <2>5, <3>1, <3>3
    <3> QED
      BY <3>2, <3>3
  <2> QED
    BY <1>0, <2>3, <2>4, <2>5, <2>6, BoundKept
<1>5. ASSUME NEW h \in Handler, TakeCheck(h)
      PROVE  Small' /\ \A b \in Handler : Bound(b)'
  <2>1. PICK c \in Handler : c = handler[h].b
    BY <1>5 DEF TakeCheck, TokenInv, HasBucket, TypeOK
  <2>2. /\ handler'[h].count = handler[h].count
        /\ handler[h].pc = "check"
        /\ handler'[h].b = c
        /\ \A g \in Handler \ {h} : handler'[g] = handler[g]
        /\ UNCHANGED <<bucket, admitted, lowered>>
    BY <1>5, <2>1 DEF TakeCheck, Goto, TypeOK
  <2>3. Small'
    BY <2>2 DEF OverrunInv
  <2>4. Bound(c)'
    <3>1. /\ bucket[c].token \in Int /\ handler[h].count \in Nat
          /\ admitted[c] \in Nat /\ bucket[c].max \in Nat /\ lowered[c] \in Nat
          /\ bucket[c].token - handler[h].count >= 0
          /\ bucket[c].token + admitted[c] <= bucket[c].max + lowered[c]
      BY <1>5, <2>1 DEF TakeCheck, TypeOK, TokenInv, NoTokenSpentTwice
    <3>2. admitted[c] <= bucket[c].max + lowered[c]
      BY <3>1
    <3>3. Slack(Cardinality(Takers(c)))' \in Nat
      BY <1>0, NextSlackNat
    <3> DEFINE S == Slack(Cardinality(Takers(c)))
    <3> HIDE DEF S
    <3>4. S' \in Nat
      BY <3>3 DEF S
    <3>5. admitted'[c] <= bucket'[c].max + lowered'[c] + S'
      BY <2>2, <3>1, <3>2, <3>4
    <3> QED
      BY <3>5 DEF S
  <2>5. ASSUME NEW b \in Handler, b # c PROVE Bound(b)'
    <3>1. Takers(b)' = Takers(b)
      BY <2>1, <2>2, <2>5 DEF Takers
    <3>2. bucket[b].max + lowered[b] <= bucket'[b].max + lowered'[b]
      BY <2>2 DEF TypeOK
    <3> QED
      BY <1>0, <2>2, <3>1, <3>2, BoundKept
  <2> QED
    BY <2>3, <2>4, <2>5
<1>6. ASSUME NEW h \in Handler, TakeWrite(h)
      PROVE  Small' /\ \A b \in Handler : Bound(b)'
  <2>1. PICK c \in Handler : c = handler[h].b
    BY <1>6 DEF TakeWrite, TokenInv, HasBucket, TypeOK
  <2>2. /\ handler'[h] = Idle
        /\ handler[h].pc = "write"
        /\ \A g \in Handler \ {h} : handler'[g] = handler[g]
        /\ \A g \in Handler : bucket'[g].max = bucket[g].max
        /\ \A g \in Handler \ {c} : admitted'[g] = admitted[g]
        /\ admitted'[c] = admitted[c] + handler[h].count
        /\ lowered' = lowered
    BY <1>6, <2>1 DEF TakeWrite, TypeOK
  <2>3. Small'
    BY <1>0, <2>2 DEF OverrunInv, Idle
  <2>4. Bound(c)'
    <3>1. Takers(c)' = Takers(c) \ {h} /\ h \in Takers(c)
      BY <2>1, <2>2 DEF Takers, Idle
    <3> DEFINE k == Cardinality(Takers(c))
               S == Slack(Cardinality(Takers(c)))
    <3>2. k \in Nat /\ Cardinality(Handler) \in Nat /\ IsFiniteSet(Takers(c))
      BY TakersFinite
    <3>3. k' = k - 1
      BY <3>1, <3>2, FS_RemoveElement
    <3>4. S' = S + Largest(Counts)
      BY <3>2, <3>3, SlackGrows DEF Slack
    <3>5. /\ admitted[c] \in Nat /\ bucket[c].max \in Nat /\ lowered[c] \in Nat
          /\ S \in Nat
          /\ handler[h].count \in Nat /\ Largest(Counts) \in Nat
          /\ handler[h].count <= Largest(Counts)
          /\ admitted[c] <= bucket[c].max + lowered[c] + S
      BY BoundNat, LargestCount DEF TypeOK, OverrunInv
    <3> HIDE DEF S
    <3>6. admitted'[c] <= bucket'[c].max + lowered'[c] + S'
      BY <2>2, <3>4, <3>5
    <3> QED
      BY <3>6 DEF S
  <2>5. ASSUME NEW b \in Handler, b # c PROVE Bound(b)'
    <3>1. Takers(b)' = Takers(b)
      BY <2>1, <2>2, <2>5 DEF Takers, Idle
    <3>2. bucket[b].max + lowered[b] <= bucket'[b].max + lowered'[b]
      BY <2>2 DEF TypeOK
    <3> QED
      BY <1>0, <2>2, <2>5, <3>1, <3>2, BoundKept
  <2> QED
    BY <2>3, <2>4, <2>5
<1>7. CASE ConcurrentMapWrite
  <2>1. \A b \in Handler : admitted'[b] = 0
    BY <1>7 DEF ConcurrentMapWrite
  <2>2. Small'
    BY <1>0, <1>7 DEF ConcurrentMapWrite, Idle
  <2> QED
    BY <1>0, <2>1, <2>2, NothingAdmitted
<1>8. CASE Start \/ Stop \/ RefillRead \/ UNCHANGED vars
  <2>1. UNCHANGED <<bucket, handler, admitted, lowered>>
    BY <1>8 DEF Start, Stop, RefillRead, vars
  <2>2. Small'
    BY <2>1 DEF OverrunInv
  <2>3. \A b \in Handler : Takers(b)' = Takers(b)
    BY <2>1 DEF Takers
  <2>4. \A b \in Handler :
           bucket[b].max + lowered[b] <= bucket'[b].max + lowered'[b]
    BY <2>1 DEF TypeOK
  <2> QED
    BY <1>0, <2>1, <2>2, <2>3, <2>4, BoundKept
<1>9. CASE RefillWrite
  <2>1. PICK c \in Handler : c = refill.b
    BY <1>9 DEF RefillWrite, TokenInv, TypeOK
  <2>2. /\ handler' = handler
        /\ \A g \in Handler : bucket'[g].max = bucket[g].max
        /\ \A g \in Handler \ {c} : /\ admitted'[g] = admitted[g]
                                      /\ lowered'[g] = lowered[g]
        /\ admitted'[c] = 0
    BY <1>9, <2>1 DEF RefillWrite, TypeOK
  <2>3. Small'
    BY <2>2 DEF OverrunInv
  <2>4. Bound(c)'
    BY <1>0, <2>2, NothingAdmitted
  <2>5. ASSUME NEW b \in Handler, b # c PROVE Bound(b)'
    <3>1. Takers(b)' = Takers(b)
      BY <2>2 DEF Takers
    <3>2. bucket[b].max + lowered[b] <= bucket'[b].max + lowered'[b]
      BY <2>2, <2>5 DEF TypeOK
    <3> QED
      BY <1>0, <2>2, <2>5, <3>1, <3>2, BoundKept
  <2> QED
    BY <2>3, <2>4, <2>5
<1> QED
  BY <1>1, <1>2, <1>3, <1>4, <1>5, <1>6, <1>7, <1>8, <1>9
     DEF Next, Request, Take, Refill

(* The test outside the lock costs at most one request per handler: the    *)
(* sum of what a bucket lets through between two refills is bounded for    *)
(* any number of handlers, any sizes of requests and any maxima.           *)
THEOREM OverrunIsBounded == Spec => []OverrunBounded
<1>1. Init => OverrunInv
  <2> SUFFICES ASSUME Init PROVE OverrunInv
    OBVIOUS
  <2>1. TypeOK
    BY TokenInit
  <2>2. \A h \in Handler : handler[h].count = 0 /\ admitted[h] = 0
    BY DEF Init, Idle
  <2>3. \A h \in Handler : handler[h].count <= Largest(Counts)
    BY <2>2, LargestCount
  <2>4. ASSUME NEW b \in Handler
        PROVE  admitted[b] <= bucket[b].max + lowered[b]
                              + Slack(Cardinality(Takers(b)))
    BY <2>1, <2>2, BoundNat
  <2> QED
    BY <2>3, <2>4 DEF OverrunInv
<1>2. TypeOK /\ OverrunInv => OverrunBounded
  <2> SUFFICES ASSUME TypeOK, OverrunInv, NEW b \in Handler
               PROVE  admitted[b] <= bucket[b].max + lowered[b]
                                     + Cardinality(Handler) * Largest(Counts)
    BY DEF OverrunBounded
  <2> DEFINE k == Cardinality(Takers(b))
             N == Cardinality(Handler)
             L == Largest(Counts)
  <2>1. k \in Nat /\ N \in Nat /\ L \in Nat /\ k <= N
    BY TakersFinite, LargestCount
  <2>2. /\ admitted[b] \in Nat /\ bucket[b].max \in Nat /\ lowered[b] \in Nat
        /\ admitted[b] <= bucket[b].max + lowered[b] + L * (N - k)
    BY BoundNat DEF OverrunInv, Slack
  <2> HIDE DEF k, N, L
  <2>3. L * (N - k) <= N * L
    <3>1. L * k \in Nat /\ N * L \in Nat
      BY <2>1
    <3>2. L * (N - k) = N * L - L * k
      BY <2>1
    <3> QED
      BY <3>1, <3>2
  <2>4. L * (N - k) \in Int /\ N * L \in Int
    BY <2>1
  <2>5. admitted[b] <= bucket[b].max + lowered[b] + N * L
    BY <2>2, <2>3, <2>4
  <2> QED
    BY <2>5 DEF N, L
<1> QED
  BY <1>1, <1>2, OverrunStep, LimiterInvariant, PTL DEF Spec
=============================================================================
