------------------------- MODULE TokenBucketProofs -------------------------
(***************************************************************************)
(* Proofs about the rate limiter, for every number of requests and         *)
(* instances, every rate and every bound.                                  *)
(***************************************************************************)
EXTENDS TokenBucketWindow, TLAPS

(* Products of integers keep an order, whatever the factors stand for. *)
LEMMA ProductMonotone ==
    ASSUME NEW a \in Int, NEW b \in Int, NEW c \in Nat, a <= b
    PROVE  a * c <= b * c
OBVIOUS

(* One bucketful is the refill of Ttl seconds, and holds at least a token. *)
LEMMA CapacityFacts ==
    /\ Cost \in Nat \ {0} /\ Capacity \in Nat /\ Cost <= Capacity
    /\ Capacity = Ttl * Limit /\ Limit \in Nat \ {0} /\ Ttl \in Nat \ {0}
BY ThrottleAssumption DEF Cost, Capacity

(* The seconds the script computes are natural numbers. *)
LEMMA CeilDivType ==
    ASSUME NEW a \in Nat, NEW b \in Nat \ {0}
    PROVE  CeilDiv(a, b) \in Nat
BY DEF CeilDiv

LEMMA SecondsToEarnType ==
    ASSUME NEW units \in Nat PROVE SecondsToEarn(units) \in Nat
<1>1. units * RateFloor \in Nat
    BY ThrottleAssumption
<1>2. CeilDiv(units, Limit) \in Nat
    BY CeilDivType, ThrottleAssumption
<1>3. CeilDiv(units * RateFloor, Ttl) \in Nat
    BY <1>1, CeilDivType, ThrottleAssumption
<1> QED
    BY <1>2, <1>3 DEF SecondsToEarn

LEMMA LifetimeType == Lifetime \in Nat
BY SecondsToEarnType, CapacityFacts, ThrottleAssumption DEF Lifetime

(* A bucket never holds less than nothing or more than its capacity, and   *)
(* refilling gives at most the elapsed seconds' worth.                     *)
LEMMA RefilledType ==
    ASSUME NEW b \in Bucket, NEW now \in Nat
    PROVE  /\ Refilled(b, now) \in 0 .. Capacity
           /\ Elapsed(b, now) \in Nat
           /\ Refilled(b, now) <= b.tokens + Elapsed(b, now) * Limit
<1> DEFINE e == Elapsed(b, now)
           x == e * Limit
<1>1. e \in Nat
    BY DEF Elapsed, Bucket
<1>2. x \in Nat
    BY <1>1, CapacityFacts
<1>3. b.tokens \in Nat /\ b.tokens <= Capacity /\ Capacity \in Nat
    BY CapacityFacts DEF Bucket
<1>4. Refilled(b, now) = IF b.tokens + x > Capacity THEN Capacity
                                                    ELSE b.tokens + x
    BY DEF Refilled
<1> HIDE DEF e, x
<1>5. Refilled(b, now) \in 0 .. Capacity /\ Refilled(b, now) <= b.tokens + x
    BY <1>2, <1>3, <1>4
<1> QED
    BY <1>1, <1>5 DEF e, x

(* Refilling takes nothing away, and falls short of a token only when the  *)
(* seconds since the last refill earned none.                              *)
LEMMA RefilledKeeps ==
    ASSUME NEW b \in Bucket, NEW now \in Nat
    PROVE  /\ b.tokens <= Refilled(b, now)
           /\ Refilled(b, now) < Cost =>
                 Refilled(b, now) = b.tokens + Elapsed(b, now) * Limit
           /\ Refilled(b, now) < Cost <=>
                 b.tokens + Elapsed(b, now) * Limit < Cost
<1> DEFINE x == Elapsed(b, now) * Limit
<1>1. x \in Nat
    <2>1. Elapsed(b, now) \in Nat
        BY DEF Elapsed, Bucket
    <2> QED
        BY <2>1, CapacityFacts
<1>2. b.tokens \in Nat /\ b.tokens <= Capacity
    BY CapacityFacts DEF Bucket
<1>3. Refilled(b, now) = IF b.tokens + x > Capacity THEN Capacity
                                                    ELSE b.tokens + x
    BY DEF Refilled
<1> HIDE DEF x
<1> QED
    BY <1>1, <1>2, <1>3, CapacityFacts DEF x

LEMMA AbsentIsNoBucket == Absent \notin Bucket
BY DEF Absent, Bucket

(* A bucket the script stores is well formed. *)
LEMMA StoreType ==
    ASSUME TypeOK, NEW k \in Keys, NEW tokens \in 0 .. Capacity,
           NEW now \in Nat, Store(k, tokens, now)
    PROVE  bucket' \in [Keys -> Bucket \union {Absent}]
<1>1. time + Lifetime \in Nat
    BY LifetimeType, ThrottleAssumption DEF TypeOK
<1>2. [tokens |-> tokens, lastRefill |-> now, expiresAt |-> time + Lifetime]
          \in Bucket
    BY <1>1 DEF Bucket
<1> QED
    BY <1>2 DEF Store, TypeOK

(* Running the script keeps the buckets and its replies well formed. *)
LEMMA EvalBucketType ==
    ASSUME TypeOK, NEW r \in Requests, NEW k \in Keys, NEW now \in Nat,
           EvalBucket(r, k, now)
    PROVE  /\ bucket' \in [Keys -> Bucket \union {Absent}]
           /\ reply' \in [Requests -> Reply]
<1>1. CASE Open(r, k, now)
    <2>1. Capacity - Cost \in 0 .. Capacity
        BY CapacityFacts
    <2>2. [allowed |-> TRUE, remaining |-> Limit - 1, retryAfter |-> 0] \in Reply
        BY CapacityFacts DEF Reply
    <2> QED
        BY <1>1, <2>1, <2>2, StoreType DEF Open, Return, TypeOK
<1>2. CASE Deny(r, k, now)
    <2>1. bucket[k] \in Bucket
        BY <1>2 DEF Deny, TypeOK
    <2>2. Cost - Refilled(bucket[k], now) \in Nat
        BY <1>2, <2>1, RefilledType, CapacityFacts DEF Deny
    <2>3. SecondsToEarn(Cost - Refilled(bucket[k], now)) \in Nat
        BY <2>2, SecondsToEarnType
    <2> QED
        BY <1>2, <2>3 DEF Deny, Return, Reply, TypeOK
<1>3. CASE Take(r, k, now)
    <2> DEFINE left == Refilled(bucket[k], now) - Cost
    <2>1. bucket[k] \in Bucket
        BY <1>3 DEF Take, TypeOK
    <2>2. left \in 0 .. Capacity
        BY <1>3, <2>1, RefilledType, CapacityFacts DEF Take
    <2>3. left \div Cost \in Nat
        <3> HIDE DEF left
        <3> QED BY <2>2, CapacityFacts
    <2>4. Store(k, left, now) /\ Return(r, TRUE, left \div Cost, 0)
        BY <1>3 DEF Take
    <2> HIDE DEF left
    <2>5. bucket' \in [Keys -> Bucket \union {Absent}]
        BY <2>2, <2>4, StoreType
    <2>6. reply' \in [Requests -> Reply]
        BY <2>3, <2>4 DEF Return, Reply, TypeOK
    <2> QED
        BY <2>5, <2>6
<1> QED
    BY <1>1, <1>2, <1>3 DEF EvalBucket

(* Every key a request can have names a bucket. *)
LEMMA BuildKeyType ==
    ASSUME NEW user \in Users \union {NoUser}, NEW ip \in Ips \union {NoIp},
           NEW route \in Routes
    PROVE  BuildKey(user, ip, route) \in Keys
BY DEF Keys

(* Dropping commands from a connection leaves the rest well formed. *)
LEMMA ForgetType ==
    ASSUME TypeOK, NEW gone \in SUBSET Requests, Forget(gone)
    PROVE  /\ cmd' \in [Requests -> Cmd \union {NoCmd}]
           /\ reply' \in [Requests -> Reply]
           /\ ahead' \in [Requests -> SUBSET Requests]
           /\ \A r \in Requests \ gone : cmd'[r] = cmd[r]
BY DEF Forget, TypeOK, NoReply, Reply

LEMMA TypeStep == TypeOK /\ [Next]_vars => TypeOK'
<1> SUFFICES ASSUME TypeOK, [Next]_vars PROVE TypeOK'
    OBVIOUS
<1> USE ThrottleAssumption
<1>1. ASSUME NEW r \in Requests, NEW s \in Servers, Arrive(r, s)
      PROVE  TypeOK'
    <2>1. PICK user \in Users \union {NoUser}, ip \in Ips \union {NoIp},
               route \in Routes :
               cmd' = [cmd EXCEPT ![r] = [key |-> BuildKey(user, ip, route),
                                          now |-> time + offset[s],
                                          via |-> s, at |-> time]]
        BY <1>1 DEF Arrive
    <2>2. cmd'[r] \in Cmd
        BY <2>1, BuildKeyType DEF Cmd, TypeOK
    <2>3. cmd' \in [Requests -> Cmd \union {NoCmd}]
        BY <2>1, <2>2 DEF TypeOK
    <2>4. \A q \in Requests : Waiting(q)' => cmd'[q] \in Cmd
        BY <1>1, <2>1, <2>2 DEF Arrive, Waiting, TypeOK
    <2> QED
        BY <1>1, <2>3, <2>4 DEF Arrive, TypeOK, Status
<1>2. ASSUME NEW r \in Requests, Execute(r) PROVE TypeOK'
    <2>1. cmd[r] \in Cmd
        BY <1>2 DEF Execute, TypeOK, Waiting
    <2>2. cmd[r].key \in Keys /\ cmd[r].now \in Nat
        BY <2>1 DEF Cmd
    <2>3. /\ bucket' \in [Keys -> Bucket \union {Absent}]
          /\ reply' \in [Requests -> Reply]
        BY <1>2, <2>2, EvalBucketType DEF Execute
    <2> QED
        BY <1>2, <2>3 DEF Execute, TypeOK, Status, Waiting
<1>3. ASSUME NEW r \in Requests, Answer(r) PROVE TypeOK'
    BY <1>3, ForgetType DEF Answer, TypeOK, Status, Waiting
<1>4. CASE Tick
    BY <1>4 DEF Tick, TypeOK, Waiting
<1>5. ASSUME NEW k \in Keys, Expire(k) PROVE TypeOK'
    BY <1>5 DEF Expire, TypeOK, Waiting
<1>6. ASSUME NEW s \in Servers, AdjustClock(s) PROVE TypeOK'
    BY <1>6 DEF AdjustClock, TypeOK, Waiting
<1>7. ASSUME NEW s \in Servers, LoseConnection(s) PROVE TypeOK'
    BY <1>7 DEF LoseConnection, Resend, TypeOK, Waiting, Status, NoReply, Reply
<1>8. ASSUME NEW s \in Servers, ServerCrash(s) PROVE TypeOK'
    <2> DEFINE gone == {r \in Requests : Waiting(r) /\ cmd[r].via = s}
    <2>1. /\ cmd' \in [Requests -> Cmd \union {NoCmd}]
          /\ reply' \in [Requests -> Reply]
          /\ ahead' \in [Requests -> SUBSET Requests]
          /\ \A r \in Requests \ gone : cmd'[r] = cmd[r]
        BY <1>8, ForgetType DEF ServerCrash
    <2>2. pc' = [r \in Requests |-> IF r \in gone THEN "idle" ELSE pc[r]]
        BY <1>8 DEF ServerCrash
    <2>3. pc' \in [Requests -> Status]
        BY <2>2 DEF TypeOK, Status
    <2>4. \A r \in Requests : Waiting(r)' => cmd'[r] \in Cmd
        BY <2>1, <2>2 DEF TypeOK, Waiting
    <2> QED
        BY <1>8, <2>1, <2>3, <2>4 DEF ServerCrash, TypeOK
<1>9. CASE RedisCrash
    <2>1. bucket' \in [Keys -> Bucket \union {Absent}]
        BY <1>9 DEF RedisCrash, TypeOK
    <2>2. reply' \in [Requests -> Reply]
        BY <1>9 DEF RedisCrash, Resend, NoReply, Reply, TypeOK
    <2>3. /\ pc' \in [Requests -> Status]
        BY <1>9 DEF RedisCrash, Resend, Status, TypeOK
    <2>4. \A r \in Requests : Waiting(r)' => cmd'[r] \in Cmd
        BY <1>9 DEF RedisCrash, Resend, Waiting, TypeOK
    <2>5. /\ redisUp' \in BOOLEAN /\ faults < MaxFaults /\ faults' = faults + 1
          /\ time' = time /\ offset' = offset
          /\ cmd' = cmd /\ ahead' = ahead
        BY <1>9, Zenon DEF RedisCrash
    <2>6. time' \in 0 .. MaxTime /\ faults' \in 0 .. MaxFaults
        BY <2>5 DEF TypeOK
    <2>7. /\ offset' \in [Servers -> 0 .. Skew]
          /\ cmd' \in [Requests -> Cmd \union {NoCmd}]
          /\ ahead' \in [Requests -> SUBSET Requests]
        BY <2>5 DEF TypeOK
    <2> QED
        BY <2>1, <2>2, <2>3, <2>4, <2>5, <2>6, <2>7 DEF TypeOK
<1>10. CASE RedisRestart
    BY <1>10 DEF RedisRestart, TypeOK, Waiting
<1>11. CASE UNCHANGED vars
    BY <1>11 DEF vars, TypeOK, Waiting
<1> QED
    BY <1>1, <1>2, <1>3, <1>4, <1>5, <1>6, <1>7, <1>8, <1>9, <1>10, <1>11
       DEF Next

(* Every state of the limiter is well formed: no bucket ever holds a       *)
(* negative number of tokens or more than its capacity.                    *)
THEOREM TypeCorrect == Spec => []TypeOK
<1>1. Init => TypeOK
    BY ThrottleAssumption
       DEF Init, TypeOK, Status, Waiting, NoReply, Reply
<1> QED
    BY <1>1, TypeStep, PTL DEF Spec

-----------------------------------------------------------------------------
(* The observer only watches: every step it sees is a step of the limiter. *)
LEMMA WatchStepIsStep == [WatchNext]_allVars => [Next]_vars
BY DEF WatchNext, WatchExecute, WatchExpire, WatchCrash, WatchOther, Next,
       allVars, observer, vars

LEMMA WatchTypeCorrect == WatchSpec => []TypeOK
<1>1. WatchSpec => Spec
    <2>1. WatchInit => Init
        BY DEF WatchInit
    <2> QED
        BY <2>1, WatchStepIsStep, PTL DEF WatchSpec, Spec
<1> QED
    BY <1>1, TypeCorrect, PTL

(* What a step of the script does to one bucket, in the units the bound is *)
(* stated in: a charge at stamp `now` leaves at most what was there plus   *)
(* the refill since lastRefill, less one token, and never more than a      *)
(* bucketful less one token.                                               *)
Charge(k, now) ==
    /\ bucket'[k] \in Bucket /\ bucket'[k].lastRefill = now
    /\ bucket'[k].tokens + Cost <= Capacity
    /\ bucket[k] # Absent =>
          bucket'[k].tokens + Cost <= bucket[k].tokens
                                     + Elapsed(bucket[k], now) * Limit

LEMMA ChargeEffect ==
    ASSUME TypeOK, NEW r \in Requests, NEW k \in Keys, NEW now \in Nat,
           EvalBucket(r, k, now), reply'[r].allowed
    PROVE  /\ Charge(k, now)
           /\ \A j \in Keys \ {k} : bucket'[j] = bucket[j]
<1>1. bucket' \in [Keys -> Bucket \union {Absent}]
    BY EvalBucketType
<1>2. ~ Deny(r, k, now)
    BY DEF Deny, Return, TypeOK
<1>3. CASE Open(r, k, now)
    BY <1>1, <1>3, CapacityFacts, AbsentIsNoBucket
       DEF Open, Store, Charge, TypeOK, Absent
<1>4. CASE Take(r, k, now)
    <2> DEFINE left == Refilled(bucket[k], now) - Cost
    <2>1. bucket[k] \in Bucket
        BY <1>4 DEF Take, TypeOK
    <2>2. /\ left + Cost <= Capacity
          /\ left + Cost <= bucket[k].tokens + Elapsed(bucket[k], now) * Limit
          /\ left \in Nat
        <3>1. Elapsed(bucket[k], now) * Limit \in Nat
            BY <2>1, RefilledType, CapacityFacts
        <3>2. left >= 0
            BY <1>4 DEF Take
        <3> QED
            BY <3>1, <3>2, <2>1, RefilledType, CapacityFacts
    <2>3. bucket' = [bucket EXCEPT ![k] = [tokens |-> left, lastRefill |-> now,
                                           expiresAt |-> time + Lifetime]]
        BY <1>4 DEF Take, Store
    <2> HIDE DEF left
    <2> QED
        BY <1>1, <2>2, <2>3 DEF Charge, TypeOK, Absent
<1> QED
    BY <1>2, <1>3, <1>4 DEF EvalBucket

LEMMA DenyEffect ==
    ASSUME TypeOK, NEW r \in Requests, Execute(r), ~ reply'[r].allowed
    PROVE  UNCHANGED bucket
<1>1. EvalBucket(r, cmd[r].key, cmd[r].now)
    BY DEF Execute
<1> QED
    BY <1>1 DEF EvalBucket, Open, Deny, Take, Return, TypeOK

-----------------------------------------------------------------------------
(* The arithmetic of one charge: n tokens of cost c taken so far, t units  *)
(* left, p + x * l the budget.  Earning e more seconds and taking one more *)
(* token stays within the budget of x + e seconds.                         *)
LEMMA ChargeArithmetic ==
    ASSUME NEW t \in Int, NEW t2 \in Int, NEW n \in Nat, NEW n2 \in Nat,
           NEW c \in Nat, NEW p \in Int, NEW l \in Nat,
           NEW x \in Int, NEW y \in Int, NEW e \in Int,
           t + n * c <= p + x * l, t2 + c <= t + e * l,
           n2 <= n + 1, x + e <= y
    PROVE  t2 + n2 * c <= p + y * l
<1>1. n2 * c <= n * c + c
    <2>1. n2 * c <= (n + 1) * c
        BY ProductMonotone
    <2>2. (n + 1) * c = n * c + c
        OBVIOUS
    <2> QED
        BY <2>1, <2>2
<1>2. x * l + e * l <= y * l
    <2>1. (x + e) * l <= y * l
        BY ProductMonotone
    <2>2. (x + e) * l = x * l + e * l
        OBVIOUS
    <2> QED
        BY <2>1, <2>2
<1>3. /\ n * c \in Int /\ n2 * c \in Int /\ x * l \in Int
      /\ y * l \in Int /\ e * l \in Int
    OBVIOUS
<1> QED
    BY <1>1, <1>2, <1>3

LEMMA WindowInit == WatchInit => WindowInv
BY ThrottleAssumption
   DEF WatchInit, Init, ObserverInit, WindowInv, ObserverTypeOK,
       LiveBudget, ExpiredBudget

(* A token is taken: the bucket's clock moves to `now`, and what it moves  *)
(* back is added to slip.                                                  *)
LEMMA ChargeKeepsBudget ==
    ASSUME TypeOK, WindowInv, NEW r \in Requests, NEW k \in Keys,
           NEW now \in Nat, Charge(k, now), NoteCharge(r, k, now),
           UNCHANGED <<winFrom, fullAt, wipes>>
    PROVE  winFrom' <= winTo'[k] /\ LiveBudget(k)' /\ ExpiredBudget(k)'
<1> DEFINE p == Capacity + Capacity * wipes[k]
           clock == ClockOf(k)
           x == clock - winFrom + slip[k]
           y == now - winFrom + slip'[k]
<1>1. /\ bucket[k] \in Bucket \union {Absent} /\ bucket'[k] \in Bucket
      /\ bucket'[k].lastRefill = now
    BY DEF TypeOK, Charge
<1>2. /\ winFrom \in Nat /\ winTo[k] \in Nat /\ winTo'[k] \in Nat
      /\ charged[k] \in Nat /\ charged'[k] \in Nat
      /\ slip[k] \in Nat /\ wipes[k] \in Nat /\ fullAt[k] \in Nat
    BY DEF WindowInv, ObserverTypeOK, NoteCharge
<1>3. clock \in Nat
    BY <1>1, <1>2 DEF ClockOf, Bucket
<1>4. slip'[k] = slip[k] + (IF now < clock THEN clock - now ELSE 0)
    BY DEF NoteCharge, WindowInv, ObserverTypeOK
<1>5. /\ charged'[k] = IF now >= winFrom THEN charged[k] + 1 ELSE charged[k]
      /\ winTo'[k] = IF now >= winFrom /\ now > winTo[k] THEN now ELSE winTo[k]
    BY <1>2 DEF NoteCharge, WindowInv, ObserverTypeOK
<1>6. winFrom <= winTo'[k] /\ now <= winTo'[k]
    BY <1>2, <1>5 DEF WindowInv
<1>7. /\ bucket'[k].tokens \in Nat /\ bucket'[k].tokens + Cost <= Capacity
      /\ p \in Nat /\ Capacity <= p
    BY <1>1, <1>2, CapacityFacts DEF Charge, Bucket
<1>8. charged'[k] > 0
          => bucket'[k].tokens + charged'[k] * Cost <= p + y * Limit
    <2>1. CASE charged[k] = 0
        <3>1. ASSUME charged'[k] > 0
              PROVE  bucket'[k].tokens + charged'[k] * Cost <= p + y * Limit
            <4>1. charged'[k] = 1 /\ y \in Nat
                BY <1>2, <1>3, <1>4, <1>5, <2>1, <3>1
            <4>2. y * Limit \in Nat
                BY <4>1, CapacityFacts
            <4>3. charged'[k] * Cost = Cost
                BY <4>1, CapacityFacts
            <4> HIDE DEF p, y
            <4> QED
                BY <4>2, <4>3, <1>7, CapacityFacts
        <3> QED
            BY <3>1
    <2>2. CASE charged[k] > 0 /\ bucket[k] # Absent
        <3> DEFINE e == Elapsed(bucket[k], now)
        <3>1. bucket[k] \in Bucket
            BY <1>1, <2>2
        <3>2. e \in Nat
            BY <3>1, RefilledType
        <3>3. x + e <= y
            BY <1>2, <1>3, <1>4, <2>2, <3>1 DEF ClockOf, Elapsed, Bucket
        <3>4. bucket[k].tokens + charged[k] * Cost <= p + x * Limit
            <4>1. LiveBudget(k)
                BY DEF WindowInv
            <4>2. bucket[k].tokens + charged[k] * Cost
                      <= Capacity + Budget(k, clock)
                BY <4>1, <2>2 DEF LiveBudget, ClockOf
            <4>3. /\ Budget(k, clock) = Capacity * wipes[k] + x * Limit
                  /\ x * Limit \in Int /\ Capacity * wipes[k] \in Int
                BY <1>2, <1>3, CapacityFacts DEF Budget
            <4> HIDE DEF x, clock
            <4> QED
                BY <4>2, <4>3, <1>2, <3>1, CapacityFacts DEF Bucket
        <3>5. bucket'[k].tokens + Cost <= bucket[k].tokens + e * Limit
            BY <2>2 DEF Charge
        <3>6. charged'[k] <= charged[k] + 1
            BY <1>2, <1>5
        <3>7. x \in Int /\ y \in Int /\ bucket[k].tokens \in Int
            BY <1>2, <1>3, <1>4, <3>1 DEF Bucket
        <3> HIDE DEF p, x, y, e
        <3> QED
            BY <3>2, <3>3, <3>4, <3>5, <3>6, <3>7, <1>2, <1>7,
               CapacityFacts, ChargeArithmetic
    <2>3. CASE charged[k] > 0 /\ bucket[k] = Absent
        <3>1. x <= y
            BY <1>2, <1>3, <1>4
        <3>2. Capacity + charged[k] * Cost <= p + x * Limit
            <4>1. ExpiredBudget(k)
                BY DEF WindowInv
            <4>2. charged[k] * Cost <= Budget(k, clock)
                BY <4>1, <2>3 DEF ExpiredBudget, ClockOf
            <4>3. /\ Budget(k, clock) = Capacity * wipes[k] + x * Limit
                  /\ x * Limit \in Int /\ Capacity * wipes[k] \in Int
                  /\ charged[k] * Cost \in Int
                BY <1>2, <1>3, CapacityFacts DEF Budget
            <4> HIDE DEF x, clock
            <4> QED
                BY <4>2, <4>3, CapacityFacts
        <3>3. bucket'[k].tokens + Cost <= Capacity + 0 * Limit
            BY <1>7, CapacityFacts
        <3>4. charged'[k] <= charged[k] + 1
            BY <1>2, <1>5
        <3>5. x \in Int /\ y \in Int /\ x + 0 <= y
            BY <1>2, <1>3, <1>4, <3>1
        <3> HIDE DEF p, x, y
        <3> QED
            BY <3>2, <3>3, <3>4, <3>5, <1>2, <1>7,
               CapacityFacts, ChargeArithmetic
    <2> QED
        BY <1>2, <2>1, <2>2, <2>3
<1>9. /\ Budget(k, now)' = Capacity * wipes[k] + y * Limit
      /\ y * Limit \in Int /\ Capacity * wipes[k] \in Int
    BY <1>2, <1>3, <1>4, CapacityFacts DEF Budget
<1>10. LiveBudget(k)'
    <2>1. charged'[k] > 0 => bucket'[k].tokens + charged'[k] * Cost
                                 <= Capacity + Budget(k, now)'
        <3>1. p + y * Limit = Capacity + (Capacity * wipes[k] + y * Limit)
            <4> HIDE DEF y
            <4> QED BY <1>9, CapacityFacts
        <3> QED
            BY <1>8, <1>9, <3>1
    <2> QED
        BY <1>1, <1>6, <2>1 DEF LiveBudget, Budget
<1>11. ExpiredBudget(k)'
    BY <1>1, AbsentIsNoBucket DEF ExpiredBudget
<1> QED
    BY <1>6, <1>10, <1>11

(* A bucket whose contents and history are untouched stays within budget. *)
KeyUntouched(k) ==
    /\ bucket'[k] = bucket[k] /\ winTo'[k] = winTo[k]
    /\ charged'[k] = charged[k] /\ slip'[k] = slip[k]
    /\ wipes'[k] = wipes[k] /\ fullAt'[k] = fullAt[k] /\ winFrom' = winFrom

LEMMA UntouchedKeepsBudget ==
    ASSUME WindowInv, NEW k \in Keys, KeyUntouched(k)
    PROVE  winFrom' <= winTo'[k] /\ LiveBudget(k)' /\ ExpiredBudget(k)'
BY DEF WindowInv, KeyUntouched, LiveBudget, ExpiredBudget, Budget

(* A bucket that leaves Redis at clock c keeps its budget if c is late     *)
(* enough to have refilled what the bucket was missing, or if the loss is  *)
(* counted.                                                                *)
LEMMA GoneKeepsBudget ==
    ASSUME TypeOK, WindowInv, NEW k \in Keys,
           bucket[k] # Absent, bucket'[k] = Absent,
           winTo'[k] = winTo[k], charged'[k] = charged[k],
           slip'[k] = slip[k], winFrom' = winFrom,
           \/ /\ wipes'[k] = wipes[k]
              /\ fullAt'[k] = bucket[k].lastRefill + Ttl
           \/ /\ wipes'[k] = wipes[k] + 1
              /\ fullAt'[k] = bucket[k].lastRefill
    PROVE  winFrom' <= winTo'[k] /\ LiveBudget(k)' /\ ExpiredBudget(k)'
<1> DEFINE last == bucket[k].lastRefill
           x == last - winFrom + slip[k]
<1>1. bucket[k] \in Bucket
    BY DEF TypeOK
<1>2. last \in Nat /\ bucket[k].tokens \in Nat
    BY <1>1, CapacityFacts DEF Bucket
<1>3. /\ winFrom \in Nat /\ winTo[k] \in Nat /\ charged[k] \in Nat
      /\ slip[k] \in Nat /\ wipes[k] \in Nat
      /\ winFrom <= winTo[k] /\ LiveBudget(k)
    BY DEF WindowInv, ObserverTypeOK
<1>4. x \in Int
    BY <1>2, <1>3
<1>5. last <= winTo[k]
    BY <1>3 DEF LiveBudget
<1>6. ASSUME charged[k] > 0
      PROVE  charged[k] * Cost <= Capacity + Capacity * wipes[k] + x * Limit
    <2>1. bucket[k].tokens + charged[k] * Cost <= Capacity + Budget(k, last)
        BY <1>3, <1>6 DEF LiveBudget
    <2>2. /\ Budget(k, last) = Capacity * wipes[k] + x * Limit
          /\ Capacity * wipes[k] \in Int /\ x * Limit \in Int
          /\ charged[k] * Cost \in Int
        BY <1>3, <1>4, CapacityFacts DEF Budget
    <2> HIDE DEF x, last
    <2> QED
        BY <2>1, <2>2, <1>2, CapacityFacts
<1>7. Budget(k, fullAt[k])' = Capacity + Capacity * wipes[k] + x * Limit
    <2>1. CASE /\ wipes'[k] = wipes[k]
               /\ fullAt'[k] = bucket[k].lastRefill + Ttl
        <3>1. Budget(k, fullAt[k])' = Capacity * wipes[k] + (x + Ttl) * Limit
            BY <2>1, <1>2, <1>3, CapacityFacts DEF Budget
        <3>2. (x + Ttl) * Limit = x * Limit + Capacity
            <4> HIDE DEF x
            <4> QED BY <1>4, CapacityFacts
        <3>3. Capacity * wipes[k] \in Int /\ x * Limit \in Int
            BY <1>3, <1>4, CapacityFacts
        <3> HIDE DEF x
        <3> QED
            BY <3>1, <3>2, <3>3, CapacityFacts
    <2>2. CASE /\ wipes'[k] = wipes[k] + 1
               /\ fullAt'[k] = bucket[k].lastRefill
        <3>1. Budget(k, fullAt[k])' = Capacity * (wipes[k] + 1) + x * Limit
            BY <2>2 DEF Budget
        <3>2. Capacity * (wipes[k] + 1) = Capacity * wipes[k] + Capacity
            BY <1>3, CapacityFacts
        <3>3. Capacity * wipes[k] \in Int /\ x * Limit \in Int
            BY <1>3, <1>4, CapacityFacts
        <3> HIDE DEF x
        <3> QED
            BY <3>1, <3>2, <3>3, CapacityFacts
    <2> QED
        BY <2>1, <2>2
<1>8. fullAt'[k] <= winTo'[k] + Ttl
    BY <1>2, <1>3, <1>5, CapacityFacts
<1>9. ExpiredBudget(k)'
    BY <1>6, <1>7, <1>8 DEF ExpiredBudget
<1>10. LiveBudget(k)'
    BY DEF LiveBudget
<1> QED
    BY <1>3, <1>9, <1>10

LEMMA WindowStep ==
    TypeOK /\ TypeOK' /\ WindowInv /\ [WatchNext]_allVars => WindowInv'
<1> SUFFICES ASSUME TypeOK, TypeOK', WindowInv, [WatchNext]_allVars
             PROVE  WindowInv'
    OBVIOUS
<1>1. ASSUME NEW r \in Requests, WatchExecute(r) PROVE WindowInv'
    <2>0. cmd[r].key \in Keys /\ cmd[r].now \in Nat
        BY <1>1 DEF WatchExecute, Execute, TypeOK, Waiting, Cmd
    <2>1. PICK k \in Keys, now \in Nat : k = cmd[r].key /\ now = cmd[r].now
        BY <2>0
    <2>2. EvalBucket(r, k, now) /\ UNCHANGED <<winFrom, fullAt, wipes>>
        BY <1>1, <2>1 DEF WatchExecute, Execute
    <2>3. CASE reply'[r].allowed
        <3>1. NoteCharge(r, k, now)
            BY <1>1, <2>1, <2>3 DEF WatchExecute
        <3>2. Charge(k, now) /\ \A j \in Keys \ {k} : bucket'[j] = bucket[j]
            BY <2>1, <2>2, <2>3, ChargeEffect
        <3>3. winFrom' <= winTo'[k] /\ LiveBudget(k)' /\ ExpiredBudget(k)'
            BY <2>1, <2>2, <3>1, <3>2, ChargeKeepsBudget
        <3>4. \A j \in Keys \ {k} : KeyUntouched(j)
            BY <2>1, <2>2, <3>1, <3>2
               DEF NoteCharge, KeyUntouched, WindowInv, ObserverTypeOK
        <3>5. ObserverTypeOK'
            <4>1. reply'[r].remaining \in Nat
                BY DEF TypeOK, Reply
            <4>2. ClockOf(k) \in Nat
                BY <2>1 DEF ClockOf, TypeOK, WindowInv, ObserverTypeOK, Bucket
            <4> QED
                BY <2>1, <2>2, <3>1, <4>1, <4>2
                   DEF NoteCharge, WindowInv, ObserverTypeOK
        <3> QED
            BY <3>3, <3>4, <3>5, UntouchedKeepsBudget DEF WindowInv
    <2>4. CASE ~ reply'[r].allowed
        <3>1. NoteDenial(r, k, now)
            BY <1>1, <2>1, <2>4 DEF WatchExecute
        <3>2. UNCHANGED bucket
            BY <1>1, <2>4, DenyEffect DEF WatchExecute
        <3>3. \A j \in Keys : KeyUntouched(j)
            BY <2>2, <3>1, <3>2 DEF NoteDenial, KeyUntouched
        <3>4. ObserverTypeOK'
            <4>1. reply'[r].retryAfter \in Nat
                BY DEF TypeOK, Reply
            <4> QED
                BY <2>1, <2>2, <3>1, <4>1
                   DEF NoteDenial, WindowInv, ObserverTypeOK
        <3> QED
            BY <3>3, <3>4, UntouchedKeepsBudget DEF WindowInv
    <2> QED
        BY <2>3, <2>4
<1>2. ASSUME NEW k \in Keys, WatchExpire(k) PROVE WindowInv'
    <2>1. /\ bucket[k] # Absent /\ bucket'[k] = Absent
          /\ \A j \in Keys \ {k} : bucket'[j] = bucket[j]
        BY <1>2 DEF WatchExpire, Expire, TypeOK
    <2>2. bucket[k].lastRefill + Ttl \in Nat
        BY <2>1, CapacityFacts DEF TypeOK, Bucket
    <2>3. ObserverTypeOK'
        BY <1>2, <2>2 DEF WatchExpire, WindowInv, ObserverTypeOK
    <2>4. winFrom' <= winTo'[k] /\ LiveBudget(k)' /\ ExpiredBudget(k)'
        BY <1>2, <2>1, GoneKeepsBudget
           DEF WatchExpire, WindowInv, ObserverTypeOK
    <2>5. \A j \in Keys \ {k} : KeyUntouched(j)
        BY <1>2, <2>1 DEF WatchExpire, KeyUntouched, WindowInv, ObserverTypeOK
    <2> QED
        BY <2>3, <2>4, <2>5, UntouchedKeepsBudget DEF WindowInv
<1>3. CASE WatchCrash
    <2> DEFINE lost == {k \in Keys : bucket[k] # Absent /\ bucket'[k] = Absent}
    <2>1. \A k \in Keys : bucket'[k] = Absent \/ bucket'[k] = bucket[k]
        BY <1>3 DEF WatchCrash, RedisCrash
    <2>2. /\ wipes' = [k \in Keys |-> wipes[k] + (IF k \in lost THEN 1 ELSE 0)]
          /\ fullAt' = [k \in Keys |-> IF k \in lost THEN bucket[k].lastRefill
                                                    ELSE fullAt[k]]
          /\ promised' = [k \in Keys |-> IF k \in lost THEN -1
                                                      ELSE promised[k]]
          /\ winFrom' = winFrom /\ winTo' = winTo /\ charged' = charged
          /\ slip' = slip /\ owed' = owed
        BY <1>3, Zenon DEF WatchCrash
    <2>3. \A k \in lost : bucket[k].lastRefill \in Nat
        BY DEF TypeOK, Bucket
    <2>4. ObserverTypeOK'
        BY <2>2, <2>3 DEF WindowInv, ObserverTypeOK
    <2>5. ASSUME NEW k \in Keys
          PROVE  winFrom' <= winTo'[k] /\ LiveBudget(k)' /\ ExpiredBudget(k)'
        <3>1. CASE k \in lost
            <4>1. wipes'[k] = wipes[k] + 1 /\ fullAt'[k] = bucket[k].lastRefill
                BY <2>2, <3>1
            <4>2. bucket[k] # Absent /\ bucket'[k] = Absent
                BY <3>1
            <4>3. /\ winTo'[k] = winTo[k] /\ charged'[k] = charged[k]
                  /\ slip'[k] = slip[k] /\ winFrom' = winFrom
                BY <2>2
            <4> QED
                BY <4>1, <4>2, <4>3, GoneKeepsBudget
        <3>2. CASE k \notin lost
            <4>1. wipes'[k] = wipes[k] /\ fullAt'[k] = fullAt[k]
                BY <2>2, <3>2 DEF WindowInv, ObserverTypeOK
            <4>2. KeyUntouched(k)
                BY <2>1, <2>2, <3>2, <4>1 DEF KeyUntouched
            <4> QED
                BY <4>2, UntouchedKeepsBudget
        <3> QED
            BY <3>1, <3>2
    <2> QED
        BY <2>4, <2>5 DEF WindowInv
<1>4. CASE WatchOther \/ UNCHANGED allVars
    <2>1. UNCHANGED bucket /\ UNCHANGED observer
        BY <1>4 DEF WatchOther, Arrive, Answer, Tick, AdjustClock,
                    LoseConnection, ServerCrash, RedisRestart, allVars, vars
    <2>2. \A k \in Keys : KeyUntouched(k)
        BY <2>1 DEF observer, KeyUntouched
    <2>3. ObserverTypeOK'
        BY <2>1 DEF observer, WindowInv, ObserverTypeOK
    <2> QED
        BY <2>2, <2>3, UntouchedKeepsBudget DEF WindowInv
<1> QED
    BY <1>1, <1>2, <1>3, <1>4 DEF WatchNext

LEMMA WindowInvCorrect == WatchSpec => []WindowInv
BY WindowInit, WindowStep, WatchTypeCorrect, PTL DEF WatchSpec

(* The bound the guard's script gives in every deployment: instances that  *)
(* disagree about the time, connections that resend, a Redis that forgets. *)
(* An over-admission can only come from a clock turned back or a lost      *)
(* bucket, and is at most what these two hand out.                         *)
THEOREM WindowBoundCorrect == WatchSpec => []WindowBound
<1>1. TypeOK /\ WindowInv => WindowBound
    <2> SUFFICES ASSUME TypeOK, WindowInv, NEW k \in Keys
                 PROVE  charged[k] * Cost
                            <= Capacity * (1 + wipes[k])
                               + (winTo[k] - winFrom + slip[k]) * Limit
        BY DEF WindowBound
    <2> DEFINE clock == ClockOf(k)
               p == Capacity * wipes[k]
               y == winTo[k] - winFrom + slip[k]
    <2>1. /\ bucket[k] \in Bucket \union {Absent} /\ winFrom \in Nat
          /\ winTo[k] \in Nat /\ charged[k] \in Nat /\ slip[k] \in Nat
          /\ wipes[k] \in Nat /\ fullAt[k] \in Nat /\ winFrom <= winTo[k]
        BY DEF TypeOK, WindowInv, ObserverTypeOK
    <2>2. y \in Nat /\ p \in Nat
        BY <2>1, CapacityFacts
    <2>3. y * Limit \in Nat /\ Capacity * (1 + wipes[k]) = Capacity + p
        BY <2>1, <2>2, CapacityFacts
    <2>4. CASE charged[k] = 0
        <3>1. charged[k] * Cost = 0
            BY <2>4, CapacityFacts
        <3> HIDE DEF p, y
        <3> QED
            BY <2>2, <2>3, <3>1, CapacityFacts DEF y
    <2>5. CASE charged[k] > 0 /\ bucket[k] # Absent
        <3>1. /\ bucket[k].lastRefill \in Nat /\ bucket[k].tokens \in Nat
              /\ bucket[k].lastRefill <= winTo[k]
              /\ bucket[k].tokens + charged[k] * Cost
                     <= Capacity + Budget(k, bucket[k].lastRefill)
            BY <2>1, <2>5, CapacityFacts DEF WindowInv, LiveBudget, Bucket
        <3>2. (bucket[k].lastRefill - winFrom + slip[k]) * Limit <= y * Limit
            BY <2>1, <3>1, CapacityFacts, ProductMonotone
        <3>3. /\ charged[k] * Cost \in Int
              /\ (bucket[k].lastRefill - winFrom + slip[k]) * Limit \in Int
            BY <2>1, <3>1, CapacityFacts
        <3> HIDE DEF y, p
        <3> QED
            BY <2>2, <2>3, <3>1, <3>2, <3>3, CapacityFacts DEF Budget, y, p
    <2>6. CASE charged[k] > 0 /\ bucket[k] = Absent
        <3>1. fullAt[k] <= winTo[k] + Ttl
              /\ charged[k] * Cost <= Budget(k, fullAt[k])
            BY <2>6 DEF WindowInv, ExpiredBudget
        <3>2. (fullAt[k] - winFrom + slip[k]) * Limit <= (y + Ttl) * Limit
            BY <2>1, <3>1, CapacityFacts, ProductMonotone
        <3>3. (y + Ttl) * Limit = y * Limit + Capacity
            <4> HIDE DEF y
            <4> QED BY <2>2, CapacityFacts
        <3>4. /\ charged[k] * Cost \in Int
              /\ (fullAt[k] - winFrom + slip[k]) * Limit \in Int
            BY <2>1, CapacityFacts
        <3> HIDE DEF y, p
        <3> QED
            BY <2>2, <2>3, <3>1, <3>2, <3>3, <3>4, CapacityFacts
               DEF Budget, y, p
    <2> QED
        BY <2>1, <2>4, <2>5, <2>6
<1> QED
    BY <1>1, WindowInvCorrect, WatchTypeCorrect, PTL

-----------------------------------------------------------------------------
(* A caller that was told how many requests remain has the tokens.         *)
RemainingInv ==
    \A k \in Keys : bucket[k] # Absent => owed[k] * Cost <= bucket[k].tokens

(* One instance, a clock that is never stepped, an unbroken connection and *)
(* commands that wait no longer than a bucket outlives its refill, at a    *)
(* rate the script's lower bound leaves as it is.                          *)
OneSoundInstance ==
    /\ \A s, t \in Servers : s = t
    /\ Skew = 0 /\ MaxFaults = 0 /\ MaxLatency <= ExpirySlack
    /\ Limit * RateFloor >= Ttl

(* Stamps are executed in the order they were taken, soon after.           *)
Follows(r, q) == q \in ahead[r] /\ cmd[q].now <= cmd[r].now

StampsInOrder ==
    /\ \A r \in Requests : ahead[r] \subseteq {q \in Requests : Waiting(q)}
    /\ \A r \in Requests : Waiting(r) =>
          cmd[r].now = cmd[r].at /\ cmd[r].at <= time
    /\ \A r \in Requests : pc[r] = "sent" => time <= cmd[r].at + MaxLatency
    /\ \A r, q \in Requests :
          Waiting(r) /\ Waiting(q) /\ r # q => Follows(r, q) \/ Follows(q, r)

(* The clock of no bucket is ahead of a stamp that is still on its way,    *)
(* and a bucket that is not expired could not have refilled.               *)
ClockFits(k) ==
    /\ ClockOf(k) <= time
    /\ \A r \in Requests : pc[r] = "sent" => ClockOf(k) <= cmd[r].now
    /\ bucket[k] # Absent =>
          bucket[k].lastRefill + Ttl + ExpirySlack <= bucket[k].expiresAt

(* The second Retry-After named is the first in which the bucket, left     *)
(* alone, has a token.                                                     *)
Earned(k, now) == bucket[k].tokens + (now - bucket[k].lastRefill) * Limit

PromiseFits(k) ==
    promised[k] >= 0 =>
        /\ bucket[k] # Absent
        /\ Earned(k, promised[k] - 1) < Cost /\ Cost <= Earned(k, promised[k])

PromptInv ==
    /\ StampsInOrder
    /\ \A k \in Keys : ClockFits(k) /\ PromiseFits(k) /\ slip[k] = 0

(* Whole tokens of what is left, and seconds in which a units are earned.  *)
LEMMA WholeTokens ==
    ASSUME NEW a \in Nat, NEW b \in Nat \ {0} PROVE (a \div b) * b <= a
OBVIOUS

LEMMA CeilDivLeast ==
    ASSUME NEW a \in Nat \ {0}, NEW b \in Nat \ {0}
    PROVE  (CeilDiv(a, b) - 1) * b < a /\ a <= CeilDiv(a, b) * b
<1> DEFINE n == a + b - 1
           q == n \div b
<1>1. n \in Nat /\ q \in Nat
    OBVIOUS
<1>2. q * b <= n /\ n < q * b + b
    OBVIOUS
<1>3. (q - 1) * b = q * b - b /\ q * b \in Int
    BY <1>1
<1> HIDE DEF q
<1>4. (q - 1) * b < a /\ a <= q * b
    BY <1>2, <1>3
<1> QED
    BY <1>4 DEF CeilDiv, q

-----------------------------------------------------------------------------
(* The headers of a request that is let through tell what the bucket has.  *)
LEMMA ChargeTells ==
    ASSUME TypeOK, NEW r \in Requests, NEW k \in Keys, NEW now \in Nat,
           EvalBucket(r, k, now), reply'[r].allowed
    PROVE  reply'[r].remaining * Cost <= bucket'[k].tokens
<1>1. ~ Deny(r, k, now)
    BY DEF Deny, Return, TypeOK
<1>2. CASE Open(r, k, now)
    <2>1. reply'[r].remaining = Limit - 1 /\ bucket'[k].tokens = Capacity - Cost
        BY <1>2 DEF Open, Store, Return, TypeOK
    <2>2. (Limit - 1) * Cost = Capacity - Cost
        BY CapacityFacts DEF Cost
    <2> QED
        BY <2>1, <2>2, CapacityFacts
<1>3. CASE Take(r, k, now)
    <2> DEFINE left == Refilled(bucket[k], now) - Cost
    <2>1. /\ reply'[r].remaining = left \div Cost
          /\ bucket'[k].tokens = left
        BY <1>3 DEF Take, Store, Return, TypeOK
    <2>2. left \in Nat
        <3>1. bucket[k] \in Bucket /\ left >= 0
            BY <1>3 DEF Take, TypeOK
        <3> QED
            BY <3>1, RefilledType, CapacityFacts
    <2> HIDE DEF left
    <2> QED
        BY <2>1, <2>2, WholeTokens, CapacityFacts
<1> QED
    BY <1>1, <1>2, <1>3 DEF EvalBucket

(* What was told is left alone as long as nothing is taken.                *)
LEMMA RemainingStep ==
    TypeOK /\ WindowInv /\ RemainingInv /\ [WatchNext]_allVars => RemainingInv'
<1> SUFFICES ASSUME TypeOK, WindowInv, RemainingInv, [WatchNext]_allVars
             PROVE  RemainingInv'
    OBVIOUS
<1>1. owed \in [Keys -> Nat]
    BY DEF WindowInv, ObserverTypeOK
<1>2. ASSUME NEW r \in Requests, WatchExecute(r), reply'[r].allowed
      PROVE  RemainingInv'
    <2>1. PICK k \in Keys, now \in Nat : k = cmd[r].key /\ now = cmd[r].now
        BY <1>2 DEF WatchExecute, Execute, TypeOK, Waiting, Cmd
    <2>2. EvalBucket(r, k, now) /\ NoteCharge(r, k, now)
        BY <1>2, <2>1 DEF WatchExecute, Execute
    <2>3. owed' = [owed EXCEPT ![k] = reply'[r].remaining]
        BY <2>2 DEF NoteCharge
    <2>4. reply'[r].remaining * Cost <= bucket'[k].tokens
        BY <1>2, <2>2, ChargeTells
    <2>5. \A j \in Keys \ {k} : bucket'[j] = bucket[j]
        BY <1>2, <2>2, ChargeEffect
    <2> QED
        BY <1>1, <2>3, <2>4, <2>5 DEF RemainingInv
<1>3. ASSUME NEW r \in Requests, WatchExecute(r), ~ reply'[r].allowed
      PROVE  RemainingInv'
    BY <1>3, DenyEffect DEF WatchExecute, NoteDenial, RemainingInv
<1>4. ASSUME NEW k \in Keys, WatchExpire(k) PROVE RemainingInv'
    BY <1>4 DEF WatchExpire, Expire, RemainingInv, TypeOK
<1>5. CASE WatchCrash
    <2>1. \A k \in Keys : bucket'[k] = Absent \/ bucket'[k] = bucket[k]
        BY <1>5 DEF WatchCrash, RedisCrash
    <2>2. owed' = owed
        BY <1>5 DEF WatchCrash
    <2> QED
        BY <2>1, <2>2 DEF RemainingInv
<1>6. CASE WatchOther \/ UNCHANGED allVars
    <2>1. UNCHANGED bucket /\ UNCHANGED observer
        BY <1>6 DEF WatchOther, Arrive, Answer, Tick, AdjustClock,
                    LoseConnection, ServerCrash, RedisRestart, allVars, vars
    <2> QED
        BY <2>1 DEF observer, RemainingInv
<1> QED
    BY <1>2, <1>3, <1>4, <1>5, <1>6 DEF WatchNext

LEMMA RemainingInvCorrect == WatchSpec => []RemainingInv
<1>1. WatchInit => RemainingInv
    BY DEF WatchInit, Init, RemainingInv
<1> QED
    BY <1>1, RemainingStep, WindowInvCorrect, WatchTypeCorrect, PTL DEF WatchSpec

(* A caller told that n requests remain gets them before it is denied, in  *)
(* every deployment: a denial finds less than a token, so nothing was owed *)
(* (token-bucket.guard.ts, X-RateLimit-Remaining).                         *)
THEOREM RemainingHonouredCorrect == WatchSpec => RemainingHonoured
<1>1. TypeOK /\ WindowInv /\ RemainingInv /\ [WatchNext]_allVars =>
        [\A k \in Keys : promised'[k] # promised[k] /\ promised'[k] >= 0
                             => owed[k] = 0]_allVars
    <2> SUFFICES ASSUME TypeOK, WindowInv, RemainingInv, WatchNext,
                        NEW j \in Keys, promised'[j] # promised[j],
                        promised'[j] >= 0
                 PROVE  owed[j] = 0
        BY DEF allVars
    <2>1. /\ promised \in [Keys -> Int] /\ owed \in [Keys -> Nat]
        BY DEF WindowInv, ObserverTypeOK
    <2>2. ~ WatchCrash /\ ~ WatchOther /\ \A k \in Keys : ~ WatchExpire(k)
        BY <2>1 DEF WatchCrash, WatchOther, WatchExpire, observer
    <2>3. PICK r \in Requests : WatchExecute(r)
        BY <2>2 DEF WatchNext
    <2>4. PICK k \in Keys, now \in Nat : k = cmd[r].key /\ now = cmd[r].now
        BY <2>3 DEF WatchExecute, Execute, TypeOK, Waiting, Cmd
    <2>5. EvalBucket(r, k, now)
        BY <2>3, <2>4 DEF WatchExecute, Execute
    <2>6. ~ reply'[r].allowed /\ j = k
        BY <2>1, <2>3, <2>4 DEF WatchExecute, NoteCharge, NoteDenial
    <2>7. Deny(r, k, now)
        BY <2>5, <2>6 DEF EvalBucket, Open, Take, Return, TypeOK
    <2>8. /\ bucket[k] \in Bucket /\ bucket[k] # Absent
          /\ Refilled(bucket[k], now) < Cost
        BY <2>7 DEF Deny, TypeOK
    <2>9. bucket[k].tokens < Cost
        <3>1. /\ bucket[k].tokens <= Refilled(bucket[k], now)
              /\ Refilled(bucket[k], now) \in 0 .. Capacity
            BY <2>8, RefilledKeeps, RefilledType
        <3>2. bucket[k].tokens \in 0 .. Capacity
            BY <2>8 DEF Bucket
        <3> QED
            BY <2>8, <3>1, <3>2, CapacityFacts
    <2>10. owed[k] * Cost <= bucket[k].tokens
        BY <2>8 DEF RemainingInv
    <2>11. owed[k] \in Nat /\ bucket[k].tokens \in Nat
        BY <2>1, <2>8, CapacityFacts DEF Bucket
    <2>12. owed[k] >= 1 => 1 * Cost <= owed[k] * Cost
        BY <2>11, CapacityFacts, ProductMonotone
    <2> QED
        BY <2>6, <2>9, <2>10, <2>11, <2>12, CapacityFacts
<1> QED
    BY <1>1, RemainingInvCorrect, WindowInvCorrect, WatchTypeCorrect, PTL
       DEF WatchSpec, RemainingHonoured

-----------------------------------------------------------------------------
(* The one sound instance.  Nothing breaks, and its clock is Redis's.      *)
LEMMA SoundSteps ==
    ASSUME OneSoundInstance, TypeOK, WatchNext
    PROVE  \/ \E r \in Requests : WatchExecute(r)
           \/ \E k \in Keys : WatchExpire(k)
           \/ /\ UNCHANGED observer
              /\ \/ \E r \in Requests, s \in Servers : Arrive(r, s)
                 \/ \E r \in Requests : Answer(r)
                 \/ Tick \/ RedisRestart
<1>1. ~ faults < MaxFaults
    BY ThrottleAssumption DEF OneSoundInstance, TypeOK
<1>2. \A s \in Servers : ~ AdjustClock(s)
    BY DEF OneSoundInstance, TypeOK, AdjustClock
<1>3. ~ WatchCrash /\ \A s \in Servers : ~ LoseConnection(s) /\ ~ ServerCrash(s)
    BY <1>1 DEF WatchCrash, RedisCrash, LoseConnection, ServerCrash
<1> QED
    BY <1>2, <1>3, Zenon DEF WatchNext, WatchOther

(* A bucket outlives its refill by the slack.                              *)
LEMMA LifetimeCoversRefill ==
    ASSUME OneSoundInstance PROVE Ttl + ExpirySlack <= Lifetime
<1> DEFINE c == CeilDiv(Capacity, Limit)
<1>1. Capacity \in Nat \ {0}
    BY CapacityFacts
<1>2. c \in Nat /\ Capacity <= c * Limit
    BY <1>1, CeilDivType, CeilDivLeast, CapacityFacts
<1>3. Lifetime = c + ExpirySlack
    BY DEF Lifetime, SecondsToEarn, OneSoundInstance
<1> HIDE DEF c
<1>4. c <= Ttl - 1 => c * Limit <= (Ttl - 1) * Limit
    BY <1>2, CapacityFacts, ProductMonotone
<1>5. (Ttl - 1) * Limit = Capacity - Limit
    BY CapacityFacts
<1> QED
    BY <1>2, <1>3, <1>4, <1>5, CapacityFacts, ThrottleAssumption

(* Stamps: requests queue behind what waits, and are answered in order.    *)
LEMMA ArriveInOrder ==
    ASSUME OneSoundInstance, TypeOK, StampsInOrder,
           NEW r \in Requests, NEW s \in Servers, Arrive(r, s)
    PROVE  StampsInOrder'
<1>1. /\ ~ Waiting(r) /\ pc' = [pc EXCEPT ![r] = "sent"] /\ time' = time
      /\ ahead' = [ahead EXCEPT
                      ![r] = {q \in Requests : Waiting(q) /\ cmd[q].via = s}]
    BY DEF Arrive
<1>2. PICK c : /\ cmd' = [cmd EXCEPT ![r] = c]
               /\ c.now = time + offset[s] /\ c.at = time /\ c.via = s
    <2>1. PICK key : cmd' = [cmd EXCEPT ![r] = [key |-> key,
                                                now |-> time + offset[s],
                                                via |-> s, at |-> time]]
        BY DEF Arrive
    <2>2. LET c == [key |-> key, now |-> time + offset[s], via |-> s, at |-> time]
          IN  c.now = time + offset[s] /\ c.at = time /\ c.via = s
        OBVIOUS
    <2> QED
        BY <2>1, <2>2
<1>3. offset[s] = 0 /\ time \in Nat /\ MaxLatency \in Nat
    BY ThrottleAssumption DEF OneSoundInstance, TypeOK
<1>4. /\ \A q \in Requests : Waiting(q)' <=> Waiting(q) \/ q = r
      /\ \A q \in Requests \ {r} : pc'[q] = pc[q]
    BY <1>1 DEF Waiting, TypeOK
<1>5. /\ \A q \in Requests \ {r} : cmd'[q] = cmd[q] /\ ahead'[q] = ahead[q]
      /\ cmd'[r] = c
    BY <1>1, <1>2 DEF TypeOK
<1>6. ahead'[r] = {q \in Requests : Waiting(q)}
    <2>1. \A q \in Requests : Waiting(q) => cmd[q].via \in Servers
        BY DEF TypeOK, Cmd
    <2> QED
        BY <1>1, <2>1 DEF OneSoundInstance, TypeOK
<1>7. \A q \in Requests : ahead'[q] \subseteq {p \in Requests : Waiting(p)'}
    BY <1>4, <1>5, <1>6 DEF StampsInOrder
<1>8. c.now = c.at /\ c.at <= time /\ time <= c.at + MaxLatency
    BY <1>2, <1>3
<1>9. \A q \in Requests : Waiting(q)' =>
          cmd'[q].now = cmd'[q].at /\ cmd'[q].at <= time'
    BY <1>1, <1>4, <1>5, <1>8 DEF StampsInOrder
<1>10. \A q \in Requests : pc'[q] = "sent" => time' <= cmd'[q].at + MaxLatency
    BY <1>1, <1>4, <1>5, <1>8 DEF StampsInOrder
<1>11. \A q \in Requests \ {r} : Waiting(q) => Follows(r, q)'
    <2> SUFFICES ASSUME NEW q \in Requests \ {r}, Waiting(q)
                 PROVE  q \in ahead'[r] /\ cmd'[q].now <= cmd'[r].now
        BY DEF Follows
    <2>1. cmd[q].now <= time
        BY DEF StampsInOrder
    <2> QED
        BY <1>2, <1>3, <1>5, <1>6, <2>1
<1>12. \A p, q \in Requests \ {r} : Follows(p, q)' <=> Follows(p, q)
    BY <1>5 DEF Follows
<1>13. \A p, q \in Requests : Waiting(p)' /\ Waiting(q)' /\ p # q =>
           Follows(p, q)' \/ Follows(q, p)'
    BY <1>4, <1>11, <1>12 DEF StampsInOrder
<1> QED
    BY <1>7, <1>9, <1>10, <1>13 DEF StampsInOrder

LEMMA AnswerInOrder ==
    ASSUME TypeOK, StampsInOrder, NEW r \in Requests, Answer(r)
    PROVE  StampsInOrder'
<1>1. /\ time' = time /\ pc'[r] \in {"passed", "throttled"}
      /\ \A q \in Requests \ {r} : pc'[q] = pc[q]
    BY DEF Answer, TypeOK
<1>2. \A q \in Requests \ {r} : cmd'[q] = cmd[q] /\ ahead'[q] = ahead[q] \ {r}
    BY DEF Answer, Forget
<1>3. ahead'[r] = {}
    BY DEF Answer, Forget
<1>4. \A q \in Requests : Waiting(q)' <=> Waiting(q) /\ q # r
    BY <1>1 DEF Waiting
<1>5. \A q \in Requests : ahead'[q] \subseteq {p \in Requests : Waiting(p)'}
    BY <1>2, <1>3, <1>4 DEF StampsInOrder
<1>6. \A q \in Requests : Waiting(q)' =>
          cmd'[q].now = cmd'[q].at /\ cmd'[q].at <= time'
    BY <1>1, <1>2, <1>4 DEF StampsInOrder
<1>7. \A q \in Requests : pc'[q] = "sent" => time' <= cmd'[q].at + MaxLatency
    BY <1>1, <1>2 DEF StampsInOrder
<1>8. \A p, q \in Requests \ {r} : Follows(p, q) => Follows(p, q)'
    BY <1>2 DEF Follows
<1>9. \A p, q \in Requests : Waiting(p)' /\ Waiting(q)' /\ p # q =>
          Follows(p, q)' \/ Follows(q, p)'
    BY <1>4, <1>8 DEF StampsInOrder
<1> QED
    BY <1>5, <1>6, <1>7, <1>9 DEF StampsInOrder

(* Executing a command leaves the queue as it is; every command executed   *)
(* after it carries a stamp that is no earlier.                            *)
LEMMA ExecuteInOrder ==
    ASSUME TypeOK, StampsInOrder, NEW r \in Requests, Execute(r)
    PROVE  /\ StampsInOrder'
           /\ cmd[r].now <= time
           /\ \A q \in Requests : pc'[q] = "sent" => cmd[r].now <= cmd[q].now
<1>1. /\ UNCHANGED <<time, cmd, ahead>> /\ pc[r] = "sent"
      /\ pc' = [pc EXCEPT ![r] = "executed"]
      /\ \A q \in ahead[r] : pc[q] = "executed"
    BY DEF Execute
<1>2. /\ \A q \in Requests \ {r} : pc'[q] = pc[q]
      /\ pc'[r] = "executed"
      /\ \A q \in Requests : Waiting(q)' <=> Waiting(q)
    BY <1>1 DEF Waiting, TypeOK
<1>3. StampsInOrder'
    BY <1>1, <1>2 DEF StampsInOrder, Follows
<1>4. ASSUME NEW q \in Requests, pc'[q] = "sent"
      PROVE  cmd[r].now <= cmd[q].now
    <2>1. q # r /\ pc[q] = "sent" /\ Waiting(q) /\ Waiting(r)
        BY <1>1, <1>2, <1>4 DEF Waiting
    <2>2. q \notin ahead[r]
        BY <1>1, <2>1
    <2>3. Follows(r, q) \/ Follows(q, r)
        BY <2>1 DEF StampsInOrder
    <2> QED
        BY <2>2, <2>3 DEF Follows
<1>5. cmd[r].now <= time
    BY <1>1 DEF StampsInOrder, Waiting
<1> QED
    BY <1>3, <1>4, <1>5

LEMMA TickInOrder == ASSUME TypeOK, StampsInOrder, Tick PROVE StampsInOrder'
<1>1. /\ UNCHANGED <<pc, cmd, ahead>> /\ time' = time + 1
      /\ \A r \in Requests : pc[r] = "sent" => time - cmd[r].at < MaxLatency
    BY DEF Tick
<1>2. \A r \in Requests : Waiting(r)' <=> Waiting(r)
    BY <1>1 DEF Waiting
<1>3. \A r \in Requests : Waiting(r) => cmd[r].at \in Nat
    BY DEF TypeOK, Cmd
<1>4. time \in Nat /\ MaxLatency \in Nat
    BY ThrottleAssumption DEF TypeOK
<1>5. \A r \in Requests : Waiting(r) =>
          cmd[r].now = cmd[r].at /\ cmd[r].at <= time + 1
    BY <1>3, <1>4 DEF StampsInOrder
<1>6. \A r \in Requests : pc[r] = "sent" => time + 1 <= cmd[r].at + MaxLatency
    BY <1>1, <1>3, <1>4 DEF Waiting
<1> QED
    BY <1>1, <1>2, <1>5, <1>6 DEF StampsInOrder, Follows

-----------------------------------------------------------------------------
(* Retry-After.  A denial names the first second with a token, whatever    *)
(* was refilled by then.                                                   *)
LEMMA FirstSecond ==
    ASSUME NEW t \in Nat, NEW last \in Nat, NEW now \in Nat, NEW d \in Nat,
           NEW p, p = now + d, last <= now, t + (now - last) * Limit < Cost,
           d = CeilDiv(Cost - (t + (now - last) * Limit), Limit)
    PROVE  t + (p - 1 - last) * Limit < Cost /\ Cost <= t + (p - last) * Limit
<1> DEFINE e == now - last
           x == e * Limit
<1>1. e \in Nat /\ x \in Nat
    BY CapacityFacts
<1> HIDE DEF x
<1>2. t + x < Cost /\ d = CeilDiv(Cost - (t + x), Limit)
    BY DEF x
<1>3. Cost - (t + x) \in Nat \ {0}
    BY <1>1, <1>2, CapacityFacts
<1>4. (d - 1) * Limit < Cost - (t + x) /\ Cost - (t + x) <= d * Limit
    BY <1>2, <1>3, CeilDivLeast, CapacityFacts
<1>5. p - 1 - last = e + (d - 1) /\ p - last = e + d
    OBVIOUS
<1> HIDE DEF e
<1>6. /\ (e + (d - 1)) * Limit = x + (d - 1) * Limit
      /\ (e + d) * Limit = x + d * Limit
      /\ (d - 1) * Limit \in Int /\ d * Limit \in Int
    BY <1>1, CapacityFacts DEF x
<1>7. /\ t + (x + (d - 1) * Limit) < Cost
      /\ Cost <= t + (x + d * Limit)
    BY <1>1, <1>4, <1>6, CapacityFacts
<1>8. t + (e + (d - 1)) * Limit < Cost /\ Cost <= t + (e + d) * Limit
    BY <1>6, <1>7, Zenon
<1> QED
    BY <1>5, <1>8, Zenon

(* A request that is no earlier than the bucket's clock is let through     *)
(* exactly from that second on.                                            *)
LEMMA LetThroughOnceEarned ==
    ASSUME NEW t \in Nat, NEW last \in Nat, NEW now \in Nat, NEW p \in Int,
           last <= now, t + (p - 1 - last) * Limit < Cost,
           Cost <= t + (p - last) * Limit
    PROVE  t + (now - last) * Limit < Cost <=> now < p
<1>1. now <= p - 1 => (now - last) * Limit <= (p - 1 - last) * Limit
    BY CapacityFacts, ProductMonotone
<1>2. p <= now => (p - last) * Limit <= (now - last) * Limit
    BY CapacityFacts, ProductMonotone
<1>3. /\ (now - last) * Limit \in Int /\ (p - 1 - last) * Limit \in Int
      /\ (p - last) * Limit \in Int
    BY CapacityFacts
<1> QED
    BY <1>1, <1>2, <1>3, CapacityFacts

(* How the script decides, for a stamp no earlier than the bucket's clock. *)
LEMMA DecidesByEarned ==
    ASSUME TypeOK, NEW r \in Requests, NEW k \in Keys, NEW now \in Nat,
           EvalBucket(r, k, now), bucket[k] # Absent,
           bucket[k].lastRefill <= now
    PROVE  ~ reply'[r].allowed <=> Earned(k, now) < Cost
<1>1. bucket[k] \in Bucket
    BY DEF TypeOK
<1>2. Elapsed(bucket[k], now) = now - bucket[k].lastRefill
    BY <1>1 DEF Elapsed, Bucket
<1>3. Refilled(bucket[k], now) < Cost <=> Earned(k, now) < Cost
    BY <1>1, <1>2, RefilledKeeps DEF Earned
<1>4. Deny(r, k, now) \/ Take(r, k, now)
    BY DEF EvalBucket, Open
<1>5. Refilled(bucket[k], now) \in Int /\ Cost \in Int
    BY <1>1, RefilledType, CapacityFacts
<1>6. CASE Deny(r, k, now)
    BY <1>3, <1>6 DEF Deny, Return, TypeOK
<1>7. CASE Take(r, k, now)
    <2>1. reply'[r].allowed
        BY <1>7 DEF Take, Return, TypeOK
    <2>2. Refilled(bucket[k], now) - Cost >= 0
        BY <1>7 DEF Take
    <2> QED
        BY <1>3, <1>5, <2>1, <2>2
<1> QED
    BY <1>4, <1>6, <1>7

LEMMA DenialNamesFirstSecond ==
    ASSUME OneSoundInstance, TypeOK, NEW r \in Requests, NEW k \in Keys,
           NEW now \in Nat, EvalBucket(r, k, now), ~ reply'[r].allowed,
           ClockOf(k) <= now, NEW p, p = now + reply'[r].retryAfter
    PROVE  /\ bucket[k] # Absent
           /\ Earned(k, p - 1) < Cost /\ Cost <= Earned(k, p)
<1>1. Deny(r, k, now)
    BY DEF EvalBucket, Open, Take, Return, TypeOK
<1>2. bucket[k] # Absent /\ bucket[k] \in Bucket
    BY <1>1 DEF Deny, TypeOK
<1> DEFINE t == bucket[k].tokens
           last == bucket[k].lastRefill
           d == reply'[r].retryAfter
<1>3. last <= now
    BY <1>2 DEF ClockOf
<1>4. t \in Nat /\ last \in Nat
    BY <1>2, CapacityFacts DEF Bucket
<1>5. Elapsed(bucket[k], now) = now - last
    BY <1>2, <1>3 DEF Elapsed, Bucket
<1>6. Refilled(bucket[k], now) < Cost
    BY <1>1 DEF Deny
<1>7. Refilled(bucket[k], now) = t + (now - last) * Limit
    BY <1>2, <1>5, <1>6, RefilledKeeps
<1>8. d = CeilDiv(Cost - (t + (now - last) * Limit), Limit)
    <2>1. d = SecondsToEarn(Cost - Refilled(bucket[k], now))
        BY <1>1 DEF Deny, Return, TypeOK
    <2> QED
        BY <1>7, <2>1 DEF SecondsToEarn, OneSoundInstance
<1>9. d \in Nat /\ p = now + d
    BY EvalBucketType DEF Reply
<1>10. t + (now - last) * Limit < Cost
    BY <1>6, <1>7
<1> HIDE DEF t, last, d
<1>11. t + (p - 1 - last) * Limit < Cost /\ Cost <= t + (p - last) * Limit
    BY <1>3, <1>4, <1>8, <1>9, <1>10, FirstSecond
<1> QED
    BY <1>2, <1>11, Zenon DEF Earned, t, last

-----------------------------------------------------------------------------
(* What each step does to the bucket's clock, its slip and the promise.    *)
Settled(k) == ClockFits(k) /\ PromiseFits(k) /\ slip[k] = 0

LEMMA ChargeStores ==
    ASSUME TypeOK, NEW r \in Requests, NEW k \in Keys, NEW now \in Nat,
           EvalBucket(r, k, now), reply'[r].allowed
    PROVE  bucket'[k].expiresAt = time + Lifetime /\ bucket'[k].lastRefill = now
<1>1. ~ Deny(r, k, now)
    BY DEF Deny, Return, TypeOK
<1>2. PICK tokens : Store(k, tokens, now)
    BY <1>1 DEF EvalBucket, Open, Take
<1> QED
    BY <1>2 DEF Store, TypeOK

(* A bucket nothing happened to: the stamps still on their way are among   *)
(* those that were, or new ones.                                           *)
LEMMA UntouchedSettled ==
    ASSUME TypeOK, WindowInv, NEW k \in Keys, Settled(k),
           bucket'[k] = bucket[k], fullAt'[k] = fullAt[k],
           promised'[k] = promised[k], slip'[k] = slip[k],
           time' \in Nat, time <= time',
           \A q \in Requests : pc'[q] = "sent" =>
               \/ pc[q] = "sent" /\ cmd'[q] = cmd[q]
               \/ time <= cmd'[q].now /\ cmd'[q].now \in Nat
    PROVE  Settled(k)'
<1>1. ClockOf(k)' = ClockOf(k)
    BY DEF ClockOf
<1>2. ClockOf(k) \in Nat /\ time \in Nat
    BY DEF ClockOf, TypeOK, WindowInv, ObserverTypeOK, Bucket
<1>3. ClockFits(k)'
    BY <1>1, <1>2 DEF Settled, ClockFits
<1>4. PromiseFits(k)'
    BY DEF Settled, PromiseFits, Earned
<1> QED
    BY <1>3, <1>4 DEF Settled

LEMMA ExecuteSettles ==
    ASSUME OneSoundInstance, TypeOK, WindowInv, PromptInv,
           NEW r \in Requests, WatchExecute(r), NEW j \in Keys
    PROVE  Settled(j)'
<1>1. PICK k \in Keys, now \in Nat : k = cmd[r].key /\ now = cmd[r].now
    BY DEF WatchExecute, Execute, TypeOK, Waiting, Cmd
<1>2. EvalBucket(r, k, now)
    BY <1>1 DEF WatchExecute, Execute
<1>3. /\ now <= time /\ time' = time /\ cmd' = cmd /\ fullAt' = fullAt
      /\ \A q \in Requests : pc'[q] = "sent" => now <= cmd[q].now
      /\ \A q \in Requests : pc'[q] = "sent" => pc[q] = "sent"
    BY <1>1, ExecuteInOrder DEF WatchExecute, Execute, PromptInv, TypeOK
<1>4. ClockOf(k) <= now /\ ClockOf(k) \in Nat /\ slip[k] = 0
    BY <1>1 DEF WatchExecute, Execute, PromptInv, ClockFits, ClockOf, TypeOK,
                WindowInv, ObserverTypeOK, Bucket
<1>5. Settled(j) /\ time \in Nat
    BY DEF PromptInv, Settled, TypeOK
<1>6. CASE reply'[r].allowed
    <2>1. NoteCharge(r, k, now)
        BY <1>1, <1>6 DEF WatchExecute
    <2>2. /\ \A i \in Keys \ {k} : bucket'[i] = bucket[i]
          /\ bucket'[k] \in Bucket
        BY <1>2, <1>6, ChargeEffect DEF Charge
    <2>3. bucket'[k].expiresAt = time + Lifetime /\ bucket'[k].lastRefill = now
        BY <1>2, <1>6, ChargeStores
    <2>4. /\ promised' = [promised EXCEPT ![k] = -1]
          /\ slip' = [slip EXCEPT ![k] =
                         @ + (IF now < ClockOf(k) THEN ClockOf(k) - now ELSE 0)]
        BY <2>1 DEF NoteCharge
    <2>5. CASE j = k
        <3>1. slip'[k] = 0 /\ promised'[k] = -1
            BY <1>4, <2>4 DEF WindowInv, ObserverTypeOK
        <3>2. ClockOf(k)' = now
            BY <2>2, <2>3, AbsentIsNoBucket DEF ClockOf
        <3>3. now + Ttl + ExpirySlack <= time + Lifetime
            BY <1>3, <1>5, LifetimeCoversRefill, LifetimeType,
               ThrottleAssumption
        <3>4. ClockFits(k)'
            BY <1>3, <2>3, <3>2, <3>3 DEF ClockFits
        <3>5. PromiseFits(k)'
            BY <3>1 DEF PromiseFits
        <3> QED
            BY <2>5, <3>1, <3>4, <3>5 DEF Settled
    <2>6. CASE j # k
        <3>1. slip'[j] = slip[j] /\ promised'[j] = promised[j]
            BY <2>4, <2>6 DEF WindowInv, ObserverTypeOK
        <3> QED
            BY <1>3, <1>5, <2>2, <2>6, <3>1, UntouchedSettled
    <2> QED
        BY <2>5, <2>6
<1>7. CASE ~ reply'[r].allowed
    <2>1. /\ promised' = [promised EXCEPT ![k] = now + reply'[r].retryAfter]
          /\ slip' = slip /\ bucket' = bucket
        BY <1>1, <1>7, DenyEffect DEF WatchExecute, NoteDenial
    <2>2. CASE j = k
        <3> DEFINE p == now + reply'[r].retryAfter
        <3>1. promised'[k] = p /\ bucket'[k] = bucket[k]
            BY <2>1 DEF WindowInv, ObserverTypeOK
        <3>2. /\ bucket[k] # Absent
              /\ Earned(k, p - 1) < Cost /\ Cost <= Earned(k, p)
            BY <1>2, <1>4, <1>7, DenialNamesFirstSecond
        <3> HIDE DEF p
        <3>3. PromiseFits(k)'
            BY <3>1, <3>2, Zenon DEF PromiseFits, Earned
        <3>4. ClockFits(k)'
            BY <1>3, <1>5, <2>1, <2>2 DEF Settled, ClockFits, ClockOf
        <3> QED
            BY <1>4, <2>1, <2>2, <3>3, <3>4 DEF Settled
    <2>3. CASE j # k
        <3>1. promised'[j] = promised[j]
            BY <2>1, <2>3 DEF WindowInv, ObserverTypeOK
        <3> QED
            BY <1>3, <1>5, <2>1, <3>1, UntouchedSettled
    <2> QED
        BY <2>2, <2>3
<1> QED
    BY <1>6, <1>7

LEMMA ExpireSettles ==
    ASSUME OneSoundInstance, TypeOK, WindowInv, PromptInv,
           NEW k \in Keys, WatchExpire(k), NEW j \in Keys
    PROVE  Settled(j)'
<1>1. /\ bucket[k] # Absent /\ time >= bucket[k].expiresAt
      /\ bucket' = [bucket EXCEPT ![k] = Absent]
      /\ UNCHANGED <<time, pc, cmd, slip>>
      /\ fullAt' = [fullAt EXCEPT ![k] = bucket[k].lastRefill + Ttl]
      /\ promised' = [promised EXCEPT ![k] = -1]
    BY DEF WatchExpire, Expire
<1>2. Settled(j) /\ time \in Nat
    BY DEF PromptInv, Settled, TypeOK
<1>3. CASE j = k
    <2>1. /\ bucket'[k] = Absent /\ promised'[k] = -1
          /\ fullAt'[k] = bucket[k].lastRefill + Ttl
        BY <1>1 DEF TypeOK, WindowInv, ObserverTypeOK
    <2>2. /\ bucket[k].lastRefill \in Nat /\ bucket[k].expiresAt \in Nat
          /\ Ttl \in Nat /\ ExpirySlack \in Nat /\ MaxLatency \in Nat
          /\ MaxLatency <= ExpirySlack
        BY <1>1, ThrottleAssumption DEF TypeOK, Bucket, OneSoundInstance
    <2>3. bucket[k].lastRefill + Ttl + ExpirySlack <= bucket[k].expiresAt
        BY <1>1, <1>2, <1>3 DEF Settled, ClockFits
    <2>4. bucket[k].lastRefill + Ttl + ExpirySlack <= time
        BY <1>1, <1>2, <2>2, <2>3
    <2>5. ASSUME NEW q \in Requests, pc[q] = "sent"
          PROVE  bucket[k].lastRefill + Ttl <= cmd[q].now
        <3>1. cmd[q].now = cmd[q].at /\ time <= cmd[q].at + MaxLatency
            BY <2>5 DEF PromptInv, StampsInOrder, Waiting
        <3>2. cmd[q].at \in Nat
            BY <2>5 DEF TypeOK, Waiting, Cmd
        <3> QED
            BY <1>2, <2>2, <2>4, <3>1, <3>2
    <2>6. ClockOf(k)' = bucket[k].lastRefill + Ttl
        BY <2>1 DEF ClockOf
    <2>7. ClockFits(k)'
        BY <1>1, <1>2, <2>1, <2>2, <2>4, <2>5, <2>6 DEF ClockFits
    <2> QED
        BY <1>1, <1>2, <1>3, <2>1, <2>7 DEF Settled, PromiseFits
<1>4. CASE j # k
    <2>1. /\ bucket'[j] = bucket[j] /\ fullAt'[j] = fullAt[j]
          /\ promised'[j] = promised[j]
        BY <1>1, <1>4 DEF TypeOK, WindowInv, ObserverTypeOK
    <2> QED
        BY <1>1, <1>2, <2>1, UntouchedSettled
<1> QED
    BY <1>3, <1>4

LEMMA PromptStep ==
    OneSoundInstance /\ TypeOK /\ TypeOK' /\ WindowInv /\ PromptInv
      /\ [WatchNext]_allVars => PromptInv'
<1> SUFFICES ASSUME OneSoundInstance, TypeOK, TypeOK', WindowInv, PromptInv,
                    [WatchNext]_allVars
             PROVE  PromptInv'
    OBVIOUS
<1>1. StampsInOrder /\ \A k \in Keys : Settled(k)
    BY DEF PromptInv, Settled
<1>2. StampsInOrder' /\ (\A k \in Keys : Settled(k)') => PromptInv'
    BY DEF PromptInv, Settled
<1>3. ASSUME NEW r \in Requests, WatchExecute(r) PROVE PromptInv'
    <2>1. StampsInOrder'
        BY <1>1, <1>3, ExecuteInOrder DEF WatchExecute
    <2>2. \A k \in Keys : Settled(k)'
        BY <1>3, ExecuteSettles
    <2> QED
        BY <1>2, <2>1, <2>2
<1>4. ASSUME NEW k \in Keys, WatchExpire(k) PROVE PromptInv'
    <2>1. UNCHANGED <<pc, cmd, ahead, time>>
        BY <1>4 DEF WatchExpire, Expire
    <2>2. StampsInOrder'
        BY <1>1, <2>1 DEF StampsInOrder, Follows, Waiting
    <2>3. \A i \in Keys : Settled(i)'
        BY <1>4, ExpireSettles
    <2> QED
        BY <1>2, <2>2, <2>3
<1>5. ASSUME UNCHANGED observer,
             \/ \E r \in Requests, s \in Servers : Arrive(r, s)
             \/ \E r \in Requests : Answer(r)
             \/ Tick \/ RedisRestart
      PROVE  PromptInv'
    <2>1. StampsInOrder'
        BY <1>1, <1>5, ArriveInOrder, AnswerInOrder, TickInOrder
           DEF RedisRestart, StampsInOrder, Follows, Waiting
    <2>2. /\ bucket' = bucket /\ time' \in {time, time + 1}
          /\ slip' = slip /\ fullAt' = fullAt /\ promised' = promised
        BY <1>5 DEF Arrive, Answer, Tick, RedisRestart, observer
    <2>3. time \in Nat /\ time' \in Nat /\ time <= time'
        BY <2>2 DEF TypeOK
    <2>4. \A q \in Requests : pc'[q] = "sent" =>
              \/ pc[q] = "sent" /\ cmd'[q] = cmd[q]
              \/ time <= cmd'[q].now /\ cmd'[q].now \in Nat
        <3>1. ASSUME NEW r \in Requests, NEW s \in Servers, Arrive(r, s),
                     NEW q \in Requests, pc'[q] = "sent"
              PROVE  \/ pc[q] = "sent" /\ cmd'[q] = cmd[q]
                     \/ time <= cmd'[q].now /\ cmd'[q].now \in Nat
            <4>1. q # r => pc[q] = "sent" /\ cmd'[q] = cmd[q]
                BY <3>1 DEF Arrive, TypeOK
            <4>2. cmd'[r].now = time + offset[s] /\ offset[s] \in Nat
                BY <3>1, ThrottleAssumption DEF Arrive, TypeOK
            <4> QED
                BY <2>3, <4>1, <4>2
        <3>2. ASSUME NEW r \in Requests, Answer(r),
                     NEW q \in Requests, pc'[q] = "sent"
              PROVE  pc[q] = "sent" /\ cmd'[q] = cmd[q]
            BY <3>2 DEF Answer, Forget, TypeOK
        <3>3. Tick \/ RedisRestart => UNCHANGED <<pc, cmd>>
            BY DEF Tick, RedisRestart
        <3> QED
            BY <1>5, <3>1, <3>2, <3>3
    <2>5. \A k \in Keys : Settled(k)'
        BY <1>1, <2>2, <2>3, <2>4, UntouchedSettled
    <2> QED
        BY <1>2, <2>1, <2>5
<1>6. CASE UNCHANGED allVars
    BY <1>1, <1>6 DEF allVars, vars, observer, PromptInv, StampsInOrder, Follows,
       Waiting, ClockFits, ClockOf, PromiseFits, Earned
<1> QED
    BY <1>3, <1>4, <1>5, <1>6, SoundSteps

LEMMA PromptInvCorrect == ASSUME OneSoundInstance PROVE WatchSpec => []PromptInv
<1>1. WatchInit => PromptInv
    BY DEF WatchInit, Init, ObserverInit, PromptInv, StampsInOrder, Waiting,
       ClockFits, ClockOf, PromiseFits
<1> QED
    BY <1>1, PromptStep, WindowInvCorrect, WatchTypeCorrect, PTL DEF WatchSpec

(* With one sound instance the bucket's clock never goes back: neither the *)
(* order of execution nor an expiry hands out refill twice                 *)
(* (token-bucket.guard.ts, evalBucket and its EXPIRE).                     *)
THEOREM NoSlipCorrect == ASSUME OneSoundInstance PROVE WatchSpec => []NoSlip
<1>1. PromptInv => NoSlip
    BY DEF PromptInv, NoSlip
<1> QED
    BY <1>1, PromptInvCorrect, PTL

(* With one sound instance the second Retry-After names is the first in    *)
(* which a bucket left alone lets a request through                        *)
(* (token-bucket.guard.ts, retry_after).                                   *)
THEOREM RetryAfterExactCorrect ==
    ASSUME OneSoundInstance PROVE WatchSpec => RetryAfterExact
<1>1. TypeOK /\ WindowInv /\ PromptInv /\ [WatchNext]_allVars =>
        [\A r \in Requests :
            LET p == promised[cmd[r].key]
            IN  pc[r] = "sent" /\ pc'[r] = "executed" /\ p >= 0
                    => (reply'[r].allowed <=> cmd[r].now >= p)]_allVars
    <2> SUFFICES ASSUME TypeOK, WindowInv, PromptInv, WatchNext,
                        NEW r \in Requests, pc[r] = "sent", pc'[r] = "executed",
                        promised[cmd[r].key] >= 0
                 PROVE  reply'[r].allowed <=> cmd[r].now >= promised[cmd[r].key]
        BY DEF allVars
    <2>1. WatchExecute(r)
        <3>1. ASSUME NEW q \in Requests, WatchExecute(q) PROVE q = r
            BY <3>1 DEF WatchExecute, Execute, TypeOK
        <3>2. \A q \in Requests, s \in Servers : ~ Arrive(q, s)
            BY DEF Arrive, TypeOK
        <3>3. \A q \in Requests : ~ Answer(q)
            BY DEF Answer, TypeOK
        <3>4. /\ ~ WatchCrash /\ ~ Tick /\ ~ RedisRestart
              /\ \A k \in Keys : ~ WatchExpire(k)
            BY DEF WatchCrash, RedisCrash, Resend, Tick, RedisRestart,
                   WatchExpire, Expire
        <3>5. \A s \in Servers :
                 ~ AdjustClock(s) /\ ~ LoseConnection(s) /\ ~ ServerCrash(s)
            BY DEF AdjustClock, LoseConnection, Resend, ServerCrash
        <3> QED
            BY <3>1, <3>2, <3>3, <3>4, <3>5, Zenon DEF WatchNext, WatchOther
    <2>2. PICK k \in Keys, now \in Nat : k = cmd[r].key /\ now = cmd[r].now
        BY <2>1 DEF WatchExecute, Execute, TypeOK, Waiting, Cmd
    <2>3. EvalBucket(r, k, now)
        BY <2>1, <2>2 DEF WatchExecute, Execute
    <2>4. /\ bucket[k] # Absent /\ Earned(k, promised[k] - 1) < Cost
          /\ Cost <= Earned(k, promised[k])
        BY <2>2 DEF PromptInv, PromiseFits
    <2>5. /\ bucket[k] \in Bucket /\ bucket[k].lastRefill <= now
          /\ promised[k] \in Int
        BY <2>2, <2>4
           DEF PromptInv, ClockFits, ClockOf, TypeOK, WindowInv, ObserverTypeOK
    <2>6. ~ reply'[r].allowed <=> Earned(k, now) < Cost
        BY <2>3, <2>4, <2>5, DecidesByEarned
    <2>7. bucket[k].tokens \in Nat /\ bucket[k].lastRefill \in Nat
        BY <2>5, CapacityFacts DEF Bucket
    <2>8. Earned(k, now) < Cost <=> now < promised[k]
        BY <2>4, <2>5, <2>7, LetThroughOnceEarned DEF Earned
    <2> QED
        BY <2>2, <2>5, <2>6, <2>8
<1> QED
    BY <1>1, PromptInvCorrect, WindowInvCorrect, WatchTypeCorrect, PTL
       DEF WatchSpec, RetryAfterExact
=============================================================================
