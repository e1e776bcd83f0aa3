---------------------------- MODULE TokenBucket ----------------------------
(***************************************************************************)
(* The HTTP rate limiter, packages/guards/token-bucket.guard.ts, with the  *)
(* part of ioredis and Redis it relies on.  Every request stamps its       *)
(* server's clock, sends the bucket script on the server's only Redis      *)
(* connection and waits for the reply; buckets are Redis hashes shared by  *)
(* all running instances.  One step of `time` is one second.               *)
(*                                                                         *)
(* A token is Ttl units, so that the refill rate Limit / Ttl tokens per    *)
(* second is Limit units per second and all of the script's arithmetic is  *)
(* exact in the integers.                                                  *)
(***************************************************************************)
EXTENDS Integers, FiniteSets

CONSTANTS
    Requests,     \* slots for concurrent HTTP requests
    Servers,      \* running instances of the service
    Users, Ips, Routes,   \* what a bucket key is made of
    NoUser, NoIp, \* request.user / request.ip is undefined
    Limit, Ttl,   \* ThrottleOptions: Limit tokens per Ttl seconds
    RateFloor,    \* 1 / 0.001: the script's lower bound on the rate
    ExpirySlack,  \* the "+ 10" seconds a bucket outlives its refill
    Skew,         \* bound: seconds a server's clock may be ahead
    MaxLatency,   \* bound: seconds a command may wait to be executed
    MaxTime,      \* bound: seconds a behaviour lasts
    MaxFaults     \* bound: crashes and lost connections in a behaviour

ASSUME ThrottleAssumption ==
    /\ Limit \in Nat \ {0} /\ Ttl \in Nat \ {0} /\ RateFloor \in Nat \ {0}
    /\ ExpirySlack \in Nat /\ Skew \in Nat /\ MaxLatency \in Nat
    /\ MaxTime \in Nat /\ MaxFaults \in Nat
    /\ NoUser \notin Users /\ NoIp \notin Ips

VARIABLES
    time,       \* real time, which is also Redis's clock
    offset,     \* offset[s]: how far Date.now() of server s is ahead
    redisUp,    \* Redis accepts connections
    bucket,     \* bucket[k]: the hash stored under key k, or Absent
    pc,         \* pc[r]: where request r stands in canActivate
    cmd,        \* cmd[r]: the command r sent
    ahead,      \* ahead[r]: requests before r on the same connection
    reply,      \* reply[r]: what the script returned, while unread
    faults      \* crashes and lost connections so far

vars == <<time, offset, redisUp, bucket, pc, cmd, ahead, reply, faults>>
-----------------------------------------------------------------------------
(* request.user?.id ?? request.ip ?? 'anonymous', per method and path *)
BuildKey(user, ip, route) ==
    <<IF user # NoUser THEN user ELSE IF ip # NoIp THEN ip ELSE "anonymous",
      route>>

Keys == {BuildKey(user, ip, route) :
            user \in Users \union {NoUser}, ip \in Ips \union {NoIp},
            route \in Routes}

Cost == Ttl
Capacity == Limit * Ttl

CeilDiv(a, b) == (a + b - 1) \div b

(* Faulty variant: the wait is rounded down. *)
SecondsRoundedDown(units) == units \div Limit

(* math.ceil(tokens / math.max(refillPerSecond, 0.001)) *)
SecondsToEarn(units) ==
    IF Limit * RateFloor >= Ttl THEN CeilDiv(units, Limit)
                                ELSE CeilDiv(units * RateFloor, Ttl)

(* Faulty variant: a bucket lives for the refill of one token. *)
LifetimeOfOneToken == SecondsToEarn(Cost) + ExpirySlack

Lifetime == SecondsToEarn(Capacity) + ExpirySlack

Absent == [tokens |-> -1, lastRefill |-> -1, expiresAt |-> -1]
Bucket == [tokens : 0 .. Capacity, lastRefill : Nat, expiresAt : Nat]

(* Faulty variant: time running backwards refills too. *)
ElapsedEitherWay(b, now) ==
    IF now > b.lastRefill THEN now - b.lastRefill ELSE b.lastRefill - now

Elapsed(b, now) == IF now > b.lastRefill THEN now - b.lastRefill ELSE 0

(* Faulty variant: the refill is not capped. *)
RefilledUncapped(b, now) == b.tokens + Elapsed(b, now) * Limit

Refilled(b, now) ==
    LET grown == b.tokens + Elapsed(b, now) * Limit
    IN  IF grown > Capacity THEN Capacity ELSE grown

Status == {"idle", "sent", "executed", "passed", "throttled"}
Waiting(r) == pc[r] \in {"sent", "executed"}
NoCmd == [key |-> <<>>, now |-> 0, via |-> <<>>, at |-> 0]
Cmd == [key : Keys, now : Nat, via : Servers, at : Nat]
NoReply == [allowed |-> FALSE, remaining |-> 0, retryAfter |-> 0]
Reply == [allowed : BOOLEAN, remaining : Nat, retryAfter : Nat]

(* Types; a bucket holds between none and all of its tokens, and whoever
   waits for Redis has a command there. *)
TypeOK ==
    /\ time \in 0 .. MaxTime
    /\ offset \in [Servers -> 0 .. Skew]
    /\ redisUp \in BOOLEAN
    /\ bucket \in [Keys -> Bucket \union {Absent}]
    /\ pc \in [Requests -> Status]
    /\ cmd \in [Requests -> Cmd \union {NoCmd}]
    /\ \A r \in Requests : Waiting(r) => cmd[r] \in Cmd
    /\ ahead \in [Requests -> SUBSET Requests]
    /\ reply \in [Requests -> Reply]
    /\ faults \in 0 .. MaxFaults
-----------------------------------------------------------------------------
Init ==
    /\ time = 0
    /\ offset \in [Servers -> 0 .. Skew]
    /\ redisUp = TRUE
    /\ bucket = [k \in Keys |-> Absent]
    /\ pc = [r \in Requests |-> "idle"]
    /\ cmd = [r \in Requests |-> NoCmd]
    /\ ahead = [r \in Requests |-> {}]
    /\ reply = [r \in Requests |-> NoReply]
    /\ faults = 0

(* canActivate up to its await: the clock is read and the script queued    *)
(* behind the server's earlier commands.                                   *)
Arrive(r, s) ==
    /\ ~Waiting(r)
    /\ \E user \in Users \union {NoUser}, ip \in Ips \union {NoIp},
          route \in Routes :
          cmd' = [cmd EXCEPT ![r] = [key |-> BuildKey(user, ip, route),
                                     now |-> time + offset[s],
                                     via |-> s, at |-> time]]
    /\ pc' = [pc EXCEPT ![r] = "sent"]
    /\ ahead' = [ahead EXCEPT
                    ![r] = {q \in Requests : Waiting(q) /\ cmd[q].via = s}]
    /\ UNCHANGED <<time, offset, redisUp, bucket, reply, faults>>

Store(k, tokens, now) ==
    bucket' = [bucket EXCEPT ![k] = [tokens |-> tokens, lastRefill |-> now,
                                     expiresAt |-> time + Lifetime]]

Return(r, allowed, remaining, retryAfter) ==
    reply' = [reply EXCEPT ![r] = [allowed |-> allowed,
                                   remaining |-> remaining,
                                   retryAfter |-> retryAfter]]

(* The script's three ways to end, for key k at stamp `now`. *)
(* Faulty variant: the opening request does not count as one. *)
OpenUncounted(r, k, now) ==
    /\ bucket[k] = Absent
    /\ Store(k, Capacity - Cost, now)
    /\ Return(r, TRUE, Limit, 0)

Open(r, k, now) ==
    /\ bucket[k] = Absent
    /\ Store(k, Capacity - Cost, now)
    /\ Return(r, TRUE, Limit - 1, 0)

Deny(r, k, now) ==
    LET tokens == Refilled(bucket[k], now)
    IN  /\ bucket[k] # Absent /\ tokens < Cost
        /\ Return(r, FALSE, 0, SecondsToEarn(Cost - tokens))
        /\ UNCHANGED bucket

(* Faulty variants: a token is taken on credit; a part of a token is       *)
(* reported as a whole one.                                                *)
TakeOnCredit(r, k, now) ==
    LET left == Refilled(bucket[k], now) - Cost
    IN  /\ bucket[k] # Absent /\ left + Cost >= 0
        /\ Store(k, left, now)
        /\ Return(r, TRUE, left \div Cost, 0)

TakeRoundedUp(r, k, now) ==
    LET left == Refilled(bucket[k], now) - Cost
    IN  /\ bucket[k] # Absent /\ left >= 0
        /\ Store(k, left, now)
        /\ Return(r, TRUE, CeilDiv(left, Cost), 0)

Take(r, k, now) ==
    LET left == Refilled(bucket[k], now) - Cost
    IN  /\ bucket[k] # Absent /\ left >= 0
        /\ Store(k, left, now)
        /\ Return(r, TRUE, left \div Cost, 0)

EvalBucket(r, k, now) ==
    Open(r, k, now) \/ Deny(r, k, now) \/ Take(r, k, now)

(* Redis executes a connection's commands in the order they were sent. *)
Execute(r) ==
    /\ redisUp /\ pc[r] = "sent"
    /\ \A q \in ahead[r] : pc[q] = "executed"
    /\ EvalBucket(r, cmd[r].key, cmd[r].now)
    /\ pc' = [pc EXCEPT ![r] = "executed"]
    /\ UNCHANGED <<time, offset, redisUp, cmd, ahead, faults>>

(* Faulty variant: an answered command stays in front of later ones. *)
ForgetNothingAhead(gone) ==
    /\ cmd' = [r \in Requests |-> IF r \in gone THEN NoCmd ELSE cmd[r]]
    /\ reply' = [r \in Requests |-> IF r \in gone THEN NoReply ELSE reply[r]]
    /\ UNCHANGED ahead

Forget(gone) ==
    /\ cmd' = [r \in Requests |-> IF r \in gone THEN NoCmd ELSE cmd[r]]
    /\ reply' = [r \in Requests |-> IF r \in gone THEN NoReply ELSE reply[r]]
    /\ ahead' = [r \in Requests |-> IF r \in gone THEN {} ELSE ahead[r] \ gone]

(* The rest of canActivate: headers are set, the request passes or is      *)
(* answered 429.                                                           *)
Answer(r) ==
    /\ redisUp /\ pc[r] = "executed" /\ ahead[r] = {}
    /\ pc' = [pc EXCEPT ![r] = IF reply[r].allowed THEN "passed"
                                                   ELSE "throttled"]
    /\ Forget({r})
    /\ UNCHANGED <<time, offset, redisUp, bucket, faults>>
-----------------------------------------------------------------------------
(* A second passes.  A command waits MaxLatency seconds at most, and a key *)
(* is gone once its expiry lies in the past.                               *)
Tick ==
    /\ time < MaxTime
    /\ \A r \in Requests : pc[r] = "sent" => time - cmd[r].at < MaxLatency
    /\ \A k \in Keys : bucket[k] # Absent => time < bucket[k].expiresAt
    /\ time' = time + 1
    /\ UNCHANGED <<offset, redisUp, bucket, pc, cmd, ahead, reply, faults>>

Expire(k) ==
    /\ bucket[k] # Absent /\ time >= bucket[k].expiresAt
    /\ bucket' = [bucket EXCEPT ![k] = Absent]
    /\ UNCHANGED <<time, offset, redisUp, pc, cmd, ahead, reply, faults>>

(* Date.now() of a server is stepped. *)
AdjustClock(s) ==
    /\ \E ahead2 \in (0 .. Skew) \ {offset[s]} :
          offset' = [offset EXCEPT ![s] = ahead2]
    /\ UNCHANGED <<time, redisUp, bucket, pc, cmd, ahead, reply, faults>>

(* ioredis resends what was not answered once it is connected again, and   *)
(* maxRetriesPerRequest: null lets it wait for that without limit.         *)
Resend(lost) ==
    /\ pc' = [r \in Requests |-> IF r \in lost /\ pc[r] = "executed"
                                 THEN "sent" ELSE pc[r]]
    /\ reply' = [r \in Requests |-> IF r \in lost THEN NoReply ELSE reply[r]]

LoseConnection(s) ==
    /\ faults < MaxFaults
    /\ Resend({r \in Requests : Waiting(r) /\ cmd[r].via = s})
    /\ faults' = faults + 1
    /\ UNCHANGED <<time, offset, redisUp, bucket, cmd, ahead>>

(* Redis dies, with or without what it held. *)
RedisCrash ==
    /\ faults < MaxFaults /\ redisUp
    /\ redisUp' = FALSE
    /\ \E lost \in SUBSET Keys :
          bucket' = [k \in Keys |-> IF k \in lost THEN Absent ELSE bucket[k]]
    /\ Resend(Requests)
    /\ faults' = faults + 1
    /\ UNCHANGED <<time, offset, cmd, ahead>>

RedisRestart ==
    /\ ~redisUp
    /\ redisUp' = TRUE
    /\ UNCHANGED <<time, offset, bucket, pc, cmd, ahead, reply, faults>>

(* An instance dies: its requests are never answered. *)
ServerCrash(s) ==
    LET gone == {r \in Requests : Waiting(r) /\ cmd[r].via = s}
    IN  /\ faults < MaxFaults
        /\ pc' = [r \in Requests |-> IF r \in gone THEN "idle" ELSE pc[r]]
        /\ Forget(gone)
        /\ faults' = faults + 1
        /\ UNCHANGED <<time, offset, redisUp, bucket>>
-----------------------------------------------------------------------------
Next ==
    \/ \E r \in Requests, s \in Servers : Arrive(r, s)
    \/ \E r \in Requests : Execute(r) \/ Answer(r)
    \/ Tick
    \/ \E k \in Keys : Expire(k)
    \/ \E s \in Servers : AdjustClock(s) \/ LoseConnection(s) \/ ServerCrash(s)
    \/ RedisCrash \/ RedisRestart

Spec == Init /\ [][Next]_vars

(* Redis and the event loop keep serving what is queued. *)
Serving == \A r \in Requests : WF_vars(Execute(r)) /\ WF_vars(Answer(r))

(* docker-compose.yml restarts Redis unless it is stopped by hand. *)
FairSpec == Spec /\ Serving /\ WF_vars(RedisRestart)

(* The same service when nothing brings Redis back. *)
RedisMayStayDownSpec == Spec /\ Serving
-----------------------------------------------------------------------------
(* Every request the guard holds is let through or refused in the end, or  *)
(* dies with its server.                                                   *)
Answered == \A r \in Requests : Waiting(r) ~> ~Waiting(r)

(* redis.service.ts: "Redis is fails-open elsewhere".  Were that so, a     *)
(* request would be answered whether or not Redis ever comes back.         *)
FailsOpen == \A r \in Requests : pc[r] = "sent" ~> pc[r] # "sent"
=============================================================================
