------------------------- MODULE TokenBucketWindow -------------------------
(***************************************************************************)
(* What a caller may expect of the rate limiter, stated with an observer   *)
(* that watches TokenBucket and never influences it.  The observer picks a *)
(* moment winFrom and counts, per bucket, the tokens taken by requests     *)
(* stamped at or after it.  It also adds up the seconds by which the       *)
(* limiter's own clock was turned back, because the script stores `now`    *)
(* even when it lies before the stored lastRefill, and the buckets that    *)
(* were lost with Redis.                                                   *)
(***************************************************************************)
EXTENDS TokenBucket

CONSTANTS
    MaxCharges,   \* bound: tokens counted per bucket
    MaxSlip       \* bound: seconds counted per bucket

ASSUME ObserverAssumption == MaxCharges \in Nat /\ MaxSlip \in Nat

VARIABLES
    winFrom,    \* the watched window starts at this stamp
    winTo,      \* winTo[k]: the latest stamp counted
    charged,    \* charged[k]: tokens taken in the window
    fullAt,     \* fullAt[k]: stamp at which an expired bucket was full
    slip,       \* slip[k]: seconds the bucket's clock was turned back
    wipes,      \* wipes[k]: times the bucket was lost
    owed,       \* owed[k]: the last X-RateLimit-Remaining sent
    promised    \* promised[k]: stamp the last Retry-After pointed to, or -1

observer == <<winFrom, winTo, charged, fullAt, slip, wipes, owed, promised>>
allVars == <<vars, observer>>

(* Types of what is observed. *)
ObserverTypeOK ==
    /\ winFrom \in Nat
    /\ winTo \in [Keys -> Nat]
    /\ charged \in [Keys -> Nat]
    /\ fullAt \in [Keys -> Nat]
    /\ slip \in [Keys -> Nat]
    /\ wipes \in [Keys -> Nat]
    /\ owed \in [Keys -> Nat]
    /\ promised \in [Keys -> Int]

ObserverInit ==
    /\ winFrom \in 0 .. MaxTime
    /\ winTo = [k \in Keys |-> winFrom]
    /\ charged = [k \in Keys |-> 0]
    /\ fullAt = [k \in Keys |-> 0]
    /\ slip = [k \in Keys |-> 0]
    /\ wipes = [k \in Keys |-> 0]
    /\ owed = [k \in Keys |-> 0]
    /\ promised = [k \in Keys |-> -1]
-----------------------------------------------------------------------------
(* The stamp a request is measured against: the bucket's own clock. *)
ClockOf(k) == IF bucket[k] = Absent THEN fullAt[k] ELSE bucket[k].lastRefill

NoteCharge(r, k, now) ==
    /\ charged[k] < MaxCharges
    /\ slip' = [slip EXCEPT ![k] =
                   @ + (IF now < ClockOf(k) THEN ClockOf(k) - now ELSE 0)]
    /\ slip'[k] <= MaxSlip
    /\ IF now >= winFrom
       THEN /\ charged' = [charged EXCEPT ![k] = @ + 1]
            /\ winTo' = [winTo EXCEPT ![k] = IF now > @ THEN now ELSE @]
       ELSE UNCHANGED <<charged, winTo>>
    /\ owed' = [owed EXCEPT ![k] = reply'[r].remaining]
    /\ promised' = [promised EXCEPT ![k] = -1]

NoteDenial(r, k, now) ==
    /\ promised' = [promised EXCEPT ![k] = now + reply'[r].retryAfter]
    /\ UNCHANGED <<slip, charged, winTo, owed>>

WatchExecute(r) ==
    LET k == cmd[r].key
    IN  /\ Execute(r)
        /\ IF reply'[r].allowed THEN NoteCharge(r, k, cmd[r].now)
                                ELSE NoteDenial(r, k, cmd[r].now)
        /\ UNCHANGED <<winFrom, fullAt, wipes>>

(* A bucket refills in Ttl seconds, so it was full that long after its     *)
(* last refill.                                                            *)
WatchExpire(k) ==
    /\ Expire(k)
    /\ fullAt' = [fullAt EXCEPT ![k] = bucket[k].lastRefill + Ttl]
    /\ promised' = [promised EXCEPT ![k] = -1]
    /\ UNCHANGED <<winFrom, winTo, charged, slip, wipes, owed>>

WatchCrash ==
    /\ RedisCrash
    /\ LET lost == {k \in Keys : bucket[k] # Absent /\ bucket'[k] = Absent}
       IN  /\ wipes' = [k \in Keys |-> wipes[k] + (IF k \in lost THEN 1 ELSE 0)]
           /\ fullAt' = [k \in Keys |-> IF k \in lost THEN bucket[k].lastRefill
                                                      ELSE fullAt[k]]
           /\ promised' = [k \in Keys |-> IF k \in lost THEN -1
                                                        ELSE promised[k]]
    /\ UNCHANGED <<winFrom, winTo, charged, slip, owed>>

WatchOther ==
    /\ \/ \E r \in Requests, s \in Servers : Arrive(r, s)
       \/ \E r \in Requests : Answer(r)
       \/ Tick
       \/ \E s \in Servers :
             AdjustClock(s) \/ LoseConnection(s) \/ ServerCrash(s)
       \/ RedisRestart
    /\ UNCHANGED observer

WatchNext ==
    \/ \E r \in Requests : WatchExecute(r)
    \/ \E k \in Keys : WatchExpire(k)
    \/ WatchCrash
    \/ WatchOther

WatchInit == Init /\ ObserverInit
WatchSpec == WatchInit /\ [][WatchNext]_allVars
-----------------------------------------------------------------------------
(* However requests of several instances interleave, however stale the     *)
(* stamps they carry, whatever is resent or lost: the tokens taken by      *)
(* requests stamped in a window are at most one bucketful, plus the refill *)
(* over the window, plus the refill over the seconds the bucket's clock    *)
(* was turned back, plus a bucketful for each time Redis lost the bucket   *)
(* (token-bucket.guard.ts, evalBucket).                                    *)
WindowBound ==
    \A k \in Keys :
        charged[k] * Cost <= Capacity * (1 + wipes[k])
                             + (winTo[k] - winFrom + slip[k]) * Limit

(* Why the bound holds: what a bucket still holds and what was taken from  *)
(* it never exceed the refill up to the bucket's own clock.                *)
Budget(k, x) == Capacity * wipes[k] + (x - winFrom + slip[k]) * Limit

LiveBudget(k) ==
    bucket[k] # Absent =>
        /\ bucket[k].lastRefill <= winTo[k]
        /\ charged[k] > 0 => bucket[k].tokens + charged[k] * Cost
                               <= Capacity + Budget(k, bucket[k].lastRefill)

ExpiredBudget(k) ==
    bucket[k] = Absent =>
        /\ fullAt[k] <= winTo[k] + Ttl
        /\ charged[k] > 0 => charged[k] * Cost <= Budget(k, fullAt[k])

WindowInv ==
    /\ ObserverTypeOK
    /\ \A k \in Keys :
          winFrom <= winTo[k] /\ LiveBudget(k) /\ ExpiredBudget(k)

(* With one instance whose clock is never stepped, an unbroken connection  *)
(* and commands that wait no longer than the ten seconds a bucket outlives *)
(* its refill, the bucket's clock never goes back: neither the order of    *)
(* execution nor an expiry hands out refill twice.                         *)
NoSlip == \A k \in Keys : slip[k] = 0

(* A caller told that n requests remain gets at least n more through the   *)
(* bucket before it is denied, whatever happens in between.                *)
RemainingHonoured ==
    [][\A k \in Keys : promised'[k] # promised[k] /\ promised'[k] >= 0
                          => owed[k] = 0]_allVars

(* Retry-After is exact: as long as the bucket is left alone, a request    *)
(* stamped before the moment it named is denied and one stamped at or      *)
(* after it is let through.                                                *)
RetryAfterExact ==
    [][\A r \in Requests :
          LET p == promised[cmd[r].key]
          IN  pc[r] = "sent" /\ pc'[r] = "executed" /\ p >= 0
                  => (reply'[r].allowed <=> cmd[r].now >= p)]_allVars
=============================================================================
