---------------------------- MODULE RedisHealth ----------------------------
(***************************************************************************)
(* The message health.redis: a few commands one after the other, each of   *)
(* which waits in ioredis until Redis is there to answer it.  They only    *)
(* read, so that sending one again after a broken connection changes       *)
(* nothing.  Keys of any type come and go meanwhile.                       *)
(***************************************************************************)
EXTENDS Naturals, FiniteSets, FiniteSetsExt

CONSTANTS
    CacheKeys,     \* keys Redis may hold
    SampleSize,    \* keys of a sample (ten)
    MaxBreaks      \* bound: times Redis goes away

ASSUME HealthAssumption == SampleSize \in Nat \ {0} /\ MaxBreaks \in Nat

VARIABLES
    check,        \* the call: the command it waits for, its sample
    pending,      \* that command: none or sent
    held,         \* held[k]: the type of k, or "none"
    reachable,    \* Redis answers
    breaks

healthVars == <<check, pending, held, reachable, breaks>>
-----------------------------------------------------------------------------
Idle == [at |-> "idle", fetchData |-> FALSE, left |-> {}, sample |-> <<>>,
         status |-> "none"]
Types == {"none", "string", "hash"}

HealthInit ==
    /\ check = Idle /\ pending = "none"
    /\ held = [k \in CacheKeys |-> "none"]
    /\ reachable = TRUE /\ breaks = 0

UnchangedRedis == UNCHANGED <<held, reachable, breaks>>

AskHealth ==
    /\ check.at = "idle"
    /\ \E fetch \in BOOLEAN : check' = [Idle EXCEPT !.at = "ping",
                                                    !.fetchData = fetch]
    /\ pending' = "sent"
    /\ UnchangedRedis

Report(c, status) ==
    check' = [c EXCEPT !.at = "answered", !.status = status] /\ pending' = "none"

(* The next command, or the answer. *)
GoOn(c) ==
    IF c.left # {} THEN check' = [c EXCEPT !.at = "get"] /\ pending' = "sent"
                   ELSE Report(c, "healthy")

(* ping, info and dbsize; their answers only inform. *)
AnswerSimple(next) ==
    /\ check' = [check EXCEPT !.at = next]
    /\ pending' = "sent"

Listing == {k \in CacheKeys : held[k] # "none"}
Smaller(a, b) == IF a < b THEN a ELSE b

(* keys('*'), of which the first few are taken. *)
AnswerKeys ==
    \E ks \in kSubset(Smaller(SampleSize, Cardinality(Listing)), Listing) :
       GoOn([check EXCEPT !.left = ks])

(* get: null if the key is gone.  An error, also that the key holds no     *)
(* string, as the buckets of the rate limiter do not, gives null, too.     *)
AnswerGet ==
    \E k \in check.left :
       GoOn([check EXCEPT !.left = @ \ {k},
               !.sample = [j \in DOMAIN @ \union {k} |->
                             IF j # k THEN @[j]
                             ELSE IF held[k] = "string" THEN "value" ELSE "null"]])

(* Redis executes the command and the answer arrives. *)
Served ==
    /\ reachable /\ pending = "sent"
    /\ CASE check.at = "ping" -> AnswerSimple("info")
         [] check.at = "info" -> AnswerSimple("dbsize")
         [] check.at = "dbsize" /\ check.fetchData -> AnswerSimple("keys")
         [] check.at = "dbsize" /\ ~check.fetchData -> Report(check, "healthy")
         [] check.at = "keys" -> AnswerKeys
         [] check.at = "get" -> AnswerGet
    /\ UnchangedRedis

(* The command is answered with an error: the service says it is unwell;   *)
(* one key of the sample is shown without its value.                       *)
Refused ==
    /\ reachable /\ pending = "sent"
    /\ IF check.at = "get"
       THEN \E k \in check.left :
               GoOn([check EXCEPT !.left = @ \ {k},
                       !.sample = [j \in DOMAIN @ \union {k} |->
                                     IF j # k THEN @[j] ELSE "null"]])
       ELSE Report(check, "unhealthy")
    /\ UnchangedRedis

(* Others write keys and delete them, and keys expire. *)
ChangeKey ==
    /\ reachable
    /\ \E k \in CacheKeys, type \in Types : held' = [held EXCEPT ![k] = type]
    /\ UNCHANGED <<check, pending, reachable, breaks>>

(* Redis goes away; a command that is not answered will be sent again. *)
RedisBreaks ==
    /\ reachable /\ breaks < MaxBreaks
    /\ reachable' = FALSE /\ breaks' = breaks + 1
    /\ UNCHANGED <<check, pending, held>>

RedisBack ==
    /\ ~reachable
    /\ reachable' = TRUE
    /\ UNCHANGED <<check, pending, held, breaks>>

HealthNext ==
    AskHealth \/ Served \/ Refused \/ ChangeKey \/ RedisBreaks \/ RedisBack

HealthSpec == HealthInit /\ [][HealthNext]_healthVars
=============================================================================
