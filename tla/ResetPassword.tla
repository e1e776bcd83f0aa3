--------------------------- MODULE ResetPassword ---------------------------
(***************************************************************************)
(* The two services a password reset needs, as the gateway uses them over  *)
(* RabbitMQ: redis.set stores the token, and only after its reply is the   *)
(* mail asked for; redis.get checks the token, redis.del, an event, spends *)
(* it.  ioredis keeps commands while Redis is away and sends those again   *)
(* that were not answered.  The gateway is external.                       *)
(***************************************************************************)
EXTENDS Integers, FiniteSets

CONSTANTS
    Tokens,       \* reset tokens; each is its own key
    MaxTtl,       \* bound: the ttlSeconds a gateway asks for; 0 is none
    MaxClock,     \* bound: seconds
    MaxResends    \* bound: times an unanswered command is sent again

ASSUME ResetAssumption ==
    MaxTtl \in Nat /\ MaxClock \in Nat /\ MaxResends \in Nat

VARIABLES
    flow,       \* flow[t]: where the gateway is with token t
    command,    \* command[t]: the set of t on its way through the service
    store,      \* Redis: the keys it holds, and when they expire
    redisUp,
    clock,
    resends,
    written,    \* observer: tokens whose set was executed
    mails,      \* observer: mails[t], the moments a mail with t went out
    spent       \* observer: tokens whose deletion was executed

resetVars ==
    <<flow, command, store, redisUp, clock, resends, written, mails, spent>>
-----------------------------------------------------------------------------
Never == MaxClock + MaxTtl + 1     \* no expiry

ResetSteps == {"new", "setting", "set", "mailing", "mailed", "deleting", "over"}

ResetInit ==
    /\ flow = [t \in Tokens |-> [step |-> "new", ttl |-> 0]]
    /\ command = [t \in Tokens |-> "none"]
    /\ store = [t \in {} |-> 0]
    /\ redisUp = TRUE /\ clock = 0 /\ resends = 0
    /\ written = {} /\ spent = {}
    /\ mails = [t \in Tokens |-> {}]

Goto(t, step) == flow' = [flow EXCEPT ![t].step = step]
Held(t) == t \in DOMAIN store
Without(t) == [k \in DOMAIN store \ {t} |-> store[k]]

(* The gateway sends redis.set; the handler gives the command to ioredis.  *)
AskSet(t) ==
    /\ flow[t].step = "new"
    /\ \E ttl \in 0 .. MaxTtl :
          flow' = [flow EXCEPT ![t] = [step |-> "setting", ttl |-> ttl]]
    /\ command' = [command EXCEPT ![t] = "sent"]
    /\ UNCHANGED <<store, redisUp, clock, resends, written, mails, spent>>

(* Faulty variant: the time to live is not handed on. *)
ExpiryForgotten(ttl) == Never

(* A time to live of zero, or none, means for ever. *)
Expiry(ttl) == IF ttl > 0 THEN clock + ttl ELSE Never

ExecuteSet(t) ==
    /\ command[t] = "sent" /\ redisUp
    /\ store' = [k \in DOMAIN store \union {t} |->
                   IF k = t THEN Expiry(flow[t].ttl) ELSE store[k]]
    /\ written' = written \union {t}
    /\ command' = [command EXCEPT ![t] = "executed"]
    /\ UNCHANGED <<flow, redisUp, clock, resends, mails, spent>>

(* The connection breaks before the answer: ioredis sends it again. *)
ResendSet(t) ==
    /\ command[t] = "executed" /\ resends < MaxResends
    /\ command' = [command EXCEPT ![t] = "sent"]
    /\ resends' = resends + 1
    /\ UNCHANGED <<flow, store, redisUp, clock, written, mails, spent>>

(* Faulty variant: the handler does not await the command. *)
ReplySetAtOnce(t) ==
    /\ flow[t].step = "setting" /\ command[t] # "none"
    /\ Goto(t, "set")
    /\ UNCHANGED <<command, store, redisUp, clock, resends, written, mails,
                   spent>>

ReplySet(t) ==
    /\ command[t] = "executed"
    /\ command' = [command EXCEPT ![t] = "none"]
    /\ IF flow[t].step = "setting" THEN Goto(t, "set") ELSE UNCHANGED flow
    /\ UNCHANGED <<store, redisUp, clock, resends, written, mails, spent>>

(* The gateway's call times out: no mail is asked for, but the command     *)
(* is still on its way.                                                    *)
GiveUpSet(t) ==
    /\ flow[t].step = "setting"
    /\ Goto(t, "over")
    /\ UNCHANGED <<command, store, redisUp, clock, resends, written, mails,
                   spent>>

AskMail(t) ==
    /\ flow[t].step = "set"
    /\ Goto(t, "mailing")
    /\ UNCHANGED <<command, store, redisUp, clock, resends, written, mails,
                   spent>>

(* The mail goes out; the gateway hears so, or hears an error or nothing   *)
(* and asks again, or gives up.                                            *)
SendMail(t) ==
    /\ flow[t].step = "mailing"
    /\ mails' = [mails EXCEPT ![t] = @ \union {clock}]
    /\ Goto(t, "mailed") \/ UNCHANGED flow
    /\ UNCHANGED <<command, store, redisUp, clock, resends, written, spent>>

MailFails(t) ==
    /\ flow[t].step = "mailing"
    /\ Goto(t, "over")
    /\ UNCHANGED <<command, store, redisUp, clock, resends, written, mails,
                   spent>>

(* The token comes back from the mail: redis.get finds it, or the reset    *)
(* is refused.  What the gateway does then ends with redis.del.            *)
UseToken(t) ==
    /\ mails[t] # {} /\ flow[t].step \in {"mailing", "mailed"} /\ redisUp
    /\ Goto(t, IF Held(t) THEN "deleting" ELSE "over")
    /\ UNCHANGED <<command, store, redisUp, clock, resends, written, mails,
                   spent>>

DeleteToken(t) ==
    /\ flow[t].step = "deleting" /\ redisUp
    /\ store' = Without(t)
    /\ spent' = spent \union {t}
    /\ Goto(t, "over")
    /\ UNCHANGED <<command, redisUp, clock, resends, written, mails>>

(* Redis is configured without a promise: what it holds may be gone. *)
RedisDies ==
    /\ redisUp
    /\ redisUp' = FALSE
    /\ \E kept \in SUBSET DOMAIN store : store' = [t \in kept |-> store[t]]
    /\ UNCHANGED <<flow, command, clock, resends, written, mails, spent>>

RedisReturns ==
    /\ ~redisUp
    /\ redisUp' = TRUE
    /\ UNCHANGED <<flow, command, store, clock, resends, written, mails, spent>>

SecondPasses ==
    /\ clock < MaxClock
    /\ clock' = clock + 1
    /\ store' = [t \in {k \in DOMAIN store : store[k] > clock + 1} |-> store[t]]
    /\ UNCHANGED <<flow, command, redisUp, resends, written, mails, spent>>

(* The service dies with the commands it keeps and the events it was       *)
(* handed: they were acknowledged on delivery.                             *)
ResetDies ==
    /\ command' = [t \in Tokens |-> "none"]
    /\ flow' = [t \in Tokens |->
                  IF flow[t].step \in {"setting", "deleting"}
                  THEN [flow[t] EXCEPT !.step = "over"] ELSE flow[t]]
    /\ UNCHANGED <<store, redisUp, clock, resends, written, mails, spent>>

(* What goes on without the service. *)
Surroundings == RedisDies \/ RedisReturns \/ SecondPasses

ResetNext ==
    \E t \in Tokens :
        \/ AskSet(t) \/ ExecuteSet(t) \/ ResendSet(t) \/ ReplySet(t)
        \/ GiveUpSet(t) \/ AskMail(t) \/ SendMail(t) \/ MailFails(t)
        \/ UseToken(t) \/ DeleteToken(t)

ResetSpec ==
    ResetInit /\ [][ResetNext \/ Surroundings \/ ResetDies]_resetVars
-----------------------------------------------------------------------------
(* Types; Redis holds nothing that has expired. *)
ResetOK ==
    /\ \A t \in Tokens : /\ flow[t].step \in ResetSteps /\ flow[t].ttl \in 0 .. MaxTtl
                         /\ command[t] \in {"none", "sent", "executed"}
                         /\ mails[t] \subseteq 0 .. clock
    /\ DOMAIN store \subseteq Tokens
    /\ \A t \in DOMAIN store : store[t] \in clock + 1 .. Never
    /\ clock \in 0 .. MaxClock /\ resends \in 0 .. MaxResends
    /\ written \union spent \subseteq Tokens

(* redis.rpc.controller.ts:19-21: the token exists before the mail goes    *)
(* out, also when Redis is away, commands are sent again or calls time out. *)
TokenBeforeMail == \A t \in Tokens : mails[t] # {} => t \in written

(* Whoever asks for a time to live gets no more of it: from its first mail *)
(* on the token is valid for at most the seconds asked for, although its   *)
(* command may be executed late, and twice (redis.service.ts set).         *)
ExpiresAsAsked ==
    \A t \in DOMAIN store :
        flow[t].ttl > 0 =>
            \A sent \in mails[t] : store[t] <= sent + flow[t].ttl

(* A token that was spent is not valid again: no copy of the command that  *)
(* stored it is still on its way (redis.service.ts:84-101).                *)
SpentForGood == \A t \in spent : ~Held(t)
=============================================================================
