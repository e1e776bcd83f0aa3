--------------------------- MODULE PasswordProofs ---------------------------
(***************************************************************************)
(* Proofs about ResetPassword and Passwords: for any tokens, times to live *)
(* and repetitions, and for any history of an account.                     *)
(***************************************************************************)
EXTENDS ResetPassword, Passwords, TLAPS

Flows == [step : ResetSteps, ttl : 0 .. MaxTtl]

ResetType ==
    /\ flow \in [Tokens -> Flows]
    /\ command \in [Tokens -> {"none", "sent", "executed"}]
    /\ DOMAIN store \subseteq Tokens
    /\ \A t \in DOMAIN store : store[t] \in clock + 1 .. Never
    /\ clock \in 0 .. MaxClock /\ resends \in 0 .. MaxResends
    /\ written \subseteq Tokens /\ spent \subseteq Tokens
    /\ mails \in [Tokens -> SUBSET (0 .. clock)]

(* Once a token is past its set, no copy of the command is on its way.     *)
FlowFits(t) ==
    /\ command[t] = "executed" => t \in written
    /\ flow[t].step \in {"set", "mailing", "mailed", "deleting"} =>
          t \in written /\ command[t] = "none"
    /\ mails[t] # {} =>
          t \in written /\ command[t] = "none" /\ flow[t].step \notin {"new", "setting"}
    /\ flow[t].step = "new" => command[t] = "none" /\ ~Held(t)
    /\ t \in spent => flow[t].step = "over" /\ command[t] = "none" /\ ~Held(t)

(* How long a token that expires is valid, at most. *)
ExpiryFits(t) ==
    Held(t) /\ flow[t].ttl > 0 =>
        /\ store[t] <= clock + flow[t].ttl
        /\ \A sent \in mails[t] : store[t] <= sent + flow[t].ttl

ResetInv ==
    /\ ResetType
    /\ \A t \in Tokens : FlowFits(t)
    /\ \A t \in Tokens : ExpiryFits(t)
-----------------------------------------------------------------------------
LEMMA ClockIsNat ==
    ResetType => /\ clock \in Nat /\ Never \in Nat /\ MaxTtl \in Nat
                 /\ clock + MaxTtl < Never /\ clock <= MaxClock /\ MaxClock \in Nat
  BY ResetAssumption DEF ResetType, Never

LEMMA TtlIsNat ==
    ASSUME ResetType, NEW t \in Tokens PROVE flow[t].ttl \in Nat
<1>1. flow[t] \in Flows
  BY DEF ResetType
<1> QED
  BY <1>1, ResetAssumption DEF Flows

LEMMA ResetBegins == ResetInit => ResetInv
<1> SUFFICES ASSUME ResetInit PROVE ResetInv
  OBVIOUS
<1>1. ResetType
  BY ResetAssumption DEF ResetInit, ResetType, Flows, ResetSteps
<1>2. \A t \in Tokens : FlowFits(t) /\ ExpiryFits(t)
  BY DEF ResetInit, FlowFits, ExpiryFits, Held
<1> QED
  BY <1>1, <1>2 DEF ResetInv

LEMMA GotoGoes ==
    ASSUME ResetType, NEW t \in Tokens, NEW step \in ResetSteps, Goto(t, step)
    PROVE  /\ flow' \in [Tokens -> Flows]
           /\ flow'[t].step = step /\ flow'[t].ttl = flow[t].ttl
           /\ \A k \in Tokens : flow'[k].ttl = flow[k].ttl
           /\ \A k \in Tokens \ {t} : flow'[k] = flow[k]
  BY DEF ResetType, Goto, Flows

(* Tokens that a step does not touch. *)
LEMMA FlowStill ==
    ASSUME NEW t \in Tokens, FlowFits(t), written \subseteq written',
           UNCHANGED <<flow[t], command[t], mails[t], t \in spent>>,
           Held(t)' => Held(t)
    PROVE  FlowFits(t)'
  BY DEF FlowFits

(* While Redis and the mails are as they were, expiry is. *)
LEMMA ExpiryStill ==
    ASSUME ResetInv, UNCHANGED <<store, mails, clock>>,
           \A t \in Tokens : flow'[t].ttl = flow[t].ttl
    PROVE  \A t \in Tokens : ExpiryFits(t)'
  BY DEF ResetInv, ExpiryFits, Held

(* A step of the gateway alone. *)
LEMMA GatewayKeeps ==
    ASSUME ResetInv, NEW t \in Tokens, NEW step \in ResetSteps, Goto(t, step),
           UNCHANGED <<command, store, redisUp, clock, resends, written, mails,
                       spent>>,
           FlowFits(t)'
    PROVE  ResetInv'
<1>1. ResetType
  BY DEF ResetInv
<1>2. /\ flow' \in [Tokens -> Flows]
      /\ \A k \in Tokens : flow'[k].ttl = flow[k].ttl
      /\ \A k \in Tokens \ {t} : flow'[k] = flow[k]
  BY <1>1, GotoGoes
<1>3. ResetType'
  BY <1>1, <1>2 DEF ResetType, Never
<1>4. \A k \in Tokens : ExpiryFits(k)'
  BY <1>2, ExpiryStill
<1>5. ASSUME NEW k \in Tokens \ {t}
      PROVE  FlowFits(k)'
  BY <1>2, FlowStill DEF ResetInv, Held
<1> QED
  BY <1>3, <1>4, <1>5 DEF ResetInv

LEMMA GatewayStepKeeps ==
    ASSUME ResetInv, NEW t \in Tokens,
           GiveUpSet(t) \/ AskMail(t) \/ MailFails(t) \/ UseToken(t)
    PROVE  ResetInv'
<1>1. UNCHANGED <<command, store, redisUp, clock, resends, written, mails, spent>>
  BY DEF GiveUpSet, AskMail, MailFails, UseToken
<1>2. PICK step \in {"over", "mailing", "deleting"} :
         /\ Goto(t, step)
         /\ flow[t].step \in {"setting", "set", "mailing", "mailed"}
         /\ step # "over" => flow[t].step # "setting"
  BY DEF GiveUpSet, AskMail, MailFails, UseToken
<1>3. step \in ResetSteps /\ FlowFits(t) /\ ResetType
  BY DEF ResetSteps, ResetInv
<1>4. flow'[t].step = step
  BY <1>2, <1>3, GotoGoes
<1>5. FlowFits(t)'
  BY <1>1, <1>2, <1>3, <1>4 DEF FlowFits, Held
<1> QED
  BY <1>1, <1>2, <1>3, <1>5, GatewayKeeps

LEMMA AskSetKeeps ==
    ASSUME ResetInv, NEW t \in Tokens, AskSet(t)
    PROVE  ResetInv'
<1>1. PICK ttl \in 0 .. MaxTtl :
         flow' = [flow EXCEPT ![t] = [step |-> "setting", ttl |-> ttl]]
  BY DEF AskSet
<1>2. /\ flow[t].step = "new" /\ command' = [command EXCEPT ![t] = "sent"]
      /\ UNCHANGED <<store, redisUp, clock, resends, written, mails, spent>>
  BY DEF AskSet
<1>3. ResetType /\ ResetType'
  BY <1>1, <1>2 DEF ResetInv, ResetType, Flows, ResetSteps, Never
<1>4. /\ flow'[t].step = "setting" /\ command'[t] = "sent"
      /\ \A k \in Tokens \ {t} : flow'[k] = flow[k] /\ command'[k] = command[k]
  BY <1>1, <1>2, <1>3 DEF ResetType
<1>5. FlowFits(t)' /\ ExpiryFits(t)'
  BY <1>2, <1>4 DEF ResetInv, FlowFits, ExpiryFits, Held
<1>6. ASSUME NEW k \in Tokens \ {t}
      PROVE  FlowFits(k)' /\ ExpiryFits(k)'
  <2>1. FlowFits(k)'
    BY <1>2, <1>4, FlowStill DEF ResetInv, Held
  <2>2. ExpiryFits(k)'
    BY <1>2, <1>4 DEF ResetInv, ExpiryFits, Held
  <2> QED
    BY <2>1, <2>2
<1> QED
  BY <1>3, <1>5, <1>6 DEF ResetInv

LEMMA ExecuteSetKeeps ==
    ASSUME ResetInv, NEW t \in Tokens, ExecuteSet(t)
    PROVE  ResetInv'
<1>1. /\ command[t] = "sent" /\ written' = written \union {t}
      /\ command' = [command EXCEPT ![t] = "executed"]
      /\ UNCHANGED <<flow, redisUp, clock, resends, mails, spent>>
  BY DEF ExecuteSet
<1>2. store' = [k \in DOMAIN store \union {t} |->
                  IF k = t THEN Expiry(flow[t].ttl) ELSE store[k]]
  BY DEF ExecuteSet
<1>3. ResetType /\ FlowFits(t) /\ flow[t] \in Flows
  BY DEF ResetInv, ResetType
<1>4. Expiry(flow[t].ttl) \in clock + 1 .. Never
      /\ (flow[t].ttl > 0 => Expiry(flow[t].ttl) = clock + flow[t].ttl)
  BY <1>3, ClockIsNat DEF Expiry, Flows
<1>5. ResetType'
  <2>1. DOMAIN store' \subseteq Tokens
        /\ \A k \in DOMAIN store' : store'[k] \in clock + 1 .. Never
    BY <1>2, <1>3, <1>4 DEF ResetType
  <2>2. command' \in [Tokens -> {"none", "sent", "executed"}]
    BY <1>1, <1>3 DEF ResetType
  <2> QED
    BY <1>1, <1>3, <2>1, <2>2 DEF ResetType, Never
<1>6. flow[t].step \in {"setting", "over"} /\ mails[t] = {} /\ t \notin spent
  BY <1>1, <1>3 DEF FlowFits, Flows, ResetSteps
<1>7. command'[t] = "executed" /\ \A k \in Tokens \ {t} : command'[k] = command[k]
  BY <1>1, <1>3 DEF ResetType
<1>8. FlowFits(t)'
  BY <1>1, <1>6, <1>7 DEF FlowFits
<1>9. ExpiryFits(t)'
  BY <1>1, <1>2, <1>3, <1>4, <1>6, ClockIsNat DEF ExpiryFits, ResetType
<1>10. ASSUME NEW k \in Tokens \ {t}
       PROVE  FlowFits(k)' /\ ExpiryFits(k)'
  <2>1. (Held(k)' <=> Held(k)) /\ (Held(k) => store'[k] = store[k])
    BY <1>2 DEF Held
  <2>2. FlowFits(k)'
    BY <1>1, <1>7, <2>1, FlowStill DEF ResetInv
  <2>3. ExpiryFits(k)'
    BY <1>1, <2>1 DEF ResetInv, ExpiryFits
  <2> QED
    BY <2>2, <2>3
<1> QED
  BY <1>5, <1>8, <1>9, <1>10 DEF ResetInv

LEMMA ResendSetKeeps ==
    ASSUME ResetInv, NEW t \in Tokens, ResendSet(t)
    PROVE  ResetInv'
<1>1. /\ command[t] = "executed" /\ resends < MaxResends /\ resends' = resends + 1
      /\ command' = [command EXCEPT ![t] = "sent"]
      /\ UNCHANGED <<flow, store, redisUp, clock, written, mails, spent>>
  BY DEF ResendSet
<1>2. ResetType /\ ResetType'
  BY <1>1, ResetAssumption DEF ResetInv, ResetType, Never
<1>3. command'[t] = "sent" /\ \A k \in Tokens \ {t} : command'[k] = command[k]
  BY <1>1, <1>2 DEF ResetType
<1>4. FlowFits(t)'
  BY <1>1, <1>3 DEF ResetInv, FlowFits, Held
<1>5. \A k \in Tokens \ {t} : FlowFits(k)'
  BY <1>1, <1>3, FlowStill DEF ResetInv, Held
<1>6. \A k \in Tokens : ExpiryFits(k)'
  BY <1>1, ExpiryStill
<1> QED
  BY <1>2, <1>4, <1>5, <1>6 DEF ResetInv

LEMMA ReplySetKeeps ==
    ASSUME ResetInv, NEW t \in Tokens, ReplySet(t)
    PROVE  ResetInv'
<1>1. /\ command[t] = "executed" /\ command' = [command EXCEPT ![t] = "none"]
      /\ UNCHANGED <<store, redisUp, clock, resends, written, mails, spent>>
  BY DEF ReplySet
<1>2. ResetType /\ FlowFits(t) /\ "set" \in ResetSteps
  BY DEF ResetInv, ResetSteps
<1>3. /\ flow' \in [Tokens -> Flows]
      /\ \A k \in Tokens : flow'[k].ttl = flow[k].ttl
      /\ \A k \in Tokens \ {t} : flow'[k] = flow[k]
      /\ flow'[t].step = IF flow[t].step = "setting" THEN "set" ELSE flow[t].step
  <2>1. CASE flow[t].step = "setting" /\ Goto(t, "set")
    BY <1>2, <2>1, GotoGoes
  <2>2. CASE flow[t].step # "setting" /\ flow' = flow
    BY <1>2, <2>2 DEF ResetType
  <2> QED
    BY <2>1, <2>2 DEF ReplySet
<1>4. command'[t] = "none" /\ \A k \in Tokens \ {t} : command'[k] = command[k]
  BY <1>1, <1>2 DEF ResetType
<1>5. ResetType'
  BY <1>1, <1>2, <1>3 DEF ResetType, Never
<1>6. FlowFits(t)'
  BY <1>1, <1>2, <1>3, <1>4 DEF FlowFits, Held
<1>7. \A k \in Tokens \ {t} : FlowFits(k)'
  BY <1>1, <1>3, <1>4, FlowStill DEF ResetInv, Held
<1>8. \A k \in Tokens : ExpiryFits(k)'
  BY <1>1, <1>3, ExpiryStill
<1> QED
  BY <1>5, <1>6, <1>7, <1>8 DEF ResetInv

LEMMA SendMailKeeps ==
    ASSUME ResetInv, NEW t \in Tokens, SendMail(t)
    PROVE  ResetInv'
<1>1. /\ flow[t].step = "mailing" /\ mails' = [mails EXCEPT ![t] = @ \union {clock}]
      /\ UNCHANGED <<command, store, redisUp, clock, resends, written, spent>>
  BY DEF SendMail
<1>2. ResetType /\ FlowFits(t) /\ "mailed" \in ResetSteps
  BY DEF ResetInv, ResetSteps
<1>3. /\ flow' \in [Tokens -> Flows]
      /\ \A k \in Tokens : flow'[k].ttl = flow[k].ttl
      /\ \A k \in Tokens \ {t} : flow'[k] = flow[k]
      /\ flow'[t].step \in {"mailing", "mailed"}
  <2>1. CASE Goto(t, "mailed")
    BY <1>2, <2>1, GotoGoes
  <2>2. CASE UNCHANGED flow
    BY <1>1, <1>2, <2>2 DEF ResetType
  <2> QED
    BY <2>1, <2>2 DEF SendMail
<1>4. /\ mails'[t] = mails[t] \union {clock}
      /\ \A k \in Tokens \ {t} : mails'[k] = mails[k]
  BY <1>1, <1>2 DEF ResetType
<1>5. ResetType'
  BY <1>1, <1>2, <1>3, ClockIsNat DEF ResetType, Never
<1>6. FlowFits(t)'
  BY <1>1, <1>2, <1>3, <1>4 DEF FlowFits
<1>7. \A k \in Tokens \ {t} : FlowFits(k)'
  BY <1>1, <1>3, <1>4, FlowStill DEF ResetInv, Held
<1>8. ASSUME NEW k \in Tokens
      PROVE  ExpiryFits(k)'
  <2>1. ExpiryFits(k) /\ flow'[k].ttl = flow[k].ttl
    BY <1>3 DEF ResetInv
  <2>2. \A sent \in mails'[k] : sent \in mails[k] \/ sent = clock
    BY <1>4
  <2> QED
    BY <1>1, <2>1, <2>2 DEF ExpiryFits, Held
<1> QED
  BY <1>5, <1>6, <1>7, <1>8 DEF ResetInv

(* What Redis holds less of, or for a shorter time, fits all the better.   *)
LEMMA LessHeld ==
    ASSUME ResetInv, NEW t \in Tokens, NEW S \in SUBSET DOMAIN store,
           store' = [k \in S |-> store[k]],
           UNCHANGED <<flow, command, mails, written, spent>>,
           clock' \in Nat, clock <= clock'
    PROVE  FlowFits(t)' /\ ExpiryFits(t)'
<1>1. FlowFits(t) /\ ExpiryFits(t) /\ ResetType /\ t \in Tokens
  BY DEF ResetInv
<1>2. Held(t)' => Held(t) /\ store'[t] = store[t]
  BY DEF Held
<1>3. FlowFits(t)'
  BY <1>1, <1>2, FlowStill
<1>4. Held(t) => store[t] \in clock + 1 .. Never
  BY <1>1 DEF ResetType, Held
<1>5. ExpiryFits(t)'
  <2> SUFFICES ASSUME Held(t)', flow'[t].ttl > 0
               PROVE  /\ store'[t] <= clock' + flow'[t].ttl
                      /\ \A sent \in mails'[t] : store'[t] <= sent + flow'[t].ttl
    BY DEF ExpiryFits
  <2>1. /\ store[t] <= clock + flow[t].ttl
        /\ \A sent \in mails[t] : store[t] <= sent + flow[t].ttl
    BY <1>1, <1>2 DEF ExpiryFits
  <2>2. store[t] \in Int /\ clock \in Nat /\ flow[t].ttl \in Nat
    BY <1>1, <1>2, <1>4, ClockIsNat, TtlIsNat
  <2>3. store[t] <= clock' + flow[t].ttl
    BY <2>1, <2>2
  <2> QED
    BY <1>2, <2>1, <2>3
<1> QED
  BY <1>3, <1>5

LEMMA DeleteTokenKeeps ==
    ASSUME ResetInv, NEW t \in Tokens, DeleteToken(t)
    PROVE  ResetInv'
<1>1. /\ flow[t].step = "deleting" /\ Goto(t, "over")
      /\ store' = [k \in DOMAIN store \ {t} |-> store[k]]
      /\ spent' = spent \union {t}
      /\ UNCHANGED <<command, redisUp, clock, resends, written, mails>>
  BY DEF DeleteToken, Without
<1>2. ResetType /\ FlowFits(t) /\ "over" \in ResetSteps
  BY DEF ResetInv, ResetSteps
<1>3. /\ flow' \in [Tokens -> Flows] /\ flow'[t].step = "over"
      /\ \A k \in Tokens : flow'[k].ttl = flow[k].ttl
      /\ \A k \in Tokens \ {t} : flow'[k] = flow[k]
  BY <1>1, <1>2, GotoGoes
<1>4. ResetType'
  BY <1>1, <1>2, <1>3 DEF ResetType, Never
<1>5. ~Held(t)'
  BY <1>1 DEF Held
<1>6. FlowFits(t)' /\ ExpiryFits(t)'
  BY <1>1, <1>2, <1>3, <1>5 DEF FlowFits, ExpiryFits
<1>7. ASSUME NEW k \in Tokens \ {t}
      PROVE  FlowFits(k)' /\ ExpiryFits(k)'
  <2>1. (Held(k)' <=> Held(k)) /\ (Held(k) => store'[k] = store[k])
    BY <1>1 DEF Held
  <2>2. FlowFits(k)'
    BY <1>1, <1>3, <2>1, FlowStill DEF ResetInv
  <2>3. ExpiryFits(k)'
    BY <1>1, <1>3, <2>1 DEF ResetInv, ExpiryFits
  <2> QED
    BY <2>2, <2>3
<1> QED
  BY <1>4, <1>6, <1>7 DEF ResetInv

LEMMA SurroundingsKeep == ASSUME ResetInv, Surroundings PROVE ResetInv'
<1>1. ResetType
  BY DEF ResetInv
<1>2. UNCHANGED <<flow, command, resends, mails, written, spent>>
  BY DEF Surroundings, RedisDies, RedisReturns, SecondPasses
<1>3. PICK S \in SUBSET DOMAIN store :
         /\ \A t \in S : store[t] \in clock' + 1 .. Never
         /\ store' = [t \in S |-> store[t]] \/ (store' = store /\ S = DOMAIN store)
  <2>1. CASE RedisDies
    BY <1>1, <2>1 DEF RedisDies, ResetType
  <2>2. CASE RedisReturns
    BY <1>1, <2>2 DEF RedisReturns, ResetType
  <2>3. CASE SecondPasses
    <3> DEFINE S == {k \in DOMAIN store : store[k] > clock + 1}
    <3>1. S \in SUBSET DOMAIN store /\ store' = [t \in S |-> store[t]]
          /\ clock' = clock + 1
      BY <2>3 DEF SecondPasses
    <3>2. \A t \in S : store[t] \in clock' + 1 .. Never
      BY <1>1, <3>1, ClockIsNat DEF ResetType
    <3> HIDE DEF S
    <3> QED
      BY <3>1, <3>2
  <2> QED
    BY <2>1, <2>2, <2>3 DEF Surroundings
<1>4. clock' \in 0 .. MaxClock /\ clock <= clock' /\ clock' \in Nat
      /\ mails \in [Tokens -> SUBSET (0 .. clock')]
  <2>1. clock' \in 0 .. MaxClock /\ clock <= clock' /\ clock' \in Nat
    BY <1>1, ClockIsNat DEF Surroundings, RedisDies, RedisReturns, SecondPasses
  <2>2. 0 .. clock \subseteq 0 .. clock'
    BY <1>1, <2>1, ClockIsNat
  <2> QED
    BY <1>1, <2>1, <2>2 DEF ResetType
<1>5. DOMAIN store' = S /\ \A t \in S : store'[t] = store[t]
  BY <1>3
<1>6. ResetType'
  BY <1>1, <1>2, <1>3, <1>4, <1>5 DEF ResetType, Never
<1>7. ASSUME NEW t \in Tokens
      PROVE  FlowFits(t)' /\ ExpiryFits(t)'
  <2>1. CASE store' = [k \in S |-> store[k]]
    BY <1>2, <1>4, <2>1, LessHeld
  <2>2. CASE store' = store
    <3>1. FlowFits(t)'
      BY <1>2, <2>2, FlowStill DEF ResetInv, Held
    <3>2. ExpiryFits(t) /\ (Held(t) => store[t] \in clock + 1 .. Never)
      BY <1>1 DEF ResetInv, ResetType, Held
    <3>3. ExpiryFits(t)'
      <4> SUFFICES ASSUME Held(t), flow[t].ttl > 0
                   PROVE  /\ store[t] <= clock' + flow[t].ttl
                          /\ \A sent \in mails[t] : store[t] <= sent + flow[t].ttl
        BY <1>2, <2>2 DEF ExpiryFits, Held
      <4>1. /\ store[t] <= clock + flow[t].ttl
            /\ \A sent \in mails[t] : store[t] <= sent + flow[t].ttl
        BY <3>2 DEF ExpiryFits
      <4>2. store[t] \in Int /\ clock \in Nat /\ flow[t].ttl \in Nat
        BY <1>1, <3>2, ClockIsNat, TtlIsNat DEF ResetInv
      <4> QED
        BY <1>4, <4>1, <4>2
    <3> QED
      BY <3>1, <3>3
  <2> QED
    BY <1>3, <2>1, <2>2
<1> QED
  BY <1>6, <1>7 DEF ResetInv

LEMMA ResetDiesKeeps == ASSUME ResetInv, ResetDies PROVE ResetInv'
<1>1. /\ command' = [t \in Tokens |-> "none"]
      /\ UNCHANGED <<store, redisUp, clock, resends, written, mails, spent>>
  BY DEF ResetDies
<1>2. ResetType
  BY DEF ResetInv
<1>3. ASSUME NEW t \in Tokens
      PROVE  /\ flow'[t] \in Flows /\ flow'[t].ttl = flow[t].ttl
             /\ flow'[t].step = IF flow[t].step \in {"setting", "deleting"}
                                THEN "over" ELSE flow[t].step
  <2>1. flow'[t] = IF flow[t].step \in {"setting", "deleting"}
                   THEN [flow[t] EXCEPT !.step = "over"] ELSE flow[t]
    BY DEF ResetDies
  <2>2. flow[t] \in Flows
    BY <1>2 DEF ResetType
  <2> QED
    BY <2>1, <2>2 DEF Flows, ResetSteps
<1>4. flow' \in [Tokens -> Flows]
  <2>1. flow' = [t \in Tokens |-> flow'[t]]
    BY DEF ResetDies
  <2> QED
    BY <1>3, <2>1
<1>5. ResetType'
  BY <1>1, <1>2, <1>4 DEF ResetType, Never
<1>6. \A t \in Tokens : FlowFits(t)'
  BY <1>1, <1>3 DEF ResetInv, FlowFits, Held
<1>7. \A t \in Tokens : ExpiryFits(t)'
  BY <1>1, <1>3, ExpiryStill
<1> QED
  BY <1>5, <1>6, <1>7 DEF ResetInv

LEMMA ResetStep ==
    ResetInv /\ [ResetNext \/ Surroundings \/ ResetDies]_resetVars => ResetInv'
<1> SUFFICES ASSUME ResetInv, [ResetNext \/ Surroundings \/ ResetDies]_resetVars
             PROVE  ResetInv'
  OBVIOUS
<1>1. CASE UNCHANGED resetVars
  <2>1. ResetType'
    BY <1>1 DEF ResetInv, ResetType, resetVars, Never
  <2>2. \A t \in Tokens : FlowFits(t)'
    BY <1>1, FlowStill DEF ResetInv, resetVars, Held
  <2>3. \A t \in Tokens : ExpiryFits(t)'
    BY <1>1, ExpiryStill DEF resetVars
  <2> QED
    BY <2>1, <2>2, <2>3 DEF ResetInv
<1>2. ASSUME NEW t \in Tokens,
             GiveUpSet(t) \/ AskMail(t) \/ MailFails(t) \/ UseToken(t)
      PROVE  ResetInv'
  BY <1>2, GatewayStepKeeps
<1>3. ASSUME NEW t \in Tokens,
             AskSet(t) \/ ExecuteSet(t) \/ ResendSet(t) \/ ReplySet(t)
      PROVE  ResetInv'
  BY <1>3, AskSetKeeps, ExecuteSetKeeps, ResendSetKeeps, ReplySetKeeps
<1>4. ASSUME NEW t \in Tokens, SendMail(t) \/ DeleteToken(t)
      PROVE  ResetInv'
  BY <1>4, SendMailKeeps, DeleteTokenKeeps
<1>5. CASE Surroundings
  BY <1>5, SurroundingsKeep
<1>6. CASE ResetDies
  BY <1>6, ResetDiesKeeps
<1> QED
  BY <1>1, <1>2, <1>3, <1>4, <1>5, <1>6 DEF ResetNext

LEMMA ResetInvariant == ResetSpec => []ResetInv
  BY ResetBegins, ResetStep, PTL DEF ResetSpec

(* Types; what has expired is no longer in Redis, for any time to live. *)
THEOREM ResetTypeCorrect == ResetSpec => []ResetOK
<1>1. ResetInv => ResetOK
  BY DEF ResetInv, ResetType, ResetOK, Flows
<1> QED
  BY <1>1, ResetInvariant, PTL

(* No mail goes out before its token was stored, whatever times out, dies  *)
(* or is sent again (redis.rpc.controller.ts:19-21).                       *)
THEOREM TokenBeforeMailCorrect == ResetSpec => []TokenBeforeMail
<1>1. ResetInv => TokenBeforeMail
  BY DEF ResetInv, FlowFits, TokenBeforeMail
<1> QED
  BY <1>1, ResetInvariant, PTL

(* No token that expires is valid, once it is in a mail, for longer than   *)
(* was asked for, however late or often its command is executed            *)
(* (redis.service.ts set).                                                 *)
THEOREM ExpiresAsAskedCorrect == ResetSpec => []ExpiresAsAsked
<1>1. ResetInv => ExpiresAsAsked
  BY DEF ResetInv, ResetType, ExpiryFits, Held, ExpiresAsAsked
<1> QED
  BY <1>1, ResetInvariant, PTL

(* A token that was spent never comes back (redis.service.ts:84-101).      *)
THEOREM SpentForGoodCorrect == ResetSpec => []SpentForGood
<1>1. ResetInv => SpentForGood
  BY DEF ResetInv, ResetType, FlowFits, SpentForGood
<1> QED
  BY <1>1, ResetInvariant, PTL
-----------------------------------------------------------------------------
(* Whoever is signed in has a password that login takes.                   *)
PasswordInv ==
    /\ PasswordsOK
    /\ signedIn => password # NoPassword /\ PasswordField(password)

LEMMA LengthsAreNat == Lengths \subseteq Nat /\ 0 \notin Lengths
  BY DEF Lengths

(* What is taken as a new password is taken at login. *)
LEMMA Replacing ==
    ASSUME ChangePassword \/ ResetIt
    PROVE  /\ password' \in AnyPassword /\ password' # NoPassword
           /\ PasswordField(password') /\ UNCHANGED signedIn
<1>1. CASE ChangePassword
  <2>1. PICK p \in AnyPassword : ChangeTakes(p) /\ password' = p
    BY <1>1 DEF ChangePassword
  <2>2. PasswordField(p)
    <3>1. p.length \in Nat
      BY LengthsAreNat DEF AnyPassword
    <3>2. Between(p, 8, 14) => Between(p, 6, 25)
      BY <3>1 DEF Between
    <3> QED
      BY <2>1, <3>2, Zenon DEF ChangeTakes, PasswordField
  <2>3. p # NoPassword
    BY LengthsAreNat DEF AnyPassword, NoPassword
  <2> QED
    BY <1>1, <2>1, <2>2, <2>3 DEF ChangePassword
<1>2. CASE ResetIt
  <2>1. PICK p \in AnyPassword \union {NoPassword} :
           PasswordField(p) /\ password' = p
    BY <1>2 DEF ResetIt, ResetAccepts, Meant
  <2>2. p # NoPassword
    BY <2>1 DEF PasswordField, Between, NoPassword
  <2> QED
    BY <1>2, <2>1, <2>2 DEF ResetIt
<1> QED
  BY <1>1, <1>2

LEMMA PasswordStep == PasswordInv /\ [PasswordsNext]_passwordVars => PasswordInv'
<1> SUFFICES ASSUME PasswordInv, [PasswordsNext]_passwordVars PROVE PasswordInv'
  OBVIOUS
<1>1. CASE UNCHANGED passwordVars
  BY <1>1 DEF passwordVars, PasswordInv, PasswordsOK
<1>2. CASE Register \/ CreateUser \/ CreateManagedUser \/ SeedUsers
  <2>1. signedIn' = FALSE
    BY <1>2 DEF Register, CreateUser, CreateManagedUser, SeedUsers, PasswordInv,
                PasswordsOK
  <2>2. PasswordsOK'
    BY <1>2, <2>1 DEF Register, CreateUser, CreateManagedUser, SeedUsers,
                      PasswordsOK
  <2> QED
    BY <2>1, <2>2 DEF PasswordInv
<1>3. CASE LogIn \/ SignOut
  BY <1>3 DEF LogIn, SignOut, PasswordInv, PasswordsOK
<1>4. CASE ChangePassword \/ ResetIt
  BY <1>4, Replacing DEF PasswordInv, PasswordsOK
<1> QED
  BY <1>1, <1>2, <1>3, <1>4 DEF PasswordsNext

LEMMA PasswordInvariant == PasswordsSpec => []PasswordInv
<1>1. PasswordsInit => PasswordInv
  BY DEF PasswordsInit, PasswordInv, PasswordsOK
<1> QED
  BY <1>1, PasswordStep, PTL DEF PasswordsSpec

(* The state of an account is well formed, whoever created it.             *)
THEOREM PasswordsTypeCorrect == PasswordsSpec => []PasswordsOK
<1>1. PasswordInv => PasswordsOK
  BY DEF PasswordInv
<1> QED
  BY <1>1, PasswordInvariant, PTL

(* Login may refuse the password an account was created with, never one it *)
(* was changed or reset to, and whoever is signed in can sign in again     *)
(* (auth.schema.ts:33-50, user.schema.ts:55-95).                           *)
THEOREM LoginStaysOpenCorrect == PasswordsSpec => LoginStaysOpen
<1> DEFINE Replaced == password' # password /\ password # NoPassword
                          => PasswordField(password')
           Stays == signedIn' => PasswordField(password')
<1>1. PasswordInv /\ PasswordInv' /\ [PasswordsNext]_passwordVars
          => [Replaced /\ Stays]_passwordVars
  <2> SUFFICES ASSUME PasswordInv, PasswordInv', PasswordsNext
               PROVE  Replaced /\ Stays
    OBVIOUS
  <2>1. Stays
    BY DEF PasswordInv, PasswordField, Between
  <2>2. CASE Register \/ CreateUser \/ CreateManagedUser \/ SeedUsers
    <3>1. password = NoPassword
      BY <2>2, Zenon DEF Register, CreateUser, CreateManagedUser, SeedUsers
    <3> QED
      BY <2>1, <3>1
  <2>3. CASE LogIn \/ SignOut
    BY <2>3 DEF LogIn, SignOut
  <2>4. CASE ChangePassword \/ ResetIt
    BY <2>4, Replacing
  <2> QED
    BY <2>1, <2>2, <2>3, <2>4 DEF PasswordsNext
<1> QED
  BY <1>1, PasswordInvariant, PTL DEF PasswordsSpec, LoginStaysOpen
=============================================================================
