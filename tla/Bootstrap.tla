----------------------------- MODULE Bootstrap -----------------------------
(***************************************************************************)
(* One process of the service, from its start to its death: how it comes   *)
(* to keep the promise that module Process states.  Between two awaits     *)
(* main.ts is one step.  Nest runs the init hooks twice: when the deferred *)
(* microservice starts, and when the HTTP server does.  Between the two it *)
(* waits for the broker, which comes and goes as it likes.                 *)
(***************************************************************************)
EXTENDS Naturals

CONSTANTS
    MaxRetries,    \* attempts to connect to Postgres
    MaxDeaths      \* bound: times the process is started again

ASSUME BootstrapAssumption == MaxRetries \in Nat \ {0} /\ MaxDeaths \in Nat

VARIABLES
    process,       \* this life of the process
    configured,    \* are RESEND_API_KEY, MAIL_FROM, CLOUDFLARE_R2_* set?
    brokerUp,      \* RabbitMQ can be reached
    deaths

bootVars == <<process, configured, brokerUp, deaths>>
-----------------------------------------------------------------------------
Down == [phase |-> "down", attempt |-> 0, answered |-> FALSE, sink |-> FALSE,
         filters |-> {}, bound |-> {}, status |-> "wait", connects |-> 0,
         probe |-> "none"]

BootstrapInit ==
    /\ process = Down /\ deaths = 0
    /\ configured \in BOOLEAN /\ brokerUp \in BOOLEAN

Launch ==
    /\ process.phase = "down" /\ deaths <= MaxDeaths
    /\ process' = [Down EXCEPT !.phase = "connecting", !.attempt = 1]
    /\ UNCHANGED <<configured, brokerUp, deaths>>

LastAttempt == process.attempt = MaxRetries

(* The factory of the database provider: SELECT 1, a few times. *)
PostgresAnswers ==
    /\ process.phase = "connecting"
    /\ process' = [process EXCEPT !.phase = "assembling", !.answered = TRUE]
    /\ UNCHANGED <<configured, brokerUp, deaths>>

PostgresFails ==
    /\ process.phase = "connecting"
    /\ IF LastAttempt
       THEN process' = Down /\ deaths' = deaths + 1
       ELSE /\ process' = [process EXCEPT !.attempt = @ + 1]
            /\ UNCHANGED deaths
    /\ UNCHANGED <<configured, brokerUp>>

(* Faulty variant: connectMicroservice registers the listeners at once,    *)
(* with the filters that exist then.                                       *)
BoundEagerly(filters) == {}

(* With deferInitialization the listeners get what is there at the start.  *)
BoundAtStart(filters) == filters

(* The other providers, which insist on their settings; then the sink, the *)
(* microservice, its filter and its interceptor, and the listeners.        *)
Assemble ==
    /\ process.phase = "assembling" /\ configured
    /\ LET filters == {"RpcExceptionFilter", "TraceContextInterceptor"}
       IN  process' = [process EXCEPT !.phase = "first hooks", !.sink = TRUE,
                         !.filters = filters, !.bound = BoundAtStart(filters)]
    /\ UNCHANGED <<configured, brokerUp, deaths>>

Misconfigured ==
    /\ process.phase \in {"connecting", "assembling"} /\ ~configured
    /\ process' = Down /\ deaths' = deaths + 1
    /\ UNCHANGED <<configured, brokerUp>>

(* The hook of the Redis service connects once; that Redis cannot be       *)
(* reached is only a warning.                                              *)
NotConnectedYet == process.status = "wait"

(* The hook of the upload service puts a small object into the store and   *)
(* deletes it.  Its errors are logged, and the boot goes on.               *)
Hooking == process.phase \in {"first hooks", "consuming"}

ProbePuts ==
    /\ Hooking /\ process.probe = "none"
    /\ \E next \in {"put", "over"} : process' = [process EXCEPT !.probe = next]
    /\ UNCHANGED <<configured, brokerUp, deaths>>

ProbeDeletes ==
    /\ Hooking /\ process.probe = "put"
    /\ process' = [process EXCEPT !.probe = "over"]
    /\ UNCHANGED <<configured, brokerUp, deaths>>

(* Faulty variant: a boot without the store is given up, half way. *)
ProbeSucceeded == process.probe = "put"

ProbeOver == process.probe = "over"

InitHooks(phase, next) ==
    /\ process.phase = phase /\ ProbeOver
    /\ process' = [process EXCEPT
                     !.phase = next,
                     !.status = "connecting",
                     !.connects = IF NotConnectedYet THEN @ + 1 ELSE @,
                     !.probe = "none"]
    /\ UNCHANGED <<configured, brokerUp, deaths>>

FirstHooks == InitHooks("first hooks", "awaiting broker")

(* main.ts awaits the consumer's connection, which is tried again and      *)
(* again without a limit; listen, and with it the second round of hooks,   *)
(* comes only afterwards.                                                  *)
BrokerConnects ==
    /\ process.phase = "awaiting broker" /\ brokerUp
    /\ process' = [process EXCEPT !.phase = "consuming"]
    /\ UNCHANGED <<configured, brokerUp, deaths>>

BrokerComesOrGoes ==
    /\ brokerUp' = ~brokerUp
    /\ UNCHANGED <<process, configured, deaths>>

SecondHooks == InitHooks("consuming", "listening")

ProcessDies ==
    /\ process.phase # "down" /\ deaths < MaxDeaths
    /\ process' = Down
    /\ deaths' = deaths + 1
    /\ UNCHANGED <<configured, brokerUp>>

BootstrapNext ==
    \/ Launch \/ PostgresAnswers \/ PostgresFails \/ Assemble \/ Misconfigured
    \/ ProbePuts \/ ProbeDeletes \/ FirstHooks \/ BrokerConnects \/ SecondHooks
    \/ BrokerComesOrGoes

BootstrapSpec ==
    BootstrapInit /\ [][BootstrapNext \/ ProcessDies]_bootVars

(* Of Postgres and the store every await ends: they answer, or the         *)
(* connection to them breaks.  The await of the broker ends while the      *)
(* broker is there; nothing makes it come.                                 *)
Booting ==
    PostgresAnswers \/ PostgresFails \/ Assemble \/ Misconfigured
        \/ ProbePuts \/ ProbeDeletes \/ FirstHooks \/ BrokerConnects
        \/ SecondHooks
-----------------------------------------------------------------------------
Phases == {"down", "connecting", "assembling", "first hooks",
           "awaiting broker", "consuming", "listening"}

(* Types; the attempts are those the factory makes. *)
BootstrapOK ==
    /\ process.phase \in Phases /\ process.attempt \in 0 .. MaxRetries
    /\ configured \in BOOLEAN /\ brokerUp \in BOOLEAN
    /\ process.bound \subseteq process.filters
    /\ process.probe \in {"none", "put", "over"}
    /\ deaths \in 0 .. MaxDeaths + 1

(* A boot ends, whatever Postgres and the store do, if the broker is there *)
(* in the end: the process listens or is down again.  Only for want of     *)
(* the broker does it hang, neither serving nor dead (database.module.ts:  *)
(* 58-78, upload.service.ts:28-53, main.ts:105).                           *)
BootEnds ==
    <>[]brokerUp =>
        (process.phase = "connecting" ~> process.phase \in {"listening", "down"})

(* A message is consumed only by a process that is whole: Postgres has     *)
(* answered it, every listener has the filter and the interceptor, what    *)
(* they log has a sink, and Redis was connected to once although the hooks *)
(* run twice.  It listens for HTTP requests only after that, in the same   *)
(* life (main.ts:27-59, 105-114, redis.service.ts:68-74).                  *)
Whole ==
    /\ process.answered /\ process.sink
    /\ process.bound = {"RpcExceptionFilter", "TraceContextInterceptor"}
    /\ process.connects = 1

Promise == INSTANCE Process WITH
    phase <- IF process.phase \notin {"consuming", "listening"} THEN "down"
             ELSE IF Whole THEN process.phase ELSE "half"

ServesOnlyWhole == Promise!ProcessSpec
=============================================================================
