----------------------------- MODULE RequestLog -----------------------------
(***************************************************************************)
(* The request log: features/log/ with the RPC interceptor and the log     *)
(* sink that feed it, and the RabbitMQ queue, the Postgres pool and the    *)
(* /logs socket namespace around them.                                     *)
(*                                                                         *)
(* A message is one hop through this service.  When a business hop ends,   *)
(* TraceContextInterceptor hands an entry to the sink and the caller gets  *)
(* its reply without waiting for the write; a log.create event hands over  *)
(* the entry of a hop of another service.  Each write is a Postgres insert *)
(* that runs on its own, followed by a broadcast to the live feed.         *)
(***************************************************************************)
EXTENDS Integers, FiniteSets, Sequences

CONSTANTS
    Messages,   \* what arrives on the service's queue
    Flows,      \* correlation ids handed on by callers
    NoFlow,     \* no x-correlation-id header, no correlationId filter
    Patterns,   \* the kinds of message that arrive
    Viewers,    \* sockets that may open the /logs namespace
    Admins,     \* the viewers whose token says role ADMIN
    PageLimit,  \* rows per page of a query
    MaxFaults   \* bound: crashes of the service and of the broker

(* Business stands for every pattern that does not start with "log.". *)
Business == "business"
LogCreate == "log.create"
LogQuery == "log.query"

ASSUME LogAssumption ==
    /\ NoFlow \notin Flows \union Messages /\ Flows \intersect Messages = {}
    /\ Patterns \subseteq {Business, LogCreate, LogQuery}
    /\ Admins \subseteq Viewers
    /\ PageLimit \in Nat \ {0} /\ MaxFaults \in Nat

VARIABLES
    up,        \* the service runs
    msg,       \* msg[m]: pattern and correlation header of message m
    hop,       \* hop[m]: where message m stands, or how its caller was answered
    entry,     \* entry[m]: the entry handed to the log during hop m
    write,     \* write[m]: where createInternal stands for that entry
    insert,    \* insert[m]: what became of its INSERT in Postgres
    rows,      \* the request_logs table, in order of created_at
    page,      \* page[m]: what the query of hop m has read
    viewer,    \* viewer[v]: state of the socket
    feed,      \* feed[v]: the log:new events it received
    faults     \* crashes so far

vars == <<up, msg, hop, entry, write, insert, rows, page, viewer, feed, faults>>
-----------------------------------------------------------------------------
NoMsg == [pattern |-> "none", flow |-> NoFlow, number |-> 0]
Msg == [pattern : Patterns, flow : Flows \union {NoFlow}, number : 1 .. 2]

(* Faulty variant: no id is made up. *)
HeaderOnly(m) == msg[m].flow

(* The header, or a fresh random id, which no other hop shares. *)
CorrelationOf(m) == IF msg[m].flow = NoFlow THEN m ELSE msg[m].flow

NoEntry == [hop |-> NoFlow, flow |-> NoFlow, failed |-> FALSE]
Entry == [hop : Messages, flow : Flows \union Messages, failed : BOOLEAN]

NoPage == [total |-> -1, got |-> -1]
Page == [total : Nat \union {-1}, got : Nat \union {-1}]

IsLogPattern(m) == msg[m].pattern \in {LogCreate, LogQuery}

(* Types of the hops, the table, the pages and the feed. *)
TypeOK ==
    /\ up \in BOOLEAN
    /\ msg \in [Messages -> Msg \union {NoMsg}]
    /\ hop \in [Messages -> {"unsent", "queued", "running", "returned", "threw",
                           "lost"}]
    /\ entry \in [Messages -> Entry \union {NoEntry}]
    /\ write \in [Messages -> {"none", "waiting", "shown", "warned", "died"}]
    /\ insert \in [Messages -> {"none", "sent", "stored", "refused"}]
    /\ rows \in Seq(Entry)
    /\ page \in [Messages -> Page]
    /\ viewer \in [Viewers -> {"away", "checking", "joined"}]
    /\ feed \in [Viewers -> Seq(Entry)]
    /\ faults \in 0 .. MaxFaults

Init ==
    /\ up = TRUE
    /\ msg = [m \in Messages |-> NoMsg]
    /\ hop = [m \in Messages |-> "unsent"]
    /\ entry = [m \in Messages |-> NoEntry]
    /\ write = [m \in Messages |-> "none"]
    /\ insert = [m \in Messages |-> "none"]
    /\ rows = <<>>
    /\ page = [m \in Messages |-> NoPage]
    /\ viewer = [v \in Viewers |-> "away"]
    /\ feed = [v \in Viewers |-> <<>>]
    /\ faults = 0
-----------------------------------------------------------------------------
(* A caller publishes a message; a query also asks for a page number. *)
Send(m) ==
    /\ hop[m] = "unsent"
    /\ \E pattern \in Patterns, flow \in Flows \union {NoFlow}, n \in 1 .. 2 :
          /\ pattern # LogQuery => n = 1
          /\ msg' = [msg EXCEPT ![m] = [pattern |-> pattern, flow |-> flow,
                                        number |-> n]]
    /\ hop' = [hop EXCEPT ![m] = "queued"]
    /\ UNCHANGED <<up, entry, write, insert, rows, page, viewer, feed,
                   faults>>

(* createInternal up to its await: the INSERT is on its way. *)
StartWrite(m, failed) ==
    /\ entry' = [entry EXCEPT ![m] = [hop |-> m, flow |-> CorrelationOf(m),
                                      failed |-> failed]]
    /\ write' = [write EXCEPT ![m] = "waiting"]
    /\ insert' = [insert EXCEPT ![m] = "sent"]

(* The consumer acknowledges on delivery, so a message is handled at most  *)
(* once.  The handler of log.create is the write itself.                   *)
Deliver(m) ==
    /\ up /\ hop[m] = "queued"
    /\ hop' = [hop EXCEPT ![m] = "running"]
    /\ IF msg[m].pattern = LogCreate
       THEN StartWrite(m, FALSE)   \* whatever the other hop's outcome
       ELSE UNCHANGED <<entry, write, insert>>
    /\ UNCHANGED <<up, msg, rows, page, viewer, feed, faults>>

(* Faulty variant: errors are not logged. *)
FinishUnloggedError(m, outcome) ==
    /\ hop' = [hop EXCEPT ![m] = outcome]
    /\ IF IsLogPattern(m) \/ outcome = "threw"
       THEN UNCHANGED <<entry, write, insert>>
       ELSE StartWrite(m, FALSE)

(* The interceptor's `error` and `complete` callbacks: the entry goes to   *)
(* the sink, which starts the write, and the caller is answered.           *)
Finish(m, outcome) ==
    /\ hop' = [hop EXCEPT ![m] = outcome]
    /\ IF IsLogPattern(m) THEN UNCHANGED <<entry, write, insert>>
                          ELSE StartWrite(m, outcome = "threw")

(* Faulty variant: the reply waits for the row. *)
HandleAfterWrites(m) ==
    /\ up /\ hop[m] = "running" /\ msg[m].pattern = Business
    /\ \A q \in Messages : insert[q] # "sent"
    /\ \E outcome \in {"returned", "threw"} : Finish(m, outcome)
    /\ UNCHANGED <<up, msg, rows, page, viewer, feed, faults>>

Handle(m) ==
    /\ up /\ hop[m] = "running" /\ msg[m].pattern = Business
    /\ \E outcome \in {"returned", "threw"} : Finish(m, outcome)
    /\ UNCHANGED <<up, msg, rows, page, viewer, feed, faults>>
-----------------------------------------------------------------------------
(* LogRepository.findAll: two statements, between which rows may arrive.   *)
Matching(flow) ==
    Cardinality({i \in DOMAIN rows : flow = NoFlow \/ rows[i].flow = flow})

RowsOnPage(n, number) ==
    LET left == n - (number - 1) * PageLimit
    IN  IF left < 0 THEN 0 ELSE IF left > PageLimit THEN PageLimit ELSE left

Reading(m) == up /\ hop[m] = "running" /\ msg[m].pattern = LogQuery

(* Faulty variant: the rows are read before they are counted. *)
SelectFirst(m) ==
    /\ Reading(m) /\ page[m] = NoPage
    /\ page' = [page EXCEPT ![m].got =
                   RowsOnPage(Matching(msg[m].flow), msg[m].number)]
    /\ UNCHANGED <<up, msg, hop, entry, write, insert, rows, viewer,
                   feed, faults>>

CountLast(m) ==
    /\ Reading(m) /\ page[m] # NoPage
    /\ page' = [page EXCEPT ![m].total = Matching(msg[m].flow)]
    /\ Finish(m, "returned")
    /\ UNCHANGED <<up, msg, rows, viewer, feed, faults>>

SelectThenCount(m) == SelectFirst(m) \/ CountLast(m)

CountMatching(m) ==
    /\ Reading(m) /\ page[m] = NoPage
    /\ page' = [page EXCEPT ![m].total = Matching(msg[m].flow)]
    /\ UNCHANGED <<up, msg, hop, entry, write, insert, rows, viewer,
                   feed, faults>>

SelectPage(m) ==
    /\ Reading(m) /\ page[m] # NoPage
    /\ page' = [page EXCEPT ![m].got =
                   RowsOnPage(Matching(msg[m].flow), msg[m].number)]
    /\ Finish(m, "returned")
    /\ UNCHANGED <<up, msg, rows, viewer, feed, faults>>

FindAll(m) == CountMatching(m) \/ SelectPage(m)

(* Either statement fails, and the query with it. *)
FindAllFails(m) ==
    /\ Reading(m)
    /\ Finish(m, "threw")
    /\ UNCHANGED <<up, msg, rows, page, viewer, feed, faults>>
-----------------------------------------------------------------------------
(* Postgres executes an INSERT, or refuses it.  It does either, too, for a *)
(* service that died after sending it.                                     *)
InsertRow(m) ==
    /\ insert[m] = "sent"
    /\ \/ /\ insert' = [insert EXCEPT ![m] = "stored"]
          /\ rows' = Append(rows, entry[m])
       \/ /\ insert' = [insert EXCEPT ![m] = "refused"]
          /\ UNCHANGED rows
    /\ UNCHANGED <<up, msg, hop, entry, write, page, viewer, feed,
                   faults>>

(* A log.create hop ends with its write, which never throws; nothing waits *)
(* for the writes of the others.                                           *)
EndWrite(m, outcome) ==
    /\ write' = [write EXCEPT ![m] = outcome]
    /\ hop' = [hop EXCEPT ![m] = IF @ = "running" THEN "returned" ELSE @]

(* Every socket in the namespace receives the row, also one whose user is  *)
(* still being looked up.                                                  *)
EmitNewLog(row) ==
    feed' = [v \in Viewers |-> IF viewer[v] = "away" THEN feed[v]
                                                     ELSE Append(feed[v], row)]

(* Faulty variants: the row is broadcast before it is stored; a write whose *)
(* answer was lost is sent again.                                           *)
ShowEarly(m) ==
    /\ up /\ write[m] = "waiting" /\ insert[m] \in {"sent", "stored"}
    /\ EmitNewLog(entry[m])
    /\ EndWrite(m, "shown")
    /\ UNCHANGED <<up, msg, entry, insert, rows, page, viewer, faults>>

CreateResolves(m) ==
    /\ up /\ write[m] = "waiting" /\ insert[m] = "stored"
    /\ EmitNewLog(entry[m])
    /\ EndWrite(m, "shown")
    /\ UNCHANGED <<up, msg, entry, insert, rows, page, viewer, faults>>

CreateRetries(m) ==
    /\ up /\ write[m] = "waiting"
    /\ insert' = [insert EXCEPT ![m] = "sent"]
    /\ UNCHANGED <<up, msg, hop, entry, write, rows, page, viewer,
                   feed, faults>>

(* The insert was refused, or the connection broke before its answer came, *)
(* and nobody knows whether the row is stored: a warning is all.           *)
CreateRejects(m) ==
    /\ up /\ write[m] = "waiting"
    /\ EndWrite(m, "warned")
    /\ UNCHANGED <<up, msg, entry, insert, rows, page, viewer, feed,
                   faults>>
-----------------------------------------------------------------------------
(* Faulty variant: the role is only looked at in the database. *)
ConnectAnyone(v) ==
    /\ up /\ viewer[v] = "away"
    /\ viewer' = [viewer EXCEPT ![v] = "checking"]
    /\ UNCHANGED <<up, msg, hop, entry, write, insert, rows, page, feed,
                   faults>>

(* handleConnection up to its await: a socket without an admin's access    *)
(* token is disconnected in the same turn.                                 *)
Connect(v) ==
    /\ up /\ viewer[v] = "away"
    /\ v \in Admins
    /\ viewer' = [viewer EXCEPT ![v] = "checking"]
    /\ UNCHANGED <<up, msg, hop, entry, write, insert, rows, page, feed,
                   faults>>

(* Faulty variant: what a socket received outlives its connection. *)
PartKeepingFeed(leaving) ==
    /\ viewer' = [v \in Viewers |-> IF v \in leaving THEN "away" ELSE viewer[v]]
    /\ UNCHANGED feed

Part(leaving) ==
    /\ viewer' = [v \in Viewers |-> IF v \in leaving THEN "away" ELSE viewer[v]]
    /\ feed' = [v \in Viewers |-> IF v \in leaving THEN <<>> ELSE feed[v]]

(* The user is found, or is missing or the lookup fails. *)
Lookup(v) ==
    /\ up /\ viewer[v] = "checking"
    /\ \/ viewer' = [viewer EXCEPT ![v] = "joined"] /\ UNCHANGED feed
       \/ Part({v})
    /\ UNCHANGED <<up, msg, hop, entry, write, insert, rows, page,
                   faults>>

Disconnect(v) ==
    /\ up /\ viewer[v] # "away"
    /\ Part({v})
    /\ UNCHANGED <<up, msg, hop, entry, write, insert, rows, page,
                   faults>>
-----------------------------------------------------------------------------
(* The process dies: running hops are lost, since their messages were      *)
(* acknowledged, and nobody waits for the inserts any more.                *)
Crash ==
    /\ up /\ faults < MaxFaults
    /\ up' = FALSE
    /\ hop' = [m \in Messages |-> IF hop[m] = "running" THEN "lost" ELSE hop[m]]
    /\ write' = [m \in Messages |-> IF write[m] = "waiting" THEN "died"
                                                           ELSE write[m]]
    /\ Part(Viewers)
    /\ faults' = faults + 1
    /\ UNCHANGED <<msg, entry, insert, rows, page>>

Restart ==
    /\ ~up
    /\ up' = TRUE
    /\ UNCHANGED <<msg, hop, entry, write, insert, rows, page, viewer,
                   feed, faults>>

(* The queue is durable, the messages on it are not. *)
BrokerRestart ==
    /\ faults < MaxFaults
    /\ hop' = [m \in Messages |-> IF hop[m] = "queued" THEN "lost" ELSE hop[m]]
    /\ faults' = faults + 1
    /\ UNCHANGED <<up, msg, entry, write, insert, rows, page, viewer,
                   feed>>

Next ==
    \/ \E m \in Messages :
          \/ Send(m) \/ Deliver(m) \/ Handle(m)
          \/ FindAll(m) \/ FindAllFails(m)
          \/ InsertRow(m) \/ CreateResolves(m) \/ CreateRejects(m)
    \/ \E v \in Viewers : Connect(v) \/ Lookup(v) \/ Disconnect(v)
    \/ Crash \/ Restart \/ BrokerRestart

Spec == Init /\ [][Next]_vars

(* Business handlers end; of Postgres nothing is assumed. *)
FairSpec == Spec /\ \A m \in Messages : WF_vars(Handle(m))
-----------------------------------------------------------------------------
Reported == {entry[m] : m \in {q \in Messages : entry[q] # NoEntry}}

(* The log implements RequestJournal: whatever crashes, late inserts and   *)
(* lost answers happen, an entry is stored at most once and shown only     *)
(* when stored (log.service.ts createInternal, log.gateway.ts emitNewLog). *)
Journal == INSTANCE RequestJournal WITH
    Entries <- Entry,
    reported <- Reported,
    journal <- rows,
    shown <- feed

JournalSpec == Journal!Spec

(* Why it does.  A hop hands over one entry, under its own name, and only  *)
(* by the step that ends it or, for log.create, by the one that starts it. *)
HopInv(m) ==
    /\ hop[m] = "unsent" \/ msg[m] \in Msg
    /\ entry[m] = NoEntry <=> write[m] = "none"
    /\ entry[m] = NoEntry <=> insert[m] = "none"
    /\ entry[m] # NoEntry => entry[m].hop = m /\ msg[m].pattern # LogQuery
    /\ hop[m] \in {"unsent", "queued"} => entry[m] = NoEntry
    /\ hop[m] = "running" /\ msg[m].pattern # LogCreate => entry[m] = NoEntry
    /\ hop[m] \in {"returned", "threw"} /\ msg[m].pattern = Business =>
          entry[m] # NoEntry /\ (entry[m].failed <=> hop[m] = "threw")
    /\ write[m] = "shown" => insert[m] = "stored"

(* The table holds exactly the entries whose insert was executed. *)
RowsInv ==
    /\ \A i \in DOMAIN rows :
          rows[i] = entry[rows[i].hop] /\ insert[rows[i].hop] = "stored"
    /\ \A m \in Messages :
          insert[m] = "stored" => \E i \in DOMAIN rows : rows[i] = entry[m]

(* A connected socket has received only entries already broadcast. *)
FeedInv(v) ==
    /\ viewer[v] # "away" => v \in Admins
    /\ viewer[v] = "away" => feed[v] = <<>>
    /\ \A i \in DOMAIN feed[v] :
          /\ write[feed[v][i].hop] = "shown"
          /\ entry[feed[v][i].hop] = feed[v][i]

LogInv ==
    /\ TypeOK
    /\ \A m \in Messages : HopInv(m)
    /\ RowsInv
    /\ \A v \in Viewers : FeedInv(v)

(* A business hop that ended leaves a row that says how its caller was     *)
(* answered, or an insert in flight, or a warning, or the service died on  *)
(* the way: no entry is dropped silently                                   *)
(* (trace-context.interceptor.ts, both callbacks; log.service.ts).         *)
NoSilentLoss ==
    \A m \in Messages :
        hop[m] \in {"returned", "threw"} /\ msg[m].pattern = Business =>
            \/ \E i \in DOMAIN rows :
                  rows[i].hop = m /\ (rows[i].failed <=> hop[m] = "threw")
            \/ write[m] \in {"waiting", "warned", "died"}

(* The feed shows other users' traffic: whenever a row arrives, whoever    *)
(* receives it proved to be an admin (log.gateway.ts handleConnection).    *)
FeedOnlyToAdmins == \A v \in Viewers : feed[v] # <<>> => v \in Admins

(* A page that is not the last one announced is full, although rows arrive *)
(* between the count and the select (log.repository.ts findAll).           *)
PagesAreFull ==
    \A m \in Messages :
        /\ page[m].got >= 0 /\ page[m].total >= 0
        /\ msg[m].number * PageLimit < page[m].total
        => page[m].got = PageLimit

(* Logging never breaks the request path: a business hop ends although     *)
(* Postgres may never answer an insert (log-sink.ts emitRequestLog).       *)
RepliedDespiteLogging ==
    \A m \in Messages :
        hop[m] = "running" /\ msg[m].pattern = Business ~> hop[m] # "running"
=============================================================================
