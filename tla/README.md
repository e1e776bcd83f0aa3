# third-service in TLA+

Specifications, model-checking configurations and machine-checked proofs for
the *third-service*: a NestJS 11 application that serves HTTP, consumes a
RabbitMQ queue and keeps a socket.io namespace, over Postgres (Drizzle) and
Redis (ioredis). All source paths below are relative to the repository's root,
whose program is under `src/`.

- Check a model: `tlc -workers 2 -config <cfg> <module>.tla`, with the pairs
  listed under [Runs](#runs).
- Check the proofs: `tlapm M.tla` for each of `TokenBucketProofs`,
  `RequestLogProofs`, `TestScenarioProofs`, `NotificationsProofs`,
  `UploadsProofs`, `PasswordProofs`, `ThirdServiceProofs` and
  `DeploymentProofs`. The last takes some minutes.

## 1. The system

### How the parts interact

An HTTP request passes three global guards in the order Jwt, Language,
TokenBucket (`src/app.module.ts:34-48`), then the interceptors, a controller
and a service. A message from the gateway arrives on one durable RabbitMQ queue
(`src/main.ts:40-51`) and passes `TraceContextInterceptor`, an RPC controller
and the same service. Services keep their state in Postgres; the guard keeps
its buckets in Redis. Every message that ends produces one row of the request
log, written in the background and broadcast to the `/logs` sockets.

| Component | State it keeps | Operations | What is hard | What makes it correct |
|---|---|---|---|---|
| **HTTP rate limiter** `packages/guards/token-bucket.guard.ts` | one Redis hash per caller and route: tokens, lastRefill, expiry | `canActivate`, one Lua script | several instances with clocks of their own, reordering between the clock's read and the script, resent commands, expiry, lost Redis | no caller takes more than the configured rate in any window; what the headers promise is kept; every request is answered |
| **Request log and live feed** `features/log/`, `packages/interceptor/trace-context.interceptor.ts`, `packages/context/` | table `request_logs`, sockets in `/logs` | intercept, `createInternal`, `findAll`, `findByCorrelationId`, connect, broadcast | fire-and-forget writes, lost answers, crash between insert and broadcast, count and select apart | entries stored at most once, shown after they are stored, never lost silently, and the reply never waits for them |
| **Test scenarios and runs** `features/test-scenario/` | tables `test_scenarios`, `test_runs` | create, update, delete, run (background or awaited) | runs overlap with edits, silent gateway, lost insert, crash of a background run | a verdict is about one version of its scenario; every run ends |
| **Redis service** `features/redis/` | one ioredis client with an offline queue | connect, get, set, del (event) | commands wait without limit, del may be lost | used by every component that touches Redis |
| **Notifications** `features/notification/` | table `notifications` | create, list, read, read all, delete | find-then-update and find-then-delete without a transaction, pages that shift | every call has the effect and the answer of one moment; paging skips nothing |
| **Email** `features/email/` | none (Resend) | send a reset mail | caller times out while the mail is on its way; the text says five minutes whatever the token's time to live is | the token a mail names exists, and lives no longer than was asked for |
| **Uploads** `features/uploads/` | objects in Cloudflare R2 (S3) | upload, upload several, download, delete | one of several fails, attempts are repeated or executed late | what a caller was told is stored; what nobody was told of comes from a call that failed |
| **HTTP guards, interceptors, filters** `packages/guards`, `interceptor`, `filters` | request context (AsyncLocalStorage) | one pass per request | where an exception is thrown decides its envelope | every response has the documented envelope |
| **Bootstrap, database** `main.ts`, `database/database.module.ts` | connection, sink | three attempts to connect, deferred microservice start | retry, double initialisation, order of sink and listeners, a wait for the broker without a limit | starts or fails cleanly, and hangs only for want of the broker |
| **Health endpoints** `app.controller.ts` | none | `health.redis`: ping, info, dbsize, a sample of keys | each command waits on the same offline queue; keys change and have any type | the check ends once Redis is back |
| **Validation schemas** `packages/entities`, `packages/pipes` | none | parse | partial updates with defaults, coercion, differing bounds | what an update omits it leaves alone; no change or reset of a password locks somebody out |
| **Languages** `packages/guards/language.guard.ts`, `data/i18n` | `request.language` | choose, translate | order of the guards, weights, fallbacks | an answer is in the language the client prefers |
| **Scripts** `scripts/` | database contents | seed, recreate | interrupted and re-run | idempotent |
| **API documentation data** `data/swaggers`, `data/constants` | none | none | none | none |

### Hazards

`PROJECT.json` lists every hazard at its line, with the properties that cover
it. Among them: stamps that arrive out of order at the
bucket and clocks that step back; a bucket that expires while its refill is
still owed; ioredis resending a command that was executed; a Redis that stays
down; the crash between an insert and its broadcast; answers of inserts that
never come; rows that arrive between a count and a select; scenarios edited or
deleted under a run; a gateway that never answers; a logged request replayed
with a token it did not have; an update that fills in what it was not given;
scripts interrupted between two statements and run again;
notifications deleted between a find and its update, or arriving between two
pages; one upload of several that fails; a reset token whose command is
executed late, twice or never; a process that must not consume before it is
whole, and a boot that must end but waits for the broker; a download whose stream breaks; a put that
arrives after the deletion; passwords that one schema takes and another refuses.

## 2. The modules

| Module | Models | Builds on |
|---|---|---|
| `TokenBucket` | the guard, the script, the ordered connection of each instance, Redis and its expiry, clocks, crashes | |
| `TokenBucketWindow` | what callers may expect of it, with an observer | `TokenBucket` |
| `TokenBucketProofs` | theorems | `TokenBucketWindow` |
| `RequestJournal` | abstract specification: what a request log promises | |
| `RequestLog` | interceptor, sink, service, repository, gateway, with queue and database; implements `RequestJournal` | `RequestJournal` |
| `RequestTrace` | the trace query, with an observer of the order hops happened in | `RequestLog` |
| `RequestLogProofs` | theorems | `RequestLog` |
| `TestScenario` | scenarios, their edits and their runs | |
| `ReplayFromLogs` | the same, with scenarios that `seed-test-scenarios-from-logs` makes of logged requests | `TestScenario` |
| `TestScenarioProofs` | theorems | `TestScenario` |
| `Seeding` | the scripts under `scripts/`, statement by statement, on one database | |
| `NoticeBoard` | abstract specification: calls on notifications as atomic steps | |
| `Notifications` | the notification service and its table; implements `NoticeBoard` | `NoticeBoard` |
| `Uploads` | the upload service, its downloads, the S3 client's attempts and the store | |
| `ResetPassword` | `redis.set`, `redis.get`, `redis.del` and the reset mail, as the gateway uses them; Redis with expiry and loss | |
| `Process` | abstract specification: when a process consumes and listens | |
| `Bootstrap` | one process from start to death; implements `Process` | `Process` |
| `Languages` | choosing a language and translating to it | |
| `HttpPipeline` | what becomes of an HTTP request between its guards and its envelope | `Languages` |
| `Editing` | create and update schemas of 15 kinds of rows, and a row that is updated | |
| `Passwords` | an account's password, under the rules of every schema that sees it | |
| `RedisHealth` | the message `health.redis` | |
| `ThirdService` | the parts in one process that promises what `Process` says | `Process`, `Notifications`, `Uploads`, `ResetPassword`, `HttpPipeline`, `Editing`, `Passwords` |
| `NotificationsProofs`, `UploadsProofs` | theorems | `Notifications`; `Uploads` |
| `PasswordProofs` | theorems | `ResetPassword`, `Passwords` |
| `ThirdServiceProofs` | theorems about `Languages`, `HttpPipeline`, `Editing` and the whole process | `ThirdService`, the three modules above |
| `DeploymentProofs` | theorems | `Bootstrap`, `Seeding` |
| `LiveService` | the parts under fairness: what ends | `Bootstrap`, `Notifications`, `Uploads`, `RedisHealth`, `RequestLog`, `TokenBucket` |
| `MCTokenBucket`, `MCRequestLog`, `MCThirdService` | symmetry sets for the model checker | |

Definitions named *Faulty variant* change one definition the way a plausible
slip in the code would. They are used by no specification; `PROJECT.json`
("mutants") pairs each with the property that notices it.

### TokenBucket

One HTTP request is a slot `r` that goes through `canActivate`:

- `Arrive(r, s)` is the code up to `await client.eval`: it builds the key
  (`BuildKey`), reads the clock of instance `s` and queues the script on the
  instance's only connection. `ahead[r]` are the earlier commands there.
- `Execute(r)` is the script, one atomic step: `Open` (no hash), `Deny` (less
  than one token) or `Take`. A token is `Ttl` units, so `Limit` units are
  earned per second and the script's fractions are exact integers. Only an
  allowed request writes the hash, as in the code.
- `Answer(r)` sets the headers and returns, or throws 429. Replies come back
  in the order of the connection.
- `Tick`, `Expire`, `AdjustClock` are time: real time is also Redis's clock; a
  key is gone at its expiry; the clock of an instance may be ahead by up to
  `Skew` and may be stepped.
- `LoseConnection`, `RedisCrash`, `RedisRestart`, `ServerCrash` are failures.
  What was not answered is sent again, since the client is configured with
  `maxRetriesPerRequest: null` and an offline queue
  (`features/redis/redis.service.ts:5-12`), so a script may run twice for a
  request. Redis may lose any set of buckets in a crash.

### TokenBucketWindow

The observer picks any moment `winFrom` and counts for each bucket the tokens
taken by requests stamped from then on (`charged`), the latest of those stamps
(`winTo`), the seconds the bucket's own clock was turned back (`slip`, because
the script stores `now` even when it lies before `lastRefill`), and the times
the bucket was lost (`wipes`). It also remembers the last advertised
`X-RateLimit-Remaining` (`owed`) and `Retry-After` (`promised`).

### RequestLog

A message `m` is one hop. `hop[m]` goes unsent, queued, running, then returned
or threw, or lost: messages are acknowledged on delivery and are not
persistent. `Finish` is the interceptor's pair of callbacks: it builds the
entry, starts the write (`createInternal` up to its await) and answers the
caller in one step, because nothing in it waits. `InsertRow` is Postgres;
`CreateResolves` is the code after the await (broadcast), `CreateRejects` its
catch, which may follow a *stored* row when the connection breaks before the
answer. A `log.create` event is the write itself. Queries of the log read
twice, `CountMatching` and `SelectPage`, and other steps come between. A socket
is in the namespace from `Connect` on, while `Lookup` is still under way, and
receives rows meanwhile, as in the code. `Crash` loses running hops, the waits
for inserts (not the inserts) and the sockets.

### TestScenario

A run reads its scenario once (`snapshot`), fires the request, waits for the
gateway at most `RUN_TIMEOUT_MS` and inserts a verdict. `StartRun` is `run` and
`execute` up to the fetch, with the Authorization header it decides on.
`Respond` is the gateway's status line, `FetchEnds` the end of the body, an
error or the timeout in either phase: a status that arrived stands, as in the
code. `Update` stores the columns its payload names and leaves the others alone:
controller, service and repository hand the payload on as it comes. The schema
`updateTestScenarioSchema`, whose `.partial()` would fill defaults in, is not
applied anywhere in this repository; whether the gateway applies it is not known
here. `ReplayFromLogs` adds the rows the script inserts past the service
(`SeedFromLog`): the category follows the logged status, and a request that was
not public gets a header with a place for a token.

### Seeding

One script runs at a time; each of its steps is one statement, and it may be
interrupted before any of them (`Kill`), also between the `DROP`s and the push
of the schema in `recreate-db`. Tables are families: `classes` stands for
classes, sessions and what hangs on them, `curriculums` for curriculums,
chapters and lessons. Rows that the scripts did not make, of the tutor himself,
of another tutor, and real notifications, are there from the start. Time passes
by years, because `seed-dashboard` names its class after the current one.
`seed-test-scenarios-from-logs` cuts the list of samples to its `--limit` (200
unless given; `Limits` here) *before* it passes over those it cannot replay, so
a usable sample beyond the cut gets no scenario although the script ends well
(`Usable`).
`seed-wallet` and `seed-categories` insert nothing and are left out.

### NoticeBoard and Notifications

A call `c` goes through `find` and `write`, one statement each, and everything
other calls do may come in between. `CreateNote`, `MarkRead`, `MarkAllRead` and
`DeleteNote` are the repository's statements; each may have been executed and
still be answered with an error, or fail without effect (`StatementFails`). Ids
are in the order of `created_at`, which is taken to be distinct. `BeginWalk` and
`FetchPage` are a client that asks for page after page until one is not full,
with or without the filter `isRead` (`Understood` is what the schema makes of
it).
(One that stops at `totalPages`, a count made before the select, may miss a row
that the arrival of another pushed to the next page.) In `NoticeBoard` a call is
one step. That is not obvious of code that finds and then deletes without a
transaction: two deletes of one notification both succeed, and `markAsRead`
answers `null` for one that vanished, both of which `NoticeBoard` allows because
the notification *was* there; `not found` it allows only while it is not.

### Uploads

A file is `processing` (sharp), `putting`, then `stored` or `failed`. `onTheWay`
are attempts of the S3 client the store has not executed: the client repeats
unanswered attempts (`RepeatPut`), gives up (`PutFails`), and an attempt it gave
up may still be executed (`StorePuts`), also after the service died. `uploadMultiple`
is a `Promise.all`: `AnswerUpload` waits for all files, `RejectUpload` for the
first failure only. A repeated attempt that is executed after its object was
deleted brings the object back.

A download asks for any key, or for none (`AskDownload`). `GetObject` is the
head of the store's answer; what was in the store at that moment is delivered
(`StreamEnds`), or the stream breaks on the way (`StreamBreaks`). Over HTTP the
controller tells a missing key from other errors; over RPC every error is the
same. When the stream breaks over HTTP, `stream.pipe(res)` neither ends the
answer nor passes the error on: that call is left `hanging`. Over RPC the loop
over the chunks throws, provided the stream of the S3 client reports the break
to its reader, which is taken for granted.

### ResetPassword

`AskSet` to `ReplySet` is one `redis.set`: the handler gives the command to
ioredis, which keeps it while Redis is away and sends it again after a broken
connection (`ResendSet`). The gateway, which is not in this repository, asks for
the mail only after the reply, as `redis.rpc.controller.ts:19-21` says it does,
and may give up at any point. `DeleteToken` is the event `redis.del`; a crash
loses it. Redis forgets what expired (`SecondPasses`) and perhaps everything
when it dies. The time to live is whatever the gateway asks for, up to `MaxTtl`;
zero means none, as in `RedisService.set`. The mail says "5 minutes" in any case
(`email.service.ts:38-39`). Nothing in this repository ties that to the
`ttlSeconds` of `redis.set`, so the model claims nothing about the text.

### Process and Bootstrap

`Bootstrap` is `main.ts` between its awaits. Postgres is asked up to
`MAX_RETRIES` times; providers that insist on settings end the boot without
them (so `MAIL_FROM` and `RESEND_API_KEY` are not optional); listeners get the
filters that are there when they are bound, which is why
`deferInitialization` matters; the init hooks run once when the microservice
starts and again when HTTP does. In between, `main.ts:105` awaits the consumer's
connection to RabbitMQ, which is tried again without a limit: the process is
`awaiting broker` until `BrokerConnects`, and the broker comes and goes as it
likes (`BrokerComesOrGoes`). Each pass puts a probe into the object store
and deletes it (`ProbePuts`, `ProbeDeletes`); its failure is logged and the boot
goes on. `Process` is what the parts of the service rely on: down, consuming,
listening, and always whole. The refinement mapping takes a process that
consumes without being whole to a phase that `Process` does not have.

### HttpPipeline and Languages

`HttpPipeline` follows one request through `JwtAuthGuard`, `LanguageGuard`,
`TokenBucketGuard`, the guard of the route, the pipe, the handler,
`ErrorInterceptor` and `HttpExceptionFilter`; accounts are removed or change
their role at any moment. The guards run in the order of their registration
(`AfterAuthentication`). `Languages` has the guard's choice (`Resolve`), the
client's preference stated on its own (`Preferred`), and `Translated`: a message
that is a code, alone or before a detail, is translated; any other text is left
as it is. The dictionaries themselves are data; their type makes every entry
have every language.

### Editing and Passwords

A schema in `Editing` is the sets of the fields a body must have, may have or
gets by default. `Partial`, `Omit`, `Extend` and `Strict` are Zod 4's; its
`.partial()` keeps defaults. The services that write rows are not in this
repository: a comment at `session.schema.ts:62-67` says that every field of the
parsed body is written, and `Update` does so. `row[f]` is where the value of a
field comes from, `wanted[f]` the last value that was sent for it.

In `Passwords` a password is its length, out of the values on both sides of
every bound, and whether it has all four kinds of characters. An account is
created by registration, by an admin under one of two schemas, or by
`seed-users-bulk` with any `SEED_PASSWORD` of six characters or more
(`SeedUsers`); its password is changed or reset; login
applies `passwordFieldSchema` to the password it is given. Which schema a
service applies is taken from the schemas' names and comments.

### RedisHealth

`health.redis` sends its commands one after the other. Each waits while Redis
is away, because the client queues without limit; an error of any of them but a
`get` makes the answer `unhealthy`. Keys come, go and change their type between
any two commands.

### ThirdService and LiveService

`ThirdService` puts the parts into one process: queues are served once it
consumes, HTTP once it listens, and a crash takes what is under way in every
part with it, while the object store, Redis and the accounts go on. The process
is the abstract one, which `services_live` shows `Bootstrap` to implement. The
parts share nothing else, so a behaviour follows one of them (`focus`); all of
them are followed by some behaviour. `Editing` and `Passwords` do not depend on
the process. `LiveService` has the parts for which something must happen in the
end, each with its faults, one focus at a time, under fairness.

### What is abstracted

Payloads, headers other than Authorization and Accept-Language, durations, texts
and log lines; the `Limit` of the rate limiter as floating-point (all quantities
are rationals with denominator `Ttl`); statistics queries, which only read.
Patterns other than the log's own are one pattern, `business`. Ids made by
`randomUUID` are distinct from every id callers hand on.

## 3. Runs

| Run (module) | Question | Bounds and why they are enough |
|---|---|---|
| `bucket_single` (`MCTokenBucket`) | With one instance, a sound clock and connection: is the rate kept, is refill never handed out twice, are the headers true? | two requests in flight, 2 tokens per 3 s, 7 s: the rate is fractional, buckets expire (4 s) and reopen within the bound, requests are overtaken by ticks |
| `bucket_fleet` (`MCTokenBucket`) | What is left of the rate with two instances, clocks a second apart and stepped, and one fault of any kind? | two requests on different or the same connection are the least that can be reordered or resent; 5 counted tokens over 2 s exceed the bucket several times |
| `bucket_redis_down` (`TokenBucket`) | Does a request survive a Redis that stays down, as a comment says? **Violated** | |
| `log_main` (`MCRequestLog`) | Is an entry stored at most once, shown only when stored, never dropped silently; are pages whole? Does `RequestLog` implement `RequestJournal`? | three hops of any kind at once (a business hop, a foreign one and a query between them), one page per row so that pages fill, an admin and another user, one crash of service or broker |
| `log_trace` (`RequestTrace`) | Is a trace in the order things happened, as the API says? **Violated** | |
| `scenario_main` (`TestScenario`) | Are verdicts consistent while scenarios change under two runs; is a returned verdict stored; does every run end? | two runs of one scenario, one edit, one deletion, one crash: each pair of runs, edit and crash interleaves freely |
| `scenario_auth_case` (`ReplayFromLogs`) | Is an auth case made of a logged request replayed without a token, as a comment says? **Violated** | one scenario, one run |
| `seeding_main` (`Seeding`) | Do the scripts, in any order, interrupted and run again, do what they promise and leave alone what is not theirs? | every script, three starts of which one may be interrupted at any statement, two years: an interrupted run is followed by another script and by itself again; two groups of samples and limits of one and two, so that the cut takes nothing, a usable sample or an unusable one |
| `services_main` (`MCThirdService`) | Do the parts of the process keep their promises while calls interleave, answers are lost and it dies? What do updates and password rules do to rows and accounts? | two calls on notifications with a paging client, two old notes and a new one on pages of one: every find meets a write of another call, every page a shift; two upload calls for two files with two attempts each, and a download between them; one token with a time to live of none, 1 or 2 in 4 seconds, one resend; a request, with every kind of language header, while two accounts change three times: each may be lost, regained or gone at any guard; every kind of row, created with all or no optional fields, and two updates of any one field or none: the second sees what the first reset; passwords at both sides of every bound, and any way of creating the account and any sequence of settings; one death |
| `services_live` (`LiveService`) | Does what must happen in the end happen: boots, calls, limited requests, replies? Does `Bootstrap` implement `Process`? | three attempts to connect, one restart, with and without the settings, a broker that comes and goes; one caller of notifications and two notes; two files in an upload with two attempts, one download; two keys with a sample of one, Redis going away twice; two hops and two crashes; two requests on one connection (head-of-line waiting) and two faults, so that a resend meets a second crash |
| `http_envelope` (`HttpPipeline`) | Has every error the documented shape, as the API says? **Violated** | |
| `notifications_filter` (`Notifications`) | Does the list have what the client asked for, as the API says? **Violated** | |

Every counter is capped by a constant marked *bound* in its module: `MaxTime`,
`MaxLatency`, `Skew`, `MaxFaults`, `MaxCharges`, `MaxSlip`, `MaxEdits`,
`MaxCrashes`, `MaxNotes`, `MaxTtl`, `MaxClock`, `MaxResends`, `MaxDeaths`,
`MaxChanges`, `MaxBreaks`.
Deadlock is checked except where the bounds let the system stop: in
`scenario_main`, `scenario_auth_case` and `log_trace` every run or hop may be
over, in the runs of `ThirdService`, `LiveService` and their parts every call was
made and the process may not die again. Symmetry is used in runs without liveness only.

### What the properties say

- **WindowBound**: in *any* window a caller takes at most one bucketful plus
  the refill over the window; what clocks that go back and lost buckets add is
  accounted for exactly (`slip`, `wipes`). The bound is not the naive one: with
  several instances a stamp that lies before the last refill is stored, and the
  seconds between are earned again.
- **NoSlip**: with one instance, a clock that is not stepped, and commands that
  wait no longer than the extra lifetime of a key, nothing is earned twice. The
  ten seconds added to the expiry are what makes this true.
- **RemainingHonoured**, **RetryAfterExact**: the two headers.
- **Answered**: no request waits for ever if Redis comes back. (Checked in
  `services_live`, as is **RepliedDespiteLogging**.)
- **NoSilentLoss**: every business hop that ended has a row with its outcome, a
  write under way, a warning, or died with the service. **FeedOnlyToAdmins** and
  **PagesAreFull** are explained in the module.
- **JournalSpec**: the refinement, with every insert, lost answer and crash.
- **RepliedDespiteLogging**: the reply does not depend on Postgres.
- **VerdictsConsistent**, **VerdictIsRecorded**: what a run reports fits the
  version of the scenario it read and is stored, unless the scenario was
  deleted. **RunsEnd**: no run stays open for ever.
- **NaturalKeysUnique**, **FinishedAsPromised**: however often scripts were
  interrupted, nothing is there twice, and a script that came to its end leaves
  everything it promises. **DemoOfOneRun**, **OthersRowsSurvive**: rows of
  different runs do not mix, and rows of others are never deleted (except by
  `recreate-db`, which drops the tables).
- **BoardRefined**: the refinement of `NoticeBoard`. **ReadAcknowledged**: what
  a caller was told is read is read, or gone. **WalkSkipsNothing**: a paging
  client sees every row that stayed on its list, although others arrive; rows
  that leave the list may make it skip some, and are excluded by the property.
- **ReportedIsStored**, **StraysHaveFailedCalls**: the two directions between
  the object store and what callers were told.
- **TokenBeforeMail**: what the comment at `redis.rpc.controller.ts:19` promises,
  also when Redis is away and commands are repeated. **ExpiresAsAsked**: from its
  first mail on a token is valid for at most the seconds its caller asked for,
  however late and however often its command was executed.
  **SpentForGood**: nor does a repetition bring a spent token back.
- **DownloadTruthful**: a client that was told a key hears "not found" only after
  somebody deleted the file; and a deleted file comes back only if its put was
  repeated.
- **HandledForEntitled**: which handlers ran for whom. The role is the token's:
  somebody who was an admin passes until the token expires.
- **SpokenAsAsked**: a message that can be translated is in the client's
  preferred language, whichever guard, pipe, handler or interceptor it is from.
- **OmittedKept**: a field holds what was sent for it last; the exceptions are
  exactly the fields with a default in a schema reused by `.partial()`. Sessions,
  whose update schema is written out for this reason, are none of them.
- **LoginStaysOpen**: an account may be created, by an admin or by the bulk
  seeder, with a password that login refuses to look at. Afterwards nothing locks
  anybody out: a change or a reset leaves a password that login takes, also where
  there was none before, and whoever is signed in could sign in again.
- **ServesOnlyWhole**: `Bootstrap` implements `Process`: nothing is consumed
  before Postgres answered, filter and interceptor are bound and the sink is set;
  Redis is connected to once; HTTP comes after the queue, in the same life.
- **BootEnds**: if the broker is there in the end, a boot ends in a process that
  listens or in one that is down. Without the broker it hangs, and that is what
  the code does: it serves neither HTTP nor the queue and does not exit.
- **CallsEnd**: calls to the notifications, the uploads and the health check end
  although one of their statements, commands or streams fails, or die with the
  process. Downloads over HTTP whose stream breaks are the exception.

### Fairness

Weak fairness is assumed of steps that something waits for, never of a caller,
and no fault is forced.

- The event loop: handlers end, and what is after an await is run once the
  awaited answer is there (`Answer`, `AnswerUpload`, `RejectUpload`, `Process`,
  `Assemble`, the init hooks, `RequestLog!Handle`).
- Postgres answers a statement, refuses it, or the connection breaks
  (`Statement`, `PostgresAnswers` or `PostgresFails`). For `RequestLog` nothing is
  assumed of Postgres or of the broker: the reply must not need them.
- The boot goes on once RabbitMQ can be reached (`BrokerConnects`, which is
  enabled only then). That it can be is assumed nowhere; `BootEnds` is conditional
  on it (`<>[]brokerUp`), although `docker-compose.yml` restarts it too.
- The object store answers a command, or the connection breaks (`PutEnds`,
  `GetEnds`), and so for the stream of a download. The `requestTimeout` of
  `upload.provider.ts:24` is no help: with the request handler's defaults it
  warns and does not abort the request.
- Redis and its connection serve what is queued (`Execute`, `Served` or
  `Refused`), and Redis comes back (`docker-compose.yml`,
  `restart: unless-stopped`). `bucket_redis_down` drops the latter.
- `TestScenario!FairSpec`: the timeout fires (`AbortSignal.timeout` covers the
  fetch and its body), and an insert that was sent, or the broken connection,
  is answered. Nothing is assumed of the gateway.

## 4. Where the code and its comments disagree

1. `bucket_redis_down`: `features/redis/redis.service.ts:64` says Redis is
   "fails-open elsewhere". The guard awaits the script on a client that queues
   commands without limit, and catches nothing: while Redis is down every HTTP
   request waits.
2. `log_trace`: `features/log/log.controller.ts:50` promises rows "ordered by
   when it happened". They are ordered by `created_at`, which each independent
   insert gets when it executes, so a hop may be listed before one that had
   ended when it began.
3. `scenario_auth_case`: `features/test-scenario/test-scenario.service.ts:91-93`
   says that a template built from `request_logs` "has no authorization header",
   and that auth cases "stay untouched". `seed-test-scenarios-from-logs.ts:141`
   gives every request that was not public the header `Bearer {{accessToken}}`,
   and what was answered with 401 or 403 is an auth case (line 45). A run replaces
   the placeholder by its caller's token before it looks at the category, so a
   logged 401 for want of a token is replayed with one.
4. `http_envelope`: `API_ENDPOINTS.md:8` gives one shape for errors.
   `HttpExceptionFilter` catches `HttpException`s only, and `ErrorInterceptor`,
   which makes one of any other error, runs after the guards. When the query of
   `JwtAuthGuard` or the script of `TokenBucketGuard` fails, the caller gets the
   framework's own 500.

5. `notifications_filter`: `features/notification/notification.controller.ts:68`
   documents the filter `isRead` as a boolean. `z.coerce.boolean()` makes true of
   the string `false`, so a client that asks for unread notifications gets those
   that have been read; `student.schema.ts:51-52` describes this very trap.

Two more were seen and are stated as properties of what the code does instead.
`.partial()` resets fields for ten kinds of rows although
`session.schema.ts:62-67` calls that silent wiping (`OmittedKept`). And
`API_ENDPOINTS.md:107,136,151` gives one rule for the password of a new user, tutor
or student and for a changed one, 8 to 14 characters of all four kinds, and
`admin.schema.ts:11` says its rule mirrors the others; but `createUserSchema` and
`createManagedUserSchema` take 6 to 20 characters and check the kinds from 8 on, or
between 8 and 14, only (`CreateUserTakes`, `CreateManagedTakes`). Some of what
they take, and of what the bulk seeder does, login refuses: `LoginStaysOpen` says
only that it does not come to that later on.

## 5. Proofs

Of the constants only the named assumptions beside their declarations are used:
any positive rate, time to live and page size, any sets of requests, instances,
users, callers, tokens, messages and viewers, any bounds. `NotificationsAssumption`
wants somebody for whom the old rows are; `UploadsAssumption` that "nobody" is
not a caller; `SeedingAssumption` that every list a script works off has
something on it, that the tutor the dashboard is for is one of the tutors, and
that the level the demos use is one that exists. TLC evaluates all of them on the
runs. Each proof has the same shape: an inductive invariant, its preservation by
every statement, and the property from it.

**TokenBucketProofs**

- `TypeCorrect`: the state is well formed; in particular a bucket always holds
  between 0 and its capacity.
- `WindowBoundCorrect`: `WindowBound` for every value of the constants.
  The bound itself is not inductive: it says nothing of what a bucket still
  holds. `WindowInv` adds it: while a bucket exists, what it holds plus what
  was taken is at most a bucketful plus the refill up to the *bucket's own
  clock* (`LiveBudget`); after it expired, it is full anew at `fullAt` and what
  was taken before is at most the refill up to that moment (`ExpiredBudget`).
  `Deny` leaves both alone, `Take` moves the clock and adds the same refill to
  both sides, or, when the stamp lies behind, adds the difference to `slip`.
  Expiry keeps the budget because a bucket that was full at `fullAt` held its
  capacity then.
- `RemainingHonouredCorrect` holds of every deployment: what a caller was told
  to have left never exceeds what the bucket holds (`RemainingInv`), and a denial
  finds less than a token.
- `NoSlipCorrect` and `RetryAfterExactCorrect` are about `OneSoundInstance`: at
  most one instance, no fault, no step of its clock, commands that wait no longer
  than the slack of a bucket's expiry, and a rate the script's lower bound leaves
  alone, as `bucket_single` has them. Without them the claims fail: in
  `bucket_fleet` buckets do slip, and `WindowBound` has to count it. `PromptInv`
  says that of two waiting requests one was stamped no earlier and has the other
  ahead of it (`StampsInOrder`), hence that no bucket's clock is ahead of a
  stamp on its way, also over an expiry, since the bucket outlives its refill by
  the slack (`ClockFits`); and that the promised second is the first with a
  token (`PromiseFits`), where the rounding up of the division matters.

**RequestLogProofs**

- `LogTypeCorrect`, `NoSilentLossCorrect`, `FeedOnlyToAdminsCorrect` follow from `LogInv`: a hop hands over one entry,
  under its own name and only by the step that ends it (`HopInv`); the table
  holds exactly the entries whose insert was executed (`RowsInv`); a connected
  socket has received only entries already broadcast (`FeedInv`).
- `JournalRefined`: `Spec => JournalSpec`. Sending, delivering, counting and
  most failures are stutters of the journal; the steps that end a hop report,
  `InsertRow` records (`RowsInv` gives that the entry is new to the table),
  `CreateResolves` shows (`FeedInv` gives that no connected socket has seen it
  and `HopInv` that it is stored), a parting socket or a crash empties screens.
- `PagesAreFullCorrect`: `PageInv` adds that what a query counted is still
  there, because rows only arrive, so its select finds at least that many.

**TestScenarioProofs**

- `ScenarioTypeCorrect`, `VerdictsConsistentCorrect` and
  `VerdictIsRecordedCorrect` follow from `ScenarioInv`. A verdict is consistent
  because it is computed from the snapshot alone (`VerdictOf`), which no edit
  reaches, and stored once because every row belongs to a run whose insert is
  `stored` and only a run with a `sent` insert adds one. That a returned verdict
  is still there needs that a snapshot's id was born and is never given out
  again (`RunInv`): only a deletion of that id takes the row away, and after it
  `Stored` is false for good.

**NotificationsProofs**

- `NotificationsTypeCorrect`, `ReadAcknowledgedCorrect`,
  `WalkSkipsNothingCorrect` follow from `NotesInv`. A call between its find and
  its write knows what it found; that this is of use later needs that no
  statement of another call gives an id out twice, changes whom a row is for or
  takes back that it was read (`Advanced`), and then what a call knows stays
  true (`Fits`). For paging, `WalkInv` says that the rows of the list ranked
  before the next page were seen: arrivals push rows to later pages, so what has
  not been seen is never ranked lower; it holds while the walk is not `shrunk`,
  that is, no row of its list went.
- `BoardRefinedCorrect`: the service implements `NoticeBoard`. A find is a
  stutter unless it ends the call; a write that no longer meets its row takes
  effect as the board's call on a row that *was* there, which `Fits` supplies.

**UploadsProofs**

- `UploadsTypeCorrect`, `ReportedIsStoredCorrect`, `DownloadTruthfulCorrect`,
  `StraysHaveFailedCallsCorrect` follow from `UploadsInv`. That a told file is in
  the store needs that a file is `stored` only after an attempt was executed, one
  more than are still on the way (`FileFits`), because only that leaves a late
  attempt nothing to do but to repeat; that a stray has a call that failed, that
  a call which answered told every key (`CallFits`); downloads, that what a
  download saw of its key stays so (`DownloadFits`).

**PasswordProofs**

- `ResetTypeCorrect`, `TokenBeforeMailCorrect`, `ExpiresAsAskedCorrect`,
  `SpentForGoodCorrect` follow from `ResetInv`. Repetitions of the set command
  are the danger: `FlowFits` says that past the reply no copy is on its way, so
  nothing renews the token after the mail, nor brings it back after it was
  spent; `ExpiryFits` bounds the moment a stored token expires by every mail.
- `PasswordsTypeCorrect`, `LoginStaysOpenCorrect`: `PasswordInv` says that
  whoever is signed in has a password that login takes. A change or a reset leaves
  such a password (`Replacing`), a login has found one, and nothing else touches
  the account while somebody is signed in.

**ThirdServiceProofs**

- `ResolvePrefers` (lemma): for every header with weights, sorting its tags and
  taking the first that is spoken gives the preferred language. It needs the
  least element of a set of numbers, from the well-foundedness of `<`.
- `HttpTypeCorrect`, `HandledForEntitledCorrect`, `SpokenAsAskedCorrect` follow
  from `HttpInv`: what a request has passed by each stage, as `RequestFits` says:
  whoever is past the lookup was found, past the guard of an admin's route holds
  an admin's token, past the language guard has the language it asked for.
- `EditingTypeCorrect`, `OmittedKeptCorrect`: about each of the fifteen kinds of
  rows, that the fields of its update schema are those of its row.
- `PartsUndisturbed`: `ThirdService` implements the specification of each of its
  parts, and `Process`; a step of one part is a stutter of the others, and a
  crash is the death each of them allows. `ServiceTypeCorrect` and
  `ServiceCorrect` then carry all the theorems above over to the whole process.

**DeploymentProofs**

- `BootstrapTypeCorrect`, `ServesOnlyWholeCorrect`: `BootInv` says what a boot
  has reached by each phase: an answer from Postgres before anything else, a sink
  and the listeners' filters before the first hooks, one connection to Redis
  before it waits for the broker. With it `Bootstrap` implements `Process`, and
  `ThirdService` is built on `Process` only (`PartsUndisturbed`).
- `SeedingTypeCorrect`, `NaturalKeysUniqueCorrect`, `FinishedAsPromisedCorrect`,
  `DemoOfOneRunCorrect`, `OthersRowsSurviveCorrect` follow from `SeedInv`, which
  has a group of conjuncts for each table: what is in it whatever was
  interrupted, what the script under way has done so far, and what a finished
  one promised.
  - `UsersFit`, `UsersDone`: `tutor_n` is of run `n` only, and a username of a
    student or of a demo's tutor is its email too. Scripts that look for the
    email alone therefore do not collide in the username. `users-bulk` works off
    exactly what its lookup did not find.
  - `GradesFit`, `ScenariosFit`: what is not left to do is there; of the logs,
    what is usable within the limit the script was given.
  - `ClassesFit`: once the dashboard has wiped, the tutor's seeded classes are of
    this run, one for each number it has come to, whole but for the one under
    construction, which has the parts before this phase. An earlier run's half
    class is wiped whatever year it is of, because the wipe asks for the prefix
    and the tutor only.
  - `CoursesFit`, `CoursesDone`: every row of a demo's suffix has the parents of
    that suffix, whose emails are unique; a second run with the suffix stops at
    them, its first part. This holds through `recreate-db` because that drops
    `users` after all the tables that hang on it.
  - `RecreateFits`: what is left to drop is what is there, and after the push
    there is nothing but the accounts made so far.

  The proof goes by phase: `StepOfPhase` gives what the one statement of a phase
  does, `Moving` how the list of a phase is worked off, and each group is
  preserved by the statements that touch its table, by the others because they
  leave it alone (`...Otherwise`), by start and kill because they have no
  statement. `SeedInv` was checked by TLC on the instance of `seeding_main`
  before it was proved.

Every invariant, action property and refinement that a passing run checks is
stated by a theorem. Model-checked only: everything about liveness (`Answered`,
`RepliedDespiteLogging`, `RunsEnd`, `BootEnds`, `CallsEnd`), which is out of the
prover's reach. That scenarios' auth cases stay untouched, and the other claims
of section 4, are refuted by the model checker.

## 6. Not modelled, and the plan

What may come next: the enabling conditions the liveness properties rest on, as
far as they are plain invariants (in every state with a waiting request, some
step of it or of the recovery can be taken); and a bound on how early
`Retry-After` may be when several instances disagree about the time.

Not modelled, and why:

- Two scripts at the same time, and users the API creates while one runs: the
  scripts are started by hand, one after the other.
- The formats of single fields, and the schemas of list queries, which decide
  what is read and change nothing (but for `isRead`).
- The dictionaries, the API documentation data and constants: no behaviour.
- The bodies of SQL statements beyond what they read and write, statistics and
  search.
- That the reset mail names the right number of minutes: its text is fixed, the
  time to live is chosen by the gateway.
- The validation of `updateTestScenarioSchema`, which nothing in this repository
  applies.
- What a boot without the broker logs, and what RabbitMQ keeps of the queue
  meanwhile.
- The package `@tutor/gateway` and the services behind the schemas, which are
  outside this repository; where it matters, as in what becomes of the runs of a
  deleted scenario, either answer is allowed. Resend and the object store beyond
  how this code calls them.
