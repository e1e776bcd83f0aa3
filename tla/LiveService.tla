---------------------------- MODULE LiveService ----------------------------
(***************************************************************************)
(* What the service owes its callers in the end.  The parts do not touch   *)
(* each other, so a behaviour looks at one of them, its focus; fairness is *)
(* stated for every step that something is waiting for, and for nothing    *)
(* else: handlers, the event loop, and the answers or broken connections   *)
(* of Postgres and of the object store.                                    *)
(***************************************************************************)
EXTENDS Bootstrap, Notifications, Uploads, RedisHealth

CONSTANTS
    Messages, Flows, NoFlow, Patterns, Viewers, Admins,
    Requests, Servers, Users, Ips, Routes, NoUser, NoIp,
    Limit, Ttl, RateFloor, ExpirySlack, Skew, MaxLatency, MaxTime,
    MaxFaults    \* as in RequestLog and TokenBucket

VARIABLES
    up, msg, hop, entry, write, insert, rows, page, viewer, feed, faults,
    time, offset, redisUp, bucket, pc, cmd, ahead, reply, losses,
    focus

Log == INSTANCE RequestLog
Limiter == INSTANCE TokenBucket WITH faults <- losses

logVars == <<up, msg, hop, entry, write, insert, rows, page, viewer, feed, faults>>
limiterVars == <<time, offset, redisUp, bucket, pc, cmd, ahead, reply, losses>>
vars == <<bootVars, notificationVars, uploadVars, healthVars, logVars,
          limiterVars, focus>>
-----------------------------------------------------------------------------
Parts == {"boot", "notifications", "uploads", "health", "log", "limiter"}

(* A part that is not looked at starts in one of its states only. *)
Init ==
    /\ focus \in Parts
    /\ BootstrapInit /\ NotificationsInit /\ UploadsInit /\ HealthInit
    /\ Log!Init /\ Limiter!Init
    /\ focus # "boot" => configured /\ brokerUp
    /\ focus # "notifications" =>
          \E u \in People : \A n \in DOMAIN notes : notes[n].to = u
    /\ focus # "limiter" => \A s \in Servers : offset[s] = 0

BootStep ==
    /\ focus = "boot" /\ (BootstrapNext \/ ProcessDies)
    /\ UNCHANGED <<notificationVars, uploadVars, healthVars, logVars,
                   limiterVars, focus>>

NotifyStep ==
    /\ focus = "notifications" /\ (NotificationsNext \/ NotificationsDie)
    /\ UNCHANGED <<bootVars, uploadVars, healthVars, logVars, limiterVars, focus>>

UploadStep ==
    /\ focus = "uploads" /\ (UploadsNext \/ StoreStep \/ UploadsDie)
    /\ UNCHANGED <<bootVars, notificationVars, healthVars, logVars,
                   limiterVars, focus>>

HealthStep ==
    /\ focus = "health" /\ HealthNext
    /\ UNCHANGED <<bootVars, notificationVars, uploadVars, logVars,
                   limiterVars, focus>>

LogStep ==
    /\ focus = "log" /\ Log!Next
    /\ UNCHANGED <<bootVars, notificationVars, uploadVars, healthVars,
                   limiterVars, focus>>

LimiterStep ==
    /\ focus = "limiter" /\ Limiter!Next
    /\ UNCHANGED <<bootVars, notificationVars, uploadVars, healthVars,
                   logVars, focus>>

Next ==
    \/ BootStep \/ NotifyStep \/ UploadStep
    \/ HealthStep \/ LogStep \/ LimiterStep

Spec == Init /\ [][Next]_vars
-----------------------------------------------------------------------------
(* Each statement of a call ends: Postgres answers it, refuses it, or the  *)
(* connection breaks.                                                      *)
Statement(c) ==
    \/ Find(c) \/ CreateNote(c) \/ MarkRead(c) \/ MarkAllRead(c)
    \/ DeleteNote(c) \/ StatementFails(c)

(* Each command to the object store ends, too. *)
PutEnds(f) ==
    /\ upload[f].step = "putting"
    /\ StorePuts(f) \/ PutFails(f)
    /\ upload'[f].step # "putting"

GetEnds(d) == GetObject(d) \/ GetObjectFails(d)
StreamStops(d) == StreamEnds(d) \/ StreamBreaks(d)

(* docker-compose.yml restarts Redis unless it is stopped by hand. *)
Fairness ==
    /\ WF_bootVars(focus = "boot" /\ Booting)
    /\ \A c \in Callers :
          WF_notificationVars(focus = "notifications" /\ Statement(c))
    /\ \A f \in Files :
          /\ WF_uploadVars(focus = "uploads" /\ Process(f))
          /\ WF_uploadVars(focus = "uploads" /\ PutEnds(f))
    /\ \A u \in Uploaders :
          WF_uploadVars(focus = "uploads" /\ (AnswerUpload(u) \/ RejectUpload(u)))
    /\ \A d \in Downloaders :
          /\ WF_uploadVars(focus = "uploads" /\ GetEnds(d))
          /\ WF_uploadVars(focus = "uploads" /\ StreamStops(d))
    /\ WF_healthVars(focus = "health" /\ (Served \/ Refused))
    /\ WF_healthVars(focus = "health" /\ RedisBack)
    /\ \A m \in Messages : WF_logVars(focus = "log" /\ Log!Handle(m))
    /\ \A r \in Requests :
          /\ WF_limiterVars(focus = "limiter" /\ Limiter!Execute(r))
          /\ WF_limiterVars(focus = "limiter" /\ Limiter!Answer(r))
    /\ WF_limiterVars(focus = "limiter" /\ Limiter!RedisRestart)

FairSpec == Spec /\ Fairness
-----------------------------------------------------------------------------
(* Every request the guard of the bucket holds is let through or refused   *)
(* in the end, or dies with its server (token-bucket.guard.ts:40-57).      *)
Answered == Limiter!Answered

(* Logging never breaks the request path: a business hop ends although     *)
(* Postgres may never answer an insert (log-sink.ts emitRequestLog).       *)
RepliedDespiteLogging == Log!RepliedDespiteLogging

Downloading == {"asked", "streaming"}

(* Calls to the notifications, uploads, downloads and health checks end,   *)
(* or die with the service: one failure of several, a connection that      *)
(* breaks or Redis gone for a while leave nobody waiting.  The one         *)
(* exception is a download over HTTP whose stream breaks: nobody ends its  *)
(* answer (upload.controller.ts:94-99, upload.rpc.controller.ts:36-51,     *)
(* upload.service.ts:109-111, app.controller.ts:27-86).                    *)
CallsEnd ==
    /\ \A c \in Callers :
          call[c].at \in {"find", "write"} ~> call[c].at \in {"done", "dead"}
    /\ \A u \in Uploaders :
          uploading[u] = "running" ~>
              uploading[u] \in {"answered", "rejected", "dead"}
    /\ \A d \in Downloaders :
          download[d].at \in Downloading ~>
              /\ download[d].at \notin Downloading
              /\ download[d].at = "hanging" => download[d].way = "http"
    /\ check.at # "idle" ~> check.at = "answered"
=============================================================================
