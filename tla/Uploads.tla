------------------------------ MODULE Uploads ------------------------------
(***************************************************************************)
(* Uploading files to the object store, one or several at a time, and      *)
(* reading them back.  Every file gets a random key; here the file is its  *)
(* key.  The client of the store repeats an attempt that was not answered, *)
(* and an attempt it has given up may still be executed.                   *)
(***************************************************************************)
EXTENDS Naturals, FiniteSets

CONSTANTS
    Files,         \* files somebody may upload
    Uploaders,     \* upload calls, each made once
    Downloaders,   \* download calls, each made once
    MaxFiles,      \* files of one call (ten, over HTTP)
    MaxAttempts    \* attempts of the S3 client per command

NoUploader == "nobody"

ASSUME UploadsAssumption ==
    /\ MaxFiles \in Nat \ {0} /\ MaxAttempts \in Nat \ {0}
    /\ NoUploader \notin Uploaders

VARIABLES
    upload,      \* upload[f]: how far f is, and in which call
    onTheWay,    \* attempts to put f that the store has not executed
    attempts,    \* attempts to put f so far
    objects,     \* what the store holds
    uploading,   \* uploading[u]: state of call u
    told,        \* keys somebody was told
    deleted,     \* keys whose deletion was executed
    download     \* download[d]: what call d asks for, and what becomes of it

storeVars == <<upload, onTheWay, attempts, objects, uploading, told, deleted>>
uploadVars == <<storeVars, download>>
-----------------------------------------------------------------------------
UploadSteps == {"unused", "processing", "putting", "stored", "failed"}

NoKey == "no key"
NoDownload == [at |-> "idle", key |-> NoKey, way |-> "none",
               wasTold |-> FALSE, wasDeleted |-> FALSE]

UploadsInit ==
    /\ upload = [f \in Files |-> [step |-> "unused", of |-> NoUploader]]
    /\ onTheWay = [f \in Files |-> 0] /\ attempts = [f \in Files |-> 0]
    /\ objects = {} /\ told = {} /\ deleted = {}
    /\ uploading = [u \in Uploaders |-> "idle"]
    /\ download = [d \in Downloaders |-> NoDownload]

FilesOf(u) == {f \in Files : upload[f].of = u}

To(f, step) == upload' = [upload EXCEPT ![f].step = step]

(* upload, or uploadMultiple: all files are started at once. *)
BeginUpload(u) ==
    /\ uploading[u] = "idle"
    /\ \E fs \in SUBSET {f \in Files : upload[f].of = NoUploader} :
          /\ fs # {} /\ Cardinality(fs) <= MaxFiles
          /\ upload' = [f \in Files |->
                          IF f \in fs THEN [step |-> "processing", of |-> u]
                                      ELSE upload[f]]
    /\ uploading' = [uploading EXCEPT ![u] = "running"]
    /\ UNCHANGED <<onTheWay, attempts, objects, told, deleted, download>>

(* An image is converted first, which may fail; the others are put as is.  *)
Process(f) ==
    /\ upload[f].step = "processing"
    /\ \/ /\ To(f, "putting")
          /\ onTheWay' = [onTheWay EXCEPT ![f] = 1]
          /\ attempts' = [attempts EXCEPT ![f] = 1]
       \/ To(f, "failed") /\ UNCHANGED <<onTheWay, attempts>>
    /\ UNCHANGED <<objects, uploading, told, deleted, download>>

(* The store executes an attempt; the client hears of it, or does not. *)
StorePuts(f) ==
    /\ onTheWay[f] > 0
    /\ onTheWay' = [onTheWay EXCEPT ![f] = @ - 1]
    /\ objects' = objects \union {f}
    /\ \/ upload[f].step = "putting" /\ To(f, "stored")
       \/ UNCHANGED upload
    /\ UNCHANGED <<attempts, uploading, told, deleted, download>>

(* Faulty variant: one attempt too many. *)
RepeatPutOnceMore(f) ==
    /\ upload[f].step = "putting" /\ attempts[f] <= MaxAttempts
    /\ attempts' = [attempts EXCEPT ![f] = @ + 1]
    /\ onTheWay' = [onTheWay EXCEPT ![f] = @ + 1]
    /\ UNCHANGED <<upload, objects, uploading, told, deleted, download>>

RepeatPut(f) ==
    /\ upload[f].step = "putting" /\ attempts[f] < MaxAttempts
    /\ attempts' = [attempts EXCEPT ![f] = @ + 1]
    /\ onTheWay' = [onTheWay EXCEPT ![f] = @ + 1]
    /\ UNCHANGED <<upload, objects, uploading, told, deleted, download>>

(* The store refuses, or the connection breaks at the last attempt. *)
PutFails(f) ==
    /\ upload[f].step = "putting"
    /\ To(f, "failed")
    /\ UNCHANGED <<onTheWay, attempts, objects, uploading, told, deleted, download>>

(* Faulty variant: the call is answered once the puts are under way. *)
AnswerUnawaited(u) ==
    /\ uploading[u] = "running"
    /\ \A f \in FilesOf(u) : upload[f].step \in {"putting", "stored"}
    /\ uploading' = [uploading EXCEPT ![u] = "answered"]
    /\ told' = told \union FilesOf(u)
    /\ UNCHANGED <<upload, onTheWay, attempts, objects, deleted, download>>

(* Faulty variant: the answer names only what was stored last. *)
AnswerOneOf(u) ==
    /\ uploading[u] = "running"
    /\ \A f \in FilesOf(u) : upload[f].step = "stored"
    /\ uploading' = [uploading EXCEPT ![u] = "answered"]
    /\ \E f \in FilesOf(u) : told' = told \union {f}
    /\ UNCHANGED <<upload, onTheWay, attempts, objects, deleted, download>>

(* Promise.all: the answer waits for all files, the error for the first    *)
(* failure only; the other files go on.                                    *)
AnswerUpload(u) ==
    /\ uploading[u] = "running"
    /\ \A f \in FilesOf(u) : upload[f].step = "stored"
    /\ uploading' = [uploading EXCEPT ![u] = "answered"]
    /\ told' = told \union FilesOf(u)
    /\ UNCHANGED <<upload, onTheWay, attempts, objects, deleted, download>>

RejectUpload(u) ==
    /\ uploading[u] = "running"
    /\ \E f \in FilesOf(u) : upload[f].step = "failed"
    /\ uploading' = [uploading EXCEPT ![u] = "rejected"]
    /\ UNCHANGED <<upload, onTheWay, attempts, objects, told, deleted, download>>

(* Somebody who was told a key deletes it; S3 does not mind if it is gone. *)
DeleteObject(f) ==
    /\ f \in told \ deleted
    /\ objects' = objects \ {f}
    /\ deleted' = deleted \union {f}
    /\ UNCHANGED <<upload, onTheWay, attempts, uploading, told, download>>

Proceed(d, at) == download' = [download EXCEPT ![d].at = at]

(* A key may be wrong, or come from anywhere.  Without one HTTP answers at *)
(* once, and over RPC the client of the store refuses.                     *)
AskDownload(d) ==
    /\ download[d].at = "idle"
    /\ \E key \in Files \union {NoKey}, way \in {"http", "rpc"} :
          download' = [download EXCEPT ![d] =
             [at |-> CASE key # NoKey -> "asked"
                       [] key = NoKey /\ way = "http" -> "bad request"
                       [] OTHER -> "error",
              key |-> key, way |-> way,
              wasTold |-> key \in told, wasDeleted |-> key \in deleted]]
    /\ UNCHANGED storeVars

(* Faulty variant: whatever the store says, the file is not there. *)
NotFoundAnyway(d, reason) ==
    IF download[d].way = "http" THEN "not found" ELSE "error"

(* The controller tells a missing key from other errors; RPC does not. *)
Failed(d, reason) ==
    IF download[d].way = "http" /\ reason = "NoSuchKey" THEN "not found"
                                                        ELSE "error"

(* GetObject: the head of the answer, after which the object's content is  *)
(* on its way whatever becomes of the object.                              *)
GetObject(d) ==
    /\ download[d].at = "asked"
    /\ IF download[d].key \in objects
       THEN Proceed(d, "streaming")
       ELSE Proceed(d, Failed(d, "NoSuchKey"))
    /\ UNCHANGED storeVars

GetObjectFails(d) ==
    /\ download[d].at = "asked"
    /\ Proceed(d, Failed(d, "other"))
    /\ UNCHANGED storeVars

StreamEnds(d) ==
    /\ download[d].at = "streaming"
    /\ Proceed(d, "delivered")
    /\ UNCHANGED storeVars

(* Faulty variant: a broken stream goes unnoticed over RPC, too. *)
StreamBreaksUnheard(d) ==
    /\ download[d].at = "streaming"
    /\ Proceed(d, "hanging")
    /\ UNCHANGED storeVars

(* Over RPC the loop that collects the chunks throws.  Over HTTP nobody    *)
(* listens: pipe() passes no error on, and the answer is never ended.      *)
StreamBreaks(d) ==
    /\ download[d].at = "streaming"
    /\ Proceed(d, IF download[d].way = "http" THEN "hanging" ELSE "error")
    /\ UNCHANGED storeVars

Download(d) ==
    \/ AskDownload(d) \/ GetObject(d) \/ GetObjectFails(d)
    \/ StreamEnds(d) \/ StreamBreaks(d)

(* The service dies; attempts it has sent may still be executed. *)
UploadsDie ==
    /\ download' = [d \in Downloaders |->
                      IF download[d].at \in {"asked", "streaming", "hanging"}
                      THEN [download[d] EXCEPT !.at = "dead"] ELSE download[d]]
    /\ upload' = [f \in Files |->
                    IF upload[f].step \in {"processing", "putting"}
                    THEN [upload[f] EXCEPT !.step = "failed"] ELSE upload[f]]
    /\ uploading' = [u \in Uploaders |->
                       IF uploading[u] = "running" THEN "dead" ELSE uploading[u]]
    /\ UNCHANGED <<onTheWay, attempts, objects, told, deleted>>

(* An attempt on its way no longer needs the service. *)
StoreStep == \E f \in Files : StorePuts(f)

UploadsNext ==
    \/ \E u \in Uploaders : BeginUpload(u) \/ AnswerUpload(u) \/ RejectUpload(u)
    \/ \E f \in Files :
          Process(f) \/ RepeatPut(f) \/ PutFails(f) \/ DeleteObject(f)
    \/ \E d \in Downloaders : Download(d)

UploadsSpec ==
    UploadsInit /\ [][UploadsNext \/ StoreStep \/ UploadsDie]_uploadVars
-----------------------------------------------------------------------------
(* Types; no more attempts than the client makes. *)
UploadsOK ==
    /\ \A f \in Files :
          /\ upload[f].step \in UploadSteps /\ upload[f].of \in Uploaders \union {NoUploader}
          /\ onTheWay[f] \in 0 .. attempts[f] /\ attempts[f] \in 0 .. MaxAttempts
    /\ objects \union told \union deleted \subseteq Files
    /\ \A u \in Uploaders :
          uploading[u] \in {"idle", "running", "answered", "rejected", "dead"}
    /\ \A d \in Downloaders :
          /\ download[d].at \in {"idle", "asked", "streaming", "delivered",
                "hanging", "not found", "bad request", "error", "dead"}
          /\ download[d].key \in Files \union {NoKey}

(* A key that somebody was told is in the store until its deletion.        *)
(* (upload.service.ts:71-85; uploadMultiple, 109-111)                      *)
ReportedIsStored == told \ deleted \subseteq objects

(* A client that was told a key hears "not found" only after somebody has  *)
(* deleted the file, and a deleted file is delivered only if its put was   *)
(* attempted twice: a copy of the put that comes late brings it back       *)
(* (upload.controller.ts:91-116, upload.service.ts:92-107).                *)
DownloadTruthful ==
    \A d \in Downloaders :
        LET f == download[d].key
        IN  /\ download[d].at = "not found" /\ download[d].wasTold => f \in deleted
            /\ download[d].at = "delivered" /\ download[d].wasDeleted =>
                  attempts[f] > 1

(* An object nobody was told of belongs to a call that is not answered: it *)
(* is under way, it was rejected because another file of it failed or this *)
(* put was given up, or the service died (upload.service.ts:109-111).      *)
StraysHaveFailedCalls ==
    \A f \in objects \ told :
        uploading[upload[f].of] \in {"running", "rejected", "dead"}
=============================================================================
