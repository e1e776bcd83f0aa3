--------------------------- MODULE UploadsProofs ---------------------------
(***************************************************************************)
(* Proofs about Uploads, for every number of files, calls and attempts.    *)
(***************************************************************************)
EXTENDS Uploads, TLAPS

UploadStates == [step : UploadSteps, of : Uploaders \union {NoUploader}]

DownloadStates ==
    [at : {"idle", "asked", "streaming", "delivered", "hanging", "not found",
           "bad request", "error", "dead"},
     key : Files \union {NoKey}, way : {"none", "http", "rpc"},
     wasTold : BOOLEAN, wasDeleted : BOOLEAN]

UploadsType ==
    /\ upload \in [Files -> UploadStates]
    /\ onTheWay \in [Files -> Nat] /\ attempts \in [Files -> Nat]
    /\ objects \subseteq Files /\ told \subseteq Files /\ deleted \subseteq Files
    /\ uploading \in [Uploaders ->
                        {"idle", "running", "answered", "rejected", "dead"}]
    /\ download \in [Downloaders -> DownloadStates]

(* What is true of file f.  A file that was stored has had an attempt      *)
(* executed, so one that is put after its deletion had at least two.       *)
FileFits(f) ==
    /\ onTheWay[f] <= attempts[f] /\ attempts[f] <= MaxAttempts
    /\ upload[f].step = "unused" <=> upload[f].of = NoUploader
    /\ upload[f].step \in {"unused", "processing"} =>
          onTheWay[f] = 0 /\ attempts[f] = 0 /\ f \notin objects
    /\ upload[f].step = "stored" =>
          onTheWay[f] < attempts[f] /\ f \in objects \union deleted
    /\ f \in told => upload[f].step = "stored"
    /\ f \in deleted => f \in told
    /\ f \in objects \intersect deleted => attempts[f] > 1

(* A file is of a call that has begun, and an answer told all its keys. *)
CallFits(f) ==
    upload[f].of # NoUploader =>
        /\ uploading[upload[f].of] # "idle"
        /\ uploading[upload[f].of] = "answered" => f \in told

(* What a download saw when it began is true of its key still. *)
DownloadFits(d) ==
    /\ download[d].wasTold => download[d].key \in told
    /\ download[d].wasDeleted => download[d].key \in deleted
    /\ download[d].at = "not found" /\ download[d].wasTold =>
          download[d].key \in deleted
    /\ download[d].at \in {"streaming", "delivered"} /\ download[d].wasDeleted =>
          attempts[download[d].key] > 1

UploadsInv ==
    /\ UploadsType
    /\ \A f \in Files : FileFits(f)
    /\ \A f \in Files : CallFits(f)
    /\ \A d \in Downloaders : DownloadFits(d)
-----------------------------------------------------------------------------
LEMMA UploadsBegin == UploadsInit => UploadsInv
<1> SUFFICES ASSUME UploadsInit PROVE UploadsInv
  OBVIOUS
<1>1. UploadsType
  BY DEF UploadsInit, UploadsType, UploadStates, UploadSteps, DownloadStates,
         NoDownload, NoUploader
<1>2. \A f \in Files : FileFits(f) /\ CallFits(f)
  BY UploadsAssumption DEF UploadsInit, FileFits, CallFits, NoUploader
<1>3. \A d \in Downloaders : DownloadFits(d)
  BY DEF UploadsInit, DownloadFits, NoDownload
<1> QED
  BY <1>1, <1>2, <1>3 DEF UploadsInv

(* No step on the store takes back what a download relies on. *)
LEMMA DownloadsStill ==
    ASSUME UploadsInv, UNCHANGED download, told \subseteq told',
           deleted \subseteq deleted', attempts' \in [Files -> Nat],
           \A f \in Files : attempts[f] <= attempts'[f]
    PROVE  \A d \in Downloaders : DownloadFits(d)'
<1> SUFFICES ASSUME NEW d \in Downloaders PROVE DownloadFits(d)'
  OBVIOUS
<1>1. DownloadFits(d) /\ download[d] \in DownloadStates /\ deleted \subseteq Files
      /\ attempts \in [Files -> Nat]
  BY DEF UploadsInv, UploadsType
<1>2. ASSUME download[d].wasDeleted
      PROVE  /\ download[d].key \in Files /\ attempts[download[d].key] \in Nat
             /\ attempts'[download[d].key] \in Nat
             /\ attempts[download[d].key] <= attempts'[download[d].key]
  BY <1>1, <1>2 DEF DownloadFits
<1>3. download'[d] = download[d]
  OBVIOUS
<1>4. /\ download[d].wasTold => download[d].key \in told'
      /\ download[d].wasDeleted => download[d].key \in deleted'
      /\ download[d].at = "not found" /\ download[d].wasTold =>
            download[d].key \in deleted'
  BY <1>1 DEF DownloadFits
<1>5. download[d].at \in {"streaming", "delivered"} /\ download[d].wasDeleted =>
         attempts'[download[d].key] > 1
  <2> SUFFICES ASSUME download[d].at \in {"streaming", "delivered"},
                      download[d].wasDeleted
               PROVE  attempts'[download[d].key] > 1
    OBVIOUS
  <2>1. attempts[download[d].key] > 1
    BY <1>1 DEF DownloadFits
  <2> QED
    BY <1>2, <2>1
<1> QED
  BY <1>3, <1>4, <1>5 DEF DownloadFits

(* The step of a file that changes nothing but its own progress. *)
LEMMA OneFile ==
    ASSUME UploadsInv, NEW f \in Files, NEW step \in UploadSteps, To(f, step)
    PROVE  /\ upload' \in [Files -> UploadStates]
           /\ upload'[f].step = step /\ upload'[f].of = upload[f].of
           /\ \A g \in Files \ {f} : upload'[g] = upload[g]
           /\ \A g \in Files : upload'[g].of = upload[g].of
<1>1. upload \in [Files -> UploadStates]
  BY DEF UploadsInv, UploadsType
<1> QED
  BY <1>1 DEF To, UploadStates

LEMMA BeginUploadKeeps ==
    ASSUME UploadsInv, NEW u \in Uploaders, BeginUpload(u)
    PROVE  UploadsInv'
<1>1. PICK fs \in SUBSET {f \in Files : upload[f].of = NoUploader} :
         upload' = [f \in Files |->
                      IF f \in fs THEN [step |-> "processing", of |-> u]
                                  ELSE upload[f]]
  BY DEF BeginUpload
<1>2. /\ uploading' = [uploading EXCEPT ![u] = "running"] /\ uploading[u] = "idle"
      /\ UNCHANGED <<onTheWay, attempts, objects, told, deleted, download>>
  BY DEF BeginUpload
<1>3. UploadsType /\ UploadsType'
  BY <1>1, <1>2 DEF UploadsInv, UploadsType, UploadStates, UploadSteps
<1>4. ASSUME NEW f \in Files
      PROVE  FileFits(f)'
  <2>1. FileFits(f)
    BY DEF UploadsInv
  <2>2. CASE f \in fs
    <3>1. upload[f].step = "unused" /\ upload'[f] = [step |-> "processing", of |-> u]
      BY <1>1, <2>1, <2>2 DEF FileFits
    <3> QED
      BY <1>2, <2>1, <3>1, UploadsAssumption DEF FileFits
  <2>3. CASE f \notin fs
    BY <1>1, <1>2, <2>1, <2>3 DEF FileFits
  <2> QED
    BY <2>2, <2>3
<1>5. ASSUME NEW f \in Files
      PROVE  CallFits(f)'
  <2>1. CallFits(f)
    BY DEF UploadsInv
  <2>2. CASE f \in fs
    <3>1. upload'[f].of = u /\ uploading'[u] = "running"
      BY <1>1, <1>2, <1>3, <2>2 DEF UploadsType
    <3> QED
      BY <3>1 DEF CallFits
  <2>3. CASE f \notin fs /\ upload[f].of # NoUploader
    <3>1. upload'[f] = upload[f] /\ upload[f].of \in Uploaders
      BY <1>1, <1>3, <2>3 DEF UploadsType, UploadStates
    <3>2. uploading'[upload[f].of] = uploading[upload[f].of]
      BY <1>2, <1>3, <2>1, <2>3, <3>1 DEF CallFits, UploadsType
    <3> QED
      BY <1>2, <2>1, <3>1, <3>2 DEF CallFits
  <2>4. CASE f \notin fs /\ upload[f].of = NoUploader
    BY <1>1, <2>4 DEF CallFits
  <2> QED
    BY <2>2, <2>3, <2>4
<1>6. \A d \in Downloaders : DownloadFits(d)'
  BY <1>2, <1>3, DownloadsStill DEF UploadsType
<1> QED
  BY <1>3, <1>4, <1>5, <1>6 DEF UploadsInv

(* A file that is not told of, put or given up: its call is as before. *)
LEMMA CallsStill ==
    ASSUME UploadsInv, told \subseteq told', UNCHANGED uploading,
           \A f \in Files : upload'[f].of = upload[f].of
    PROVE  \A f \in Files : CallFits(f)'
  BY DEF UploadsInv, CallFits

LEMMA ProcessKeeps ==
    ASSUME UploadsInv, NEW f \in Files, Process(f)
    PROVE  UploadsInv'
<1>1. /\ upload[f].step = "processing"
      /\ UNCHANGED <<objects, uploading, told, deleted, download>>
  BY DEF Process
<1>2. PICK step \in UploadSteps :
         /\ To(f, step)
         /\ \/ /\ step = "putting"
               /\ onTheWay' = [onTheWay EXCEPT ![f] = 1]
               /\ attempts' = [attempts EXCEPT ![f] = 1]
            \/ step = "failed" /\ UNCHANGED <<onTheWay, attempts>>
  BY DEF Process, UploadSteps
<1>3. /\ upload' \in [Files -> UploadStates]
      /\ upload'[f].step = step /\ upload'[f].of = upload[f].of
      /\ \A g \in Files \ {f} : upload'[g] = upload[g]
      /\ \A g \in Files : upload'[g].of = upload[g].of
  BY <1>2, OneFile
<1>4. UploadsType /\ UploadsType' /\ FileFits(f)
  BY <1>1, <1>2, <1>3 DEF UploadsInv, UploadsType
<1>5. upload[f].of # NoUploader /\ onTheWay[f] = 0 /\ attempts[f] = 0
      /\ f \notin objects /\ f \notin told /\ f \notin deleted
  BY <1>1, <1>4 DEF FileFits
<1>6. FileFits(f)'
  BY <1>1, <1>2, <1>3, <1>4, <1>5, UploadsAssumption DEF FileFits, UploadsType
<1>7. ASSUME NEW g \in Files \ {f}
      PROVE  FileFits(g)' /\ attempts'[g] = attempts[g]
  <2>1. FileFits(g) /\ upload'[g] = upload[g] /\ onTheWay'[g] = onTheWay[g]
        /\ attempts'[g] = attempts[g]
    BY <1>2, <1>3, <1>4 DEF UploadsInv, UploadsType
  <2> QED
    BY <1>1, <2>1 DEF FileFits
<1>8. \A d \in Downloaders : DownloadFits(d)'
  <2>1. \A g \in Files : attempts[g] <= attempts'[g]
    BY <1>2, <1>4, <1>5, <1>7 DEF UploadsType
  <2> QED
    BY <1>1, <1>4, <2>1, DownloadsStill DEF UploadsType
<1>9. \A g \in Files : CallFits(g)'
  BY <1>1, <1>3, CallsStill
<1> QED
  BY <1>4, <1>6, <1>7, <1>8, <1>9 DEF UploadsInv

LEMMA StorePutsKeeps ==
    ASSUME UploadsInv, NEW f \in Files, StorePuts(f)
    PROVE  UploadsInv'
<1>1. /\ onTheWay[f] > 0 /\ onTheWay' = [onTheWay EXCEPT ![f] = @ - 1]
      /\ objects' = objects \union {f}
      /\ UNCHANGED <<attempts, uploading, told, deleted, download>>
  BY DEF StorePuts
<1>2. UploadsType /\ FileFits(f)
  BY DEF UploadsInv
<1>3. /\ upload' \in [Files -> UploadStates]
      /\ \A g \in Files : upload'[g].of = upload[g].of
      /\ \A g \in Files \ {f} : upload'[g] = upload[g]
      /\ \/ upload[f].step = "putting" /\ upload'[f].step = "stored"
         \/ upload' = upload
  <2>1. CASE upload[f].step = "putting" /\ To(f, "stored")
    BY <2>1, OneFile DEF UploadSteps
  <2>2. CASE UNCHANGED upload
    BY <1>2, <2>2 DEF UploadsType
  <2> QED
    BY <2>1, <2>2 DEF StorePuts
<1>4. UploadsType'
  BY <1>1, <1>2, <1>3 DEF UploadsType
<1>5. /\ onTheWay[f] \in Nat /\ onTheWay'[f] = onTheWay[f] - 1
      /\ attempts[f] \in Nat /\ attempts'[f] = attempts[f]
      /\ onTheWay[f] <= attempts[f]
  BY <1>1, <1>2 DEF UploadsType, FileFits
<1>6. FileFits(f)'
  <2>1. CASE upload[f].step = "putting" /\ upload'[f].step = "stored"
    BY <1>1, <1>2, <1>3, <1>5, <2>1 DEF FileFits
  <2>2. CASE upload' = upload
    <3>1. upload[f].step \notin {"unused", "processing"}
      BY <1>1, <1>2, <1>5 DEF FileFits
    <3>2. f \in deleted => attempts[f] > 1
      BY <1>1, <1>2, <1>5 DEF FileFits
    <3> QED
      BY <1>1, <1>2, <1>5, <2>2, <3>1, <3>2 DEF FileFits
  <2> QED
    BY <1>3, <2>1, <2>2
<1>7. ASSUME NEW g \in Files \ {f}
      PROVE  FileFits(g)'
  <2>1. FileFits(g) /\ upload'[g] = upload[g] /\ onTheWay'[g] = onTheWay[g]
    BY <1>1, <1>2, <1>3 DEF UploadsInv, UploadsType
  <2> QED
    BY <1>1, <2>1 DEF FileFits
<1>8. \A d \in Downloaders : DownloadFits(d)'
  BY <1>1, <1>4, DownloadsStill DEF UploadsType
<1>9. \A g \in Files : CallFits(g)'
  BY <1>1, <1>3, CallsStill
<1> QED
  BY <1>4, <1>6, <1>7, <1>8, <1>9 DEF UploadsInv

LEMMA RepeatPutKeeps ==
    ASSUME UploadsInv, NEW f \in Files, RepeatPut(f)
    PROVE  UploadsInv'
<1>1. /\ upload[f].step = "putting" /\ attempts[f] < MaxAttempts
      /\ attempts' = [attempts EXCEPT ![f] = @ + 1]
      /\ onTheWay' = [onTheWay EXCEPT ![f] = @ + 1]
      /\ UNCHANGED <<upload, objects, uploading, told, deleted, download>>
  BY DEF RepeatPut
<1>2. UploadsType /\ UploadsType'
  BY <1>1 DEF UploadsInv, UploadsType
<1>3. ASSUME NEW g \in Files
      PROVE  FileFits(g)' /\ attempts[g] <= attempts'[g]
  <2>1. /\ FileFits(g) /\ onTheWay[g] \in Nat /\ attempts[g] \in Nat
        /\ attempts'[g] = IF g = f THEN attempts[g] + 1 ELSE attempts[g]
        /\ onTheWay'[g] = IF g = f THEN onTheWay[g] + 1 ELSE onTheWay[g]
    BY <1>1, <1>2 DEF UploadsInv, UploadsType
  <2> QED
    BY <1>1, <2>1, UploadsAssumption DEF FileFits
<1>4. \A d \in Downloaders : DownloadFits(d)'
  BY <1>1, <1>2, <1>3, DownloadsStill DEF UploadsType
<1>5. \A g \in Files : CallFits(g)'
  BY <1>1, CallsStill
<1> QED
  BY <1>2, <1>3, <1>4, <1>5 DEF UploadsInv

LEMMA PutFailsKeeps ==
    ASSUME UploadsInv, NEW f \in Files, PutFails(f)
    PROVE  UploadsInv'
<1>1. /\ upload[f].step = "putting" /\ To(f, "failed")
      /\ UNCHANGED <<onTheWay, attempts, objects, uploading, told, deleted, download>>
  BY DEF PutFails
<1>2. /\ upload' \in [Files -> UploadStates]
      /\ upload'[f].step = "failed" /\ upload'[f].of = upload[f].of
      /\ \A g \in Files \ {f} : upload'[g] = upload[g]
      /\ \A g \in Files : upload'[g].of = upload[g].of
  BY <1>1, OneFile DEF UploadSteps
<1>3. UploadsType /\ UploadsType'
  BY <1>1, <1>2 DEF UploadsInv, UploadsType
<1>4. FileFits(f) /\ FileFits(f)'
  BY <1>1, <1>2 DEF UploadsInv, FileFits
<1>5. \A g \in Files \ {f} : FileFits(g)'
  BY <1>1, <1>2 DEF UploadsInv, FileFits
<1>6. \A d \in Downloaders : DownloadFits(d)'
  BY <1>1, <1>3, DownloadsStill DEF UploadsType
<1>7. \A g \in Files : CallFits(g)'
  BY <1>1, <1>2, CallsStill
<1> QED
  BY <1>3, <1>4, <1>5, <1>6, <1>7 DEF UploadsInv

LEMMA DeleteObjectKeeps ==
    ASSUME UploadsInv, NEW f \in Files, DeleteObject(f)
    PROVE  UploadsInv'
<1>1. /\ f \in told \ deleted /\ objects' = objects \ {f}
      /\ deleted' = deleted \union {f}
      /\ UNCHANGED <<upload, onTheWay, attempts, uploading, told, download>>
  BY DEF DeleteObject
<1>2. UploadsType /\ UploadsType'
  BY <1>1 DEF UploadsInv, UploadsType
<1>3. \A g \in Files : FileFits(g)'
  BY <1>1 DEF UploadsInv, FileFits
<1>4. \A d \in Downloaders : DownloadFits(d)'
  BY <1>1, <1>2, DownloadsStill DEF UploadsType
<1>5. \A g \in Files : CallFits(g)'
  BY <1>1, CallsStill
<1> QED
  BY <1>2, <1>3, <1>4, <1>5 DEF UploadsInv

(* A call that ends, with or without the keys of its files. *)
LEMMA EndKeeps ==
    ASSUME UploadsInv, NEW u \in Uploaders, AnswerUpload(u) \/ RejectUpload(u)
    PROVE  UploadsInv'
<1>1. PICK end \in {"answered", "rejected"} :
         /\ uploading' = [uploading EXCEPT ![u] = end]
         /\ end = "answered" =>
               /\ told' = told \union FilesOf(u)
               /\ \A f \in FilesOf(u) : upload[f].step = "stored"
         /\ end = "rejected" => told' = told
  BY DEF AnswerUpload, RejectUpload
<1>2. UNCHANGED <<upload, onTheWay, attempts, objects, deleted, download>>
  BY DEF AnswerUpload, RejectUpload
<1>3. UploadsType /\ UploadsType'
  BY <1>1, <1>2 DEF UploadsInv, UploadsType, FilesOf
<1>4. told \subseteq told' /\ \A f \in told' \ told : upload[f].step = "stored"
  BY <1>1 DEF FilesOf
<1>5. \A f \in Files : FileFits(f)'
  BY <1>2, <1>4 DEF UploadsInv, FileFits
<1>6. \A d \in Downloaders : DownloadFits(d)'
  BY <1>2, <1>3, <1>4, DownloadsStill DEF UploadsType
<1>7. ASSUME NEW f \in Files, upload[f].of # NoUploader
      PROVE  /\ uploading'[upload[f].of] # "idle"
             /\ uploading'[upload[f].of] = "answered" => f \in told'
  <2>1. upload[f].of \in Uploaders /\ CallFits(f)
    BY <1>3, <1>7 DEF UploadsInv, UploadsType, UploadStates
  <2>2. CASE upload[f].of = u
    BY <1>1, <1>3, <2>1, <2>2 DEF UploadsType, FilesOf
  <2>3. CASE upload[f].of # u
    <3>1. uploading'[upload[f].of] = uploading[upload[f].of]
      BY <1>1, <1>3, <2>1, <2>3 DEF UploadsType
    <3> QED
      BY <1>4, <1>7, <2>1, <3>1 DEF CallFits
  <2> QED
    BY <2>2, <2>3
<1>8. \A f \in Files : CallFits(f)'
  BY <1>2, <1>7 DEF CallFits
<1> QED
  BY <1>3, <1>5, <1>6, <1>8 DEF UploadsInv

LEMMA UploadsDieKeeps == ASSUME UploadsInv, UploadsDie PROVE UploadsInv'
<1>1. UNCHANGED <<onTheWay, attempts, objects, told, deleted>>
  BY DEF UploadsDie
<1>2. \A f \in Files :
         upload'[f] = IF upload[f].step \in {"processing", "putting"}
                      THEN [upload[f] EXCEPT !.step = "failed"] ELSE upload[f]
  BY DEF UploadsDie
<1>3. \A f \in Files :
         /\ upload'[f].of = upload[f].of
         /\ upload'[f].step = IF upload[f].step \in {"processing", "putting"}
                              THEN "failed" ELSE upload[f].step
  BY <1>2 DEF UploadsInv, UploadsType, UploadStates
<1>4. \A u \in Uploaders :
         uploading'[u] = IF uploading[u] = "running" THEN "dead" ELSE uploading[u]
  BY DEF UploadsDie
<1>5. \A d \in Downloaders :
         \/ download'[d] = download[d]
         \/ download'[d] = [download[d] EXCEPT !.at = "dead"]
  BY DEF UploadsDie
<1>6. UploadsType'
  <2>1. upload' \in [Files -> UploadStates]
    <3>1. DOMAIN upload' = Files /\ upload' = [f \in Files |-> upload'[f]]
      BY DEF UploadsDie
    <3>2. \A f \in Files : upload'[f] \in UploadStates
      BY <1>2 DEF UploadsInv, UploadsType, UploadStates, UploadSteps
    <3> QED
      BY <3>1, <3>2
  <2>2. uploading' \in [Uploaders ->
                          {"idle", "running", "answered", "rejected", "dead"}]
    BY DEF UploadsDie, UploadsInv, UploadsType
  <2>3. download' \in [Downloaders -> DownloadStates]
    <3>1. DOMAIN download' = Downloaders
          /\ download' = [d \in Downloaders |-> download'[d]]
      BY DEF UploadsDie
    <3>2. \A d \in Downloaders : download'[d] \in DownloadStates
      <4> SUFFICES ASSUME NEW d \in Downloaders PROVE download'[d] \in DownloadStates
        OBVIOUS
      <4>1. download[d] \in DownloadStates
        BY DEF UploadsInv, UploadsType
      <4>2. [download[d] EXCEPT !.at = "dead"] \in DownloadStates
        BY <4>1 DEF DownloadStates
      <4> QED
        BY <1>5, <4>1, <4>2
    <3> QED
      BY <3>1, <3>2
  <2> QED
    BY <1>1, <2>1, <2>2, <2>3 DEF UploadsInv, UploadsType
<1>7. \A f \in Files : FileFits(f)'
  BY <1>1, <1>3 DEF UploadsInv, FileFits
<1>8. ASSUME NEW f \in Files
      PROVE  CallFits(f)'
  <2>1. CallFits(f) /\ upload[f].of \in Uploaders \union {NoUploader}
    BY DEF UploadsInv, UploadsType, UploadStates
  <2> QED
    BY <1>1, <1>3, <1>4, <2>1 DEF CallFits
<1>9. ASSUME NEW d \in Downloaders
      PROVE  DownloadFits(d)'
  <2>1. DownloadFits(d) /\ download[d] \in DownloadStates
    BY DEF UploadsInv, UploadsType
  <2>2. CASE download'[d] = download[d]
    BY <1>1, <2>1, <2>2 DEF DownloadFits
  <2>3. CASE download'[d] = [download[d] EXCEPT !.at = "dead"]
    BY <1>1, <2>1, <2>3 DEF DownloadFits, DownloadStates
  <2> QED
    BY <1>5, <2>2, <2>3
<1> QED
  BY <1>6, <1>7, <1>8, <1>9 DEF UploadsInv
-----------------------------------------------------------------------------
LEMMA DownloadStill ==
    ASSUME NEW d, DownloadFits(d), download'[d] = download[d],
           UNCHANGED <<told, deleted, attempts>>
    PROVE  DownloadFits(d)'
  BY DEF DownloadFits

(* A step of a download leaves the store alone. *)
LEMMA StoreStill ==
    ASSUME UploadsInv, UNCHANGED storeVars, NEW d \in Downloaders,
           NEW next \in DownloadStates, download' = [download EXCEPT ![d] = next],
           DownloadFits(d)'
    PROVE  UploadsInv'
<1>1. UploadsType /\ UploadsType'
  BY DEF UploadsInv, UploadsType, storeVars
<1>2. \A f \in Files : FileFits(f)' /\ CallFits(f)'
  BY DEF UploadsInv, FileFits, CallFits, storeVars
<1>3. ASSUME NEW e \in Downloaders \ {d}
      PROVE  DownloadFits(e)'
  <2>1. DownloadFits(e) /\ download'[e] = download[e]
    BY <1>1 DEF UploadsInv, UploadsType
  <2>2. told' = told /\ deleted' = deleted /\ attempts' = attempts
    BY DEF storeVars
  <2> QED
    BY <2>1, <2>2, DownloadStill
<1> QED
  BY <1>1, <1>2, <1>3 DEF UploadsInv

LEMMA TruthValue == ASSUME NEW k, NEW S PROVE (k \in S) \in BOOLEAN
  BY SMT

LEMMA AskedType ==
    ASSUME NEW at \in {"asked", "bad request", "error"},
           NEW key \in Files \union {NoKey}, NEW way \in {"http", "rpc"},
           NEW S, NEW T
    PROVE  [at |-> at, key |-> key, way |-> way,
            wasTold |-> key \in S, wasDeleted |-> key \in T] \in DownloadStates
<1> DEFINE next == [at |-> at, key |-> key, way |-> way,
                    wasTold |-> key \in S, wasDeleted |-> key \in T]
<1>0. (key \in S) \in BOOLEAN /\ (key \in T) \in BOOLEAN
  BY TruthValue
<1>1. next.wasTold \in BOOLEAN /\ next.wasDeleted \in BOOLEAN
  BY <1>0, Zenon
<1>2. next.at = at /\ next.key = key /\ next.way = way
  OBVIOUS
<1>3. next = [at |-> next.at, key |-> next.key, way |-> next.way,
              wasTold |-> next.wasTold, wasDeleted |-> next.wasDeleted]
  OBVIOUS
<1> HIDE DEF next
<1>4. next \in DownloadStates
  BY <1>1, <1>2, <1>3 DEF DownloadStates
<1> QED
  BY <1>4 DEF next

LEMMA AskDownloadKeeps ==
    ASSUME UploadsInv, NEW d \in Downloaders, AskDownload(d)
    PROVE  UploadsInv'
<1>1. PICK key \in Files \union {NoKey}, way \in {"http", "rpc"} :
         download' = [download EXCEPT ![d] =
             [at |-> CASE key # NoKey -> "asked"
                       [] key = NoKey /\ way = "http" -> "bad request"
                       [] OTHER -> "error",
              key |-> key, way |-> way,
              wasTold |-> key \in told, wasDeleted |-> key \in deleted]]
  BY DEF AskDownload
<1>2. PICK at \in {"asked", "bad request", "error"} :
         at = CASE key # NoKey -> "asked"
                [] key = NoKey /\ way = "http" -> "bad request"
                [] OTHER -> "error"
  OBVIOUS
<1> DEFINE next == [at |-> at, key |-> key, way |-> way,
                    wasTold |-> key \in told, wasDeleted |-> key \in deleted]
<1>3. download' = [download EXCEPT ![d] = next]
  BY <1>1, <1>2
<1>4. next \in DownloadStates
  BY <1>2, AskedType
<1>5. /\ download'[d].at \in {"asked", "bad request", "error"}
      /\ download'[d].key = key
      /\ download'[d].wasTold <=> key \in told
      /\ download'[d].wasDeleted <=> key \in deleted
  <2>1. download'[d] = next
    BY <1>3 DEF UploadsInv, UploadsType
  <2> HIDE DEF next
  <2>2. /\ next.at = at /\ next.key = key
        /\ next.wasTold = (key \in told) /\ next.wasDeleted = (key \in deleted)
    BY DEF next
  <2> QED
    BY <2>1, <2>2
<1>6. DownloadFits(d)'
  BY <1>5 DEF AskDownload, DownloadFits, storeVars
<1> HIDE DEF next
<1> QED
  BY <1>3, <1>4, <1>6, StoreStill DEF AskDownload

(* A download that goes on, with what it saw at its beginning. *)
LEMMA ProceedKeeps ==
    ASSUME UploadsInv, UNCHANGED storeVars, NEW d \in Downloaders,
           NEW at \in {"streaming", "delivered", "hanging", "not found", "error"},
           Proceed(d, at),
           at = "not found" /\ download[d].wasTold => download[d].key \in deleted,
           at \in {"streaming", "delivered"} /\ download[d].wasDeleted =>
              attempts[download[d].key] > 1
    PROVE  UploadsInv'
<1> DEFINE next == [download[d] EXCEPT !.at = at]
<1>1. download[d] \in DownloadStates /\ DownloadFits(d) /\ DOMAIN download = Downloaders
  BY DEF UploadsInv, UploadsType
<1>2. next \in DownloadStates /\ download' = [download EXCEPT ![d] = next]
  BY <1>1 DEF Proceed, DownloadStates
<1>3. download'[d] = next
  BY <1>1, <1>2
<1>4. /\ download'[d].at = at /\ download'[d].key = download[d].key
      /\ download'[d].wasTold = download[d].wasTold
      /\ download'[d].wasDeleted = download[d].wasDeleted
  BY <1>1, <1>3 DEF DownloadStates
<1>5. DownloadFits(d)'
  BY <1>1, <1>4 DEF DownloadFits, storeVars
<1> QED
  BY <1>2, <1>5, StoreStill

LEMMA DownloadKeeps ==
    ASSUME UploadsInv, NEW d \in Downloaders, Download(d)
    PROVE  UploadsInv'
<1>1. CASE AskDownload(d)
  BY <1>1, AskDownloadKeeps
<1>2. CASE GetObject(d) /\ download[d].key \in objects
  <2>1. Proceed(d, "streaming") /\ UNCHANGED storeVars
    BY <1>2 DEF GetObject
  <2>2. download[d].wasDeleted => attempts[download[d].key] > 1
    BY <1>2 DEF UploadsInv, UploadsType, DownloadFits, FileFits
  <2> QED
    BY <2>1, <2>2, ProceedKeeps
<1>3. CASE GetObject(d) /\ download[d].key \notin objects
  <2>1. Proceed(d, Failed(d, "NoSuchKey")) /\ UNCHANGED storeVars
    BY <1>3 DEF GetObject
  <2>2. download[d].wasTold => download[d].key \in deleted
    BY <1>3 DEF UploadsInv, UploadsType, DownloadFits, FileFits
  <2>3. CASE Failed(d, "NoSuchKey") = "not found"
    BY <2>1, <2>2, <2>3, ProceedKeeps
  <2>4. CASE Failed(d, "NoSuchKey") = "error"
    BY <2>1, <2>4, ProceedKeeps
  <2> QED
    BY <2>3, <2>4 DEF Failed
<1>4. CASE GetObjectFails(d)
  <2>1. Proceed(d, "error") /\ UNCHANGED storeVars
    BY <1>4 DEF GetObjectFails, Failed
  <2> QED
    BY <2>1, ProceedKeeps
<1>5. CASE StreamEnds(d)
  <2>1. Proceed(d, "delivered") /\ UNCHANGED storeVars
    BY <1>5 DEF StreamEnds
  <2>2. download[d].wasDeleted => attempts[download[d].key] > 1
    BY <1>5 DEF StreamEnds, UploadsInv, DownloadFits
  <2> QED
    BY <2>1, <2>2, ProceedKeeps
<1>6. CASE StreamBreaks(d)
  <2>1. (Proceed(d, "hanging") \/ Proceed(d, "error")) /\ UNCHANGED storeVars
    BY <1>6 DEF StreamBreaks
  <2> QED
    BY <2>1, ProceedKeeps
<1> QED
  BY <1>1, <1>2, <1>3, <1>4, <1>5, <1>6 DEF Download
-----------------------------------------------------------------------------
LEMMA UploadsStep ==
    UploadsInv /\ [UploadsNext \/ StoreStep \/ UploadsDie]_uploadVars => UploadsInv'
<1> SUFFICES ASSUME UploadsInv, [UploadsNext \/ StoreStep \/ UploadsDie]_uploadVars
             PROVE  UploadsInv'
  OBVIOUS
<1>1. CASE UNCHANGED uploadVars
  BY <1>1 DEF uploadVars, storeVars, UploadsInv, UploadsType, FileFits, CallFits,
              DownloadFits
<1>2. ASSUME NEW u \in Uploaders, BeginUpload(u) \/ AnswerUpload(u) \/ RejectUpload(u)
      PROVE  UploadsInv'
  BY <1>2, BeginUploadKeeps, EndKeeps
<1>3. ASSUME NEW f \in Files,
             Process(f) \/ RepeatPut(f) \/ PutFails(f) \/ DeleteObject(f)
      PROVE  UploadsInv'
  BY <1>3, ProcessKeeps, RepeatPutKeeps, PutFailsKeeps, DeleteObjectKeeps
<1>4. ASSUME NEW d \in Downloaders, Download(d) PROVE UploadsInv'
  BY <1>4, DownloadKeeps
<1>5. CASE StoreStep
  BY <1>5, StorePutsKeeps DEF StoreStep
<1>6. CASE UploadsDie
  BY <1>6, UploadsDieKeeps
<1> QED
  BY <1>1, <1>2, <1>3, <1>4, <1>5, <1>6 DEF UploadsNext

LEMMA UploadsInvariant == UploadsSpec => []UploadsInv
  BY UploadsBegin, UploadsStep, PTL DEF UploadsSpec

(* Types, for any number of files and calls, and no more attempts per file *)
(* than the S3 client makes.                                               *)
THEOREM UploadsTypeCorrect == UploadsSpec => []UploadsOK
<1>1. UploadsInv => UploadsOK
  <2> SUFFICES ASSUME UploadsInv PROVE UploadsOK
    OBVIOUS
  <2>1. ASSUME NEW f \in Files
        PROVE  /\ upload[f].step \in UploadSteps
               /\ upload[f].of \in Uploaders \union {NoUploader}
               /\ onTheWay[f] \in 0 .. attempts[f] /\ attempts[f] \in 0 .. MaxAttempts
    <3>1. FileFits(f) /\ upload[f] \in UploadStates
          /\ onTheWay[f] \in Nat /\ attempts[f] \in Nat
      BY DEF UploadsInv, UploadsType
    <3> QED
      BY <3>1, UploadsAssumption DEF FileFits, UploadStates
  <2>2. \A d \in Downloaders : download[d] \in DownloadStates
    BY DEF UploadsInv, UploadsType
  <2>3. /\ objects \union told \union deleted \subseteq Files
        /\ \A u \in Uploaders :
              uploading[u] \in {"idle", "running", "answered", "rejected", "dead"}
    BY DEF UploadsInv, UploadsType
  <2> QED
    BY <2>1, <2>2, <2>3 DEF UploadsOK, DownloadStates
<1> QED
  BY <1>1, UploadsInvariant, PTL

(* Whoever was told a key can read the file until it is deleted, whatever  *)
(* attempts were repeated, lost or late (upload.service.ts:71-85, 109-111).*)
THEOREM ReportedIsStoredCorrect == UploadsSpec => []ReportedIsStored
<1>1. UploadsInv => ReportedIsStored
  BY DEF UploadsInv, UploadsType, FileFits, ReportedIsStored
<1> QED
  BY <1>1, UploadsInvariant, PTL

(* "not found" is said of a deleted file only, and only a put attempted    *)
(* twice brings a deleted file back (upload.controller.ts:91-116).         *)
THEOREM DownloadTruthfulCorrect == UploadsSpec => []DownloadTruthful
<1>1. UploadsInv => DownloadTruthful
  BY DEF UploadsInv, DownloadFits, DownloadTruthful
<1> QED
  BY <1>1, UploadsInvariant, PTL

(* An object nobody was told of is of a call under way, rejected or dead   *)
(* (upload.service.ts:109-111).                                            *)
THEOREM StraysHaveFailedCallsCorrect == UploadsSpec => []StraysHaveFailedCalls
<1>1. UploadsInv => StraysHaveFailedCalls
  <2> SUFFICES ASSUME UploadsInv, NEW f \in objects \ told
               PROVE  uploading[upload[f].of] \in {"running", "rejected", "dead"}
    BY DEF StraysHaveFailedCalls
  <2>1. f \in Files /\ FileFits(f) /\ CallFits(f) /\ upload[f] \in UploadStates
    BY DEF UploadsInv, UploadsType
  <2>2. upload[f].of \in Uploaders
    BY <2>1 DEF FileFits, UploadStates
  <2>3. uploading[upload[f].of] \in {"idle", "running", "answered", "rejected", "dead"}
    BY <2>2 DEF UploadsInv, UploadsType
  <2> QED
    BY <2>1, <2>2, <2>3, UploadsAssumption DEF CallFits
<1> QED
  BY <1>1, UploadsInvariant, PTL
=============================================================================
