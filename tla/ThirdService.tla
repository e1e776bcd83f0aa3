---------------------------- MODULE ThirdService ----------------------------
(***************************************************************************)
(* The process of the service with the parts that live in it.  They share  *)
(* nothing but the process: what queues bring is handled once it consumes, *)
(* HTTP requests once it listens, and all that is under way dies with it.  *)
(* Since the parts do not touch each other, a behaviour looks at one part, *)
(* its focus, and at the process.  The schemas are a part that the gateway *)
(* shares: what they decide does not depend on this process.               *)
(***************************************************************************)
EXTENDS Process, Notifications, Uploads, ResetPassword, HttpPipeline,
        Editing, Passwords

CONSTANT
    MaxDeaths    \* bound: times the process dies

ASSUME ServiceAssumption == MaxDeaths \in Nat

VARIABLES
    deaths,
    focus

schemaVars == <<editVars, passwordVars>>
processVars == <<phase, deaths>>
vars == <<processVars, notificationVars, uploadVars, resetVars, httpVars,
          schemaVars, focus>>
-----------------------------------------------------------------------------
Hosted == {"notifications", "uploads", "reset", "http"}
Parts == Hosted \union {"edits", "passwords"}

(* A part that is not looked at starts in one of its states only. *)
Init ==
    /\ focus \in Parts
    /\ ProcessInit /\ deaths = 0
    /\ NotificationsInit /\ UploadsInit /\ ResetInit /\ HttpInit
    /\ focus # "notifications" =>
          \E u \in People : \A n \in DOMAIN notes : notes[n].to = u
    /\ focus # "http" => \A a \in Accounts : role[a] = "TUTOR"
    /\ EditingInit /\ PasswordsInit
    /\ focus # "edits" => kind = "class" /\ row["location"] = Creation

Boot ==
    /\ focus \in Hosted
    /\ Consume \/ Listen
    /\ UNCHANGED <<deaths, notificationVars, uploadVars, resetVars, httpVars, schemaVars, focus>>

Crash ==
    /\ focus \in Hosted /\ deaths < MaxDeaths
    /\ Die /\ deaths' = deaths + 1
    /\ NotificationsDie /\ UploadsDie /\ ResetDies /\ HttpDies
    /\ UNCHANGED <<schemaVars, focus>>

Notify ==
    /\ focus = "notifications" /\ Consuming
    /\ NotificationsNext
    /\ UNCHANGED <<processVars, uploadVars, resetVars, httpVars, schemaVars, focus>>

UploadFiles ==
    /\ focus = "uploads"
    /\ (Consuming /\ UploadsNext) \/ StoreStep
    /\ UNCHANGED <<processVars, notificationVars, resetVars, httpVars, schemaVars, focus>>

ResetPasswords ==
    /\ focus = "reset"
    /\ (Consuming /\ ResetNext) \/ Surroundings
    /\ UNCHANGED <<processVars, notificationVars, uploadVars, httpVars, schemaVars, focus>>

ServeHttp ==
    /\ focus = "http"
    /\ (Listening /\ HttpNext) \/ OthersChange
    /\ UNCHANGED <<processVars, notificationVars, uploadVars, resetVars, schemaVars, focus>>

UnchangedHosted ==
    UNCHANGED <<processVars, notificationVars, uploadVars, resetVars, httpVars, focus>>

EditRows ==
    /\ focus = "edits" /\ Update
    /\ UnchangedHosted /\ UNCHANGED passwordVars

UsePasswords ==
    /\ focus = "passwords" /\ PasswordsNext
    /\ UnchangedHosted /\ UNCHANGED editVars

Next ==
    \/ Boot \/ Crash
    \/ Notify \/ UploadFiles \/ ResetPasswords \/ ServeHttp
    \/ EditRows \/ UsePasswords

Spec == Init /\ [][Next]_vars
-----------------------------------------------------------------------------
(* The process and each part are well formed, through every crash. *)
TypeOK ==
    /\ focus \in Parts
    /\ deaths \in 0 .. MaxDeaths
    /\ NotificationsOK /\ UploadsOK /\ ResetOK /\ HttpOK
    /\ EditingOK /\ PasswordsOK
=============================================================================
