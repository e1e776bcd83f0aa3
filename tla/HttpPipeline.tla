---------------------------- MODULE HttpPipeline ----------------------------
(***************************************************************************)
(* What becomes of an HTTP request: the guards JwtAuth and TokenBucket,    *)
(* the guard of the route, the pipe, the handler, and the interceptors and *)
(* the filter that shape the answer.  Accounts change meanwhile.  Between  *)
(* the two guards the LanguageGuard decides how the answer is worded.  The *)
(* bucket itself is in module TokenBucket.                                 *)
(***************************************************************************)
EXTENDS Naturals, FiniteSets

Speech == INSTANCE Languages

CONSTANTS
    Accounts,     \* users that may exist
    Requests,     \* HTTP requests, each made once
    MaxChanges    \* bound: changes to accounts

ASSUME HttpAssumption == MaxChanges \in Nat

VARIABLES
    role,       \* role[a], or "gone"
    issued,     \* the pairs <<account, role>> some valid token holds
    request,    \* request[h]: its route, its token, where it is, its answer
    changes

httpVars == <<role, issued, request, changes>>
-----------------------------------------------------------------------------
Roles == {"ADMIN", "TUTOR"}
NoToken == <<"nobody", "none">>
NoAnswer == [status |-> 0, shape |-> "none", speech |-> "none"]

(* Public routes, those for everybody and those of the monitoring pages.   *)
Routes == {"public", "any role", "admin", "unknown"}

NoRequest == [at |-> "idle", route |-> "unknown", token |-> NoToken,
              found |-> FALSE, handled |-> FALSE, answer |-> NoAnswer,
              language |-> Speech!Undecided, asked |-> "none"]

HttpInit ==
    /\ role \in [Accounts -> Roles]
    /\ issued = {<<a, role[a]>> : a \in Accounts}
    /\ request = [h \in Requests |-> NoRequest]
    /\ changes = 0

(* The user service removes an account, or changes its role; the user logs *)
(* in again with the new one.  Tokens that exist stay valid.               *)
ChangeAccount(a) ==
    /\ changes < MaxChanges /\ role[a] # "gone"
    /\ \E new \in (Roles \union {"gone"}) \ {role[a]} :
          /\ role' = [role EXCEPT ![a] = new]
          /\ issued' = IF new = "gone" THEN issued ELSE issued \union {<<a, new>>}
    /\ changes' = changes + 1
    /\ UNCHANGED request

UnchangedAccounts == UNCHANGED <<role, issued, changes>>

Go(h, at) == request' = [request EXCEPT ![h].at = at]

Answered(h, status, shape, speech) ==
    request' = [request EXCEPT
                  ![h].at = "answered",
                  ![h].answer = [status |-> status, shape |-> shape,
                                 speech |-> speech]]

Worded(h, message) == Speech!Translated(message, request[h].language)

(* HttpExceptionFilter, which catches HttpExceptions only; for everything  *)
(* else there is Nest's own answer.                                        *)
Filtered(h, status, message) ==
    Answered(h, status, "error", Worded(h, message))
Unfiltered(h) == Answered(h, 500, "plain", Speech!Verbatim)

(* A request arrives; one for no route skips the guards. *)
Receive(h) ==
    /\ request[h].at = "idle"
    /\ \E route \in Routes, token \in issued \union {NoToken} :
          request' = [request EXCEPT ![h] =
             [NoRequest EXCEPT
                !.route = route, !.token = token,
                !.at = IF route = "unknown" THEN "answered" ELSE "authenticate",
                !.answer = IF route = "unknown"
                           THEN [status |-> 404, shape |-> "error",
                                 speech |-> Speech!Verbatim]
                           ELSE NoAnswer]]
    /\ UnchangedAccounts

(* Faulty variant: the bucket is the guard before the language. *)
LanguageLast == "bucket"

(* The guards run in the order in which the module registers them. *)
AfterAuthentication == "language"

(* JwtAuthGuard up to its query. *)
Authenticate(h) ==
    /\ request[h].at = "authenticate"
    /\ CASE request[h].route = "public" -> Go(h, AfterAuthentication)
         [] request[h].route # "public" /\ request[h].token = NoToken ->
               Filtered(h, 401, "text")
         [] OTHER -> Go(h, "look up")
    /\ UnchangedAccounts

(* Faulty variant: whether a row came back is not looked at. *)
AnyRow(a) == TRUE

Exists(a) == role[a] # "gone"

(* The query of JwtAuthGuard, and what a failure of it does: no filter and *)
(* no interceptor sees an error of a guard that is no HttpException.       *)
LookUpUser(h) ==
    /\ request[h].at = "look up"
    /\ \/ /\ ~Exists(request[h].token[1])
          /\ Filtered(h, 401, "text")
       \/ /\ Exists(request[h].token[1])
          /\ request' = [request EXCEPT ![h].at = AfterAuthentication,
                           ![h].found = role[request[h].token[1]] # "gone"]
    /\ UnchangedAccounts

GuardQueryFails(h) ==
    /\ request[h].at = "look up"
    /\ Unfiltered(h)
    /\ UnchangedAccounts

(* LanguageGuard.  The header is drawn here, where it first matters. *)
ChooseLanguage(h) ==
    /\ request[h].at = "language"
    /\ \E header \in Speech!Headers :
          request' = [request EXCEPT ![h].at = "bucket",
                        ![h].language = Speech!Resolve(header),
                        ![h].asked = Speech!Preferred(header)]
    /\ UnchangedAccounts

(* TokenBucketGuard: allowed, refused, or its script fails. *)
Charge(h) ==
    /\ request[h].at = "bucket"
    /\ \/ Go(h, "route guard")
       \/ Filtered(h, 429, "code")
       \/ Unfiltered(h)
    /\ UnchangedAccounts

(* RolesGuard goes by the role in the token. *)
Permitted(h) == request[h].route = "admin" => request[h].token[2] = "ADMIN"

CheckRole(h) ==
    /\ request[h].at = "route guard"
    /\ IF Permitted(h) THEN Go(h, "pipe") ELSE Filtered(h, 403, "text")
    /\ UnchangedAccounts

(* ZodValidationPipe *)
Validate(h) ==
    /\ request[h].at = "pipe"
    /\ Go(h, "handler") \/ Filtered(h, 422, "code")
    /\ UnchangedAccounts

(* ErrorInterceptor turns every other error into an HttpException. *)
Intercepted(h) == Filtered(h, 500, "text")

(* The handler returns, throws an HttpException, or throws anything else.  *)
Handle(h) ==
    /\ request[h].at = "handler"
    /\ \/ request' = [request EXCEPT ![h].at = "returned", ![h].handled = TRUE]
       \/ request' = [request EXCEPT ![h].at = "threw exception",
                                     ![h].handled = TRUE]
       \/ request' = [request EXCEPT ![h].at = "threw error",
                                     ![h].handled = TRUE]
    /\ UnchangedAccounts

Respond(h) ==
    /\ \/ /\ request[h].at = "returned"
          /\ Answered(h, 200, "success", Worded(h, "code"))
       \/ /\ request[h].at = "threw exception"
          /\ \E message \in Speech!Messages : Filtered(h, 404, message)
       \/ /\ request[h].at = "threw error"
          /\ Intercepted(h)
    /\ UnchangedAccounts

HttpDies ==
    /\ request' = [h \in Requests |->
                     IF request[h].at \in {"idle", "answered"} THEN request[h]
                     ELSE [request[h] EXCEPT !.at = "dead"]]
    /\ UnchangedAccounts

OthersChange == \E a \in Accounts : ChangeAccount(a)

HttpNext ==
    \E h \in Requests :
        \/ Receive(h) \/ Authenticate(h) \/ LookUpUser(h) \/ GuardQueryFails(h)
        \/ ChooseLanguage(h) \/ Charge(h) \/ CheckRole(h) \/ Validate(h)
        \/ Handle(h) \/ Respond(h)

HttpSpec == HttpInit /\ [][HttpNext \/ OthersChange \/ HttpDies]_httpVars
-----------------------------------------------------------------------------
Stops == {"idle", "authenticate", "look up", "language", "bucket",
          "route guard", "pipe", "handler", "returned", "threw exception",
          "threw error", "answered", "dead"}

(* Types; an answered request has an answer, and no other has. *)
HttpOK ==
    /\ \A a \in Accounts : role[a] \in Roles \union {"gone"}
    /\ issued \subseteq Accounts \X Roles
    /\ \A h \in Requests :
          /\ request[h].at \in Stops /\ request[h].route \in Routes
          /\ request[h].token \in issued \union {NoToken}
          /\ (request[h].at = "answered") <=> (request[h].answer.status # 0)
    /\ changes \in 0 .. MaxChanges

(* A handler that is not public runs only for somebody whose account was   *)
(* there when the guard looked, and one of the monitoring pages only for   *)
(* somebody who once was an admin, whatever becomes of accounts meanwhile  *)
(* (jwt-auth.guard.ts:70-110, roles.guard.ts:13-28).                       *)
HandledForEntitled ==
    \A h \in Requests :
        request[h].handled /\ request[h].route # "public" =>
            /\ request[h].found
            /\ request[h].route = "admin" =>
                  <<request[h].token[1], "ADMIN">> \in issued

(* A message that can be translated, be it of the limiter, the pipe, the   *)
(* handler or a success, is in the language the client prefers among those *)
(* the service speaks: whoever may fail with a code runs after the guard   *)
(* that reads the header (app.module.ts:36-47, language.guard.ts:23-42,    *)
(* translate.ts:18-37).                                                    *)
SpokenAsAsked ==
    \A h \in Requests :
        request[h].answer.speech \in Speech!Supported =>
            request[h].answer.speech = request[h].asked

(* API_ENDPOINTS.md:8, "Error shape": every error has it.  Violated when   *)
(* the query of JwtAuthGuard or the script of TokenBucketGuard fails.      *)
ErrorShape ==
    \A h \in Requests :
        request[h].answer.status >= 400 => request[h].answer.shape = "error"
=============================================================================
