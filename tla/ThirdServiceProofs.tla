------------------------- MODULE ThirdServiceProofs -------------------------
(***************************************************************************)
(* Proofs about HttpPipeline and Editing, and about the whole process:     *)
(* every part of ThirdService behaves as its own specification says, so    *)
(* what is proved of the parts holds of the process, for any instance.     *)
(***************************************************************************)
EXTENDS ThirdService, NotificationsProofs, UploadsProofs, PasswordProofs,
        WellFoundedInduction, TLAPS

-----------------------------------------------------------------------------
(* Languages. *)
LEMMA LeastNat ==
    ASSUME NEW T \in SUBSET Nat, T # {} PROVE \E x \in T : \A y \in T : x <= y
<1>1. \E x \in T : \A y \in T : ~ (<<y, x>> \in OpToRel(<, Nat))
  BY NatLessThanWellFounded, WFMin
<1>2. \A x, y \in Nat : <<y, x>> \notin OpToRel(<, Nat) => x <= y
  BY DEF OpToRel
<1> QED
  BY <1>1, <1>2

(* Sorting the tags by weight and taking the first that is spoken gives    *)
(* the language the client prefers, for every header.                      *)
LEMMA ResolvePrefers ==
    ASSUME NEW header, NEW n \in Nat, DOMAIN header = 1 .. n,
           \A i \in 1 .. n : Speech!Weight(header[i]) \in 0 .. 10
    PROVE  /\ Speech!Resolve(header) = Speech!Preferred(header)
           /\ Speech!Resolve(header) \in Speech!Supported
<1> DEFINE W(i) == Speech!Weight(header[i])
           known == {i \in DOMAIN header : header[i].primary \in Speech!Supported}
           Heaviest(i) == \A j \in DOMAIN header :
               header[j].primary \in Speech!Supported => W(j) <= W(i)
           best == {i \in DOMAIN header :
                      header[i].primary \in Speech!Supported /\ Heaviest(i)}
           Before(i, j) == W(i) > W(j) \/ (W(i) = W(j) /\ i <= j)
           first == CHOOSE i \in known : \A j \in known : Before(i, j)
           top == CHOOSE i \in best : \A j \in best : i <= j
<1>1. Speech!Resolve(header) = IF known = {} THEN Speech!DefaultLanguage
                               ELSE header[first].primary
  BY DEF Speech!Resolve
<1>2. Speech!Preferred(header) = IF best = {} THEN Speech!DefaultLanguage
                                 ELSE header[top].primary
  BY DEF Speech!Preferred
<1>3. /\ known \subseteq 1 .. n /\ \A i \in known : W(i) \in 0 .. 10 /\ i \in Nat
      /\ \A i \in known : header[i].primary \in Speech!Supported
      /\ best \subseteq known
  OBVIOUS
<1>4. \A i : i \in best <=> i \in known /\ \A j \in known : W(j) <= W(i)
  OBVIOUS
<1> HIDE DEF W, known, best, Heaviest
<1>5. CASE known = {}
  <2>1. Speech!DefaultLanguage \in Speech!Supported
    BY DEF Speech!DefaultLanguage, Speech!Supported
  <2> QED
    BY <1>1, <1>2, <1>3, <1>5, <2>1
<1>6. CASE known # {}
  <2>1. best # {}
    <3> DEFINE lack == {10 - W(i) : i \in known}
    <3>1. lack \in SUBSET Nat /\ lack # {}
      BY <1>3, <1>6
    <3>2. PICK least \in lack : \A y \in lack : least <= y
      BY <3>1, LeastNat
    <3>3. PICK i \in known : least = 10 - W(i)
      BY <3>2
    <3>4. \A j \in known : 10 - W(i) <= 10 - W(j)
      BY <3>2, <3>3
    <3>5. \A j \in known : W(j) <= W(i)
      BY <1>3, <3>3, <3>4
    <3> QED
      BY <1>4, <3>3, <3>5
  <2>2. PICK i \in best : \A j \in best : i <= j
    <3>1. best \in SUBSET Nat
      BY <1>3
    <3> QED
      BY <2>1, <3>1, LeastNat
  <2>3. \A k \in best : (\A j \in best : k <= j) => k = i
    BY <1>3, <2>2
  <2>4. top = i
    BY <2>2, <2>3
  <2>5. i \in known /\ \A j \in known : Before(i, j)
    <3> SUFFICES ASSUME NEW j \in known PROVE Before(i, j)
      BY <1>4, <2>2
    <3>1. i \in known /\ W(j) <= W(i) /\ W(i) \in 0 .. 10 /\ W(j) \in 0 .. 10
      BY <1>3, <1>4, <2>2
    <3>2. CASE W(j) = W(i)
      <4>1. j \in best
        BY <1>4, <2>2, <3>2
      <4> QED
        BY <2>2, <3>2, <4>1
    <3>3. CASE W(j) # W(i)
      BY <3>1, <3>3
    <3> QED
      BY <3>2, <3>3
  <2>6. \A k \in known : (\A j \in known : Before(k, j)) => k = i
    BY <1>3, <2>5
  <2>7. first = i
    BY <2>5, <2>6
  <2> QED
    BY <1>1, <1>2, <1>3, <1>6, <2>1, <2>4, <2>5, <2>7
<1> QED
  BY <1>5, <1>6

LEMMA HeadersResolve ==
    ASSUME NEW header \in Speech!Headers
    PROVE  /\ Speech!Resolve(header) = Speech!Preferred(header)
           /\ Speech!Resolve(header) \in Speech!Supported
<1> USE DEF Speech!Headers, Speech!Tag, Speech!Weight, Speech!Absent,
            Speech!NotANumber
<1>1. PICK n \in {0, 1, 2, 3} : DOMAIN header = 1 .. n
  OBVIOUS
<1>2. \A i \in 1 .. n : Speech!Weight(header[i]) \in 0 .. 10
  BY <1>1
<1> QED
  BY <1>1, <1>2, ResolvePrefers
-----------------------------------------------------------------------------
(* HTTP requests. *)
Spoken == Speech!Supported \union {"none", Speech!Verbatim}
Replies == [status : Nat, shape : {"none", "error", "plain", "success"},
            speech : Spoken]

RequestStates ==
    [at : Stops, route : Routes, token : (Accounts \X Roles) \union {NoToken},
     found : BOOLEAN, handled : BOOLEAN, answer : Replies,
     language : Speech!Supported \union {Speech!Undecided},
     asked : Speech!Supported \union {"none"}]

HttpType ==
    /\ role \in [Accounts -> Roles \union {"gone"}]
    /\ issued \subseteq Accounts \X Roles
    /\ request \in [Requests -> RequestStates]
    /\ changes \in 0 .. MaxChanges

PastPermission == {"pipe", "handler", "returned", "threw exception", "threw error"}
PastLanguage == PastPermission \union {"bucket", "route guard"}
PastLookUp == PastLanguage \union {"language"}

(* What the guards a request r has passed have made sure of. *)
RequestFits(r) ==
    /\ r.token \in issued \union {NoToken}
    /\ r.at = "answered" <=> r.answer.status # 0
    /\ r.answer.status = 0 => r.answer.speech = "none"
    /\ r.at = "look up" => r.token # NoToken
    /\ r.at \in PastLookUp /\ r.route # "public" => r.found
    /\ r.at \in PastPermission /\ r.route = "admin" => r.token[2] = "ADMIN"
    /\ r.at \in PastLanguage =>
          r.language = r.asked /\ r.language \in Speech!Supported
    /\ r.handled /\ r.route # "public" =>
          r.found /\ (r.route = "admin" => r.token[2] = "ADMIN")
    /\ r.answer.speech \in Speech!Supported => r.answer.speech = r.asked

HttpInv ==
    /\ HttpType
    /\ \A h \in Requests : RequestFits(request[h])

LEMMA SpeechNames ==
    /\ Speech!Verbatim \notin Speech!Supported /\ "none" \notin Speech!Supported
    /\ Speech!Undecided \notin Speech!Supported
    /\ Speech!Verbatim \in Spoken /\ Speech!Supported \subseteq Spoken
  BY DEF Speech!Verbatim, Speech!Supported, Speech!Undecided, Spoken

LEMMA NoRequestType == NoRequest \in RequestStates /\ ~NoRequest.handled
  BY SpeechNames DEF NoRequest, NoAnswer, NoToken, RequestStates, Replies, Stops,
                     Routes, Spoken

LEMMA HttpBegins == HttpInit => HttpInv
<1> SUFFICES ASSUME HttpInit PROVE HttpInv
  OBVIOUS
<1>1. NoRequest \in RequestStates
  BY NoRequestType
<1>2. HttpType
  <2>1. issued \subseteq Accounts \X Roles
    BY DEF HttpInit
  <2> QED
    BY <1>1, <2>1, HttpAssumption DEF HttpInit, HttpType
<1>3. RequestFits(NoRequest)
  BY SpeechNames DEF NoRequest, NoAnswer, NoToken, RequestFits, PastLookUp,
                     PastLanguage, PastPermission
<1> QED
  BY <1>2, <1>3 DEF HttpInit, HttpInv

(* One request moves to the state r. *)
LEMMA RequestMoves ==
    ASSUME HttpInv, NEW h \in Requests, NEW r \in RequestStates, RequestFits(r),
           request' = [request EXCEPT ![h] = r], UnchangedAccounts
    PROVE  HttpInv'
<1>1. HttpType'
  BY DEF HttpInv, HttpType, UnchangedAccounts
<1>2. \A g \in Requests : RequestFits(request'[g])
  BY DEF HttpInv, HttpType
<1>3. \A g \in Requests : RequestFits(request[g])'
  BY <1>2 DEF RequestFits, UnchangedAccounts
<1> QED
  BY <1>1, <1>3 DEF HttpInv

LEMMA AnswerMoves ==
    ASSUME HttpInv, NEW h \in Requests, NEW status \in Nat \ {0},
           NEW shape \in {"error", "plain", "success"}, NEW speech \in Spoken,
           Answered(h, status, shape, speech), UnchangedAccounts,
           speech \in Speech!Supported => speech = request[h].asked
    PROVE  HttpInv'
<1> DEFINE a == [status |-> status, shape |-> shape, speech |-> speech]
           r == [request[h] EXCEPT !.at = "answered", !.answer = a]
<1>1. request \in [Requests -> RequestStates] /\ RequestFits(request[h])
  BY DEF HttpInv, HttpType
<1>2. a \in Replies /\ a.status # 0 /\ a.speech = speech
  BY DEF Replies
<1>3. request' = [request EXCEPT ![h] = r]
  BY <1>1 DEF Answered
<1> HIDE DEF a
<1>4. /\ r \in RequestStates /\ r.at = "answered" /\ r.answer = a
      /\ r.token = request[h].token /\ r.route = request[h].route
      /\ r.found = request[h].found /\ r.handled = request[h].handled
      /\ r.language = request[h].language /\ r.asked = request[h].asked
  BY <1>1, <1>2 DEF RequestStates, Stops
<1> HIDE DEF r
<1>5. RequestFits(r)
  BY <1>1, <1>2, <1>4 DEF RequestFits, PastLookUp, PastLanguage, PastPermission
<1> QED
  BY <1>3, <1>4, <1>5, RequestMoves

(* A request that goes on to the next stop. *)
LEMMA GoMoves ==
    ASSUME HttpInv, NEW h \in Requests, NEW at \in Stops \ {"answered"}, Go(h, at),
           UnchangedAccounts, request[h].at # "answered",
           at = "look up" => request[h].token # NoToken,
           at \in PastLookUp /\ request[h].route # "public" => request[h].found,
           at \in PastPermission /\ request[h].route = "admin" =>
              request[h].token[2] = "ADMIN",
           at \in PastLanguage => request[h].at \in PastLanguage
    PROVE  HttpInv'
<1> DEFINE r == [request[h] EXCEPT !.at = at]
<1>1. request \in [Requests -> RequestStates] /\ RequestFits(request[h])
  BY DEF HttpInv, HttpType
<1>2. request' = [request EXCEPT ![h] = r]
  BY <1>1 DEF Go
<1>3. /\ r \in RequestStates /\ r.at = at /\ r.answer = request[h].answer
      /\ r.token = request[h].token /\ r.route = request[h].route
      /\ r.found = request[h].found /\ r.handled = request[h].handled
      /\ r.language = request[h].language /\ r.asked = request[h].asked
  BY <1>1 DEF RequestStates
<1> HIDE DEF r
<1>4. RequestFits(r)
  BY <1>1, <1>3 DEF RequestFits
<1> QED
  BY <1>2, <1>3, <1>4, RequestMoves

LEMMA FilteredMoves ==
    ASSUME HttpInv, NEW h \in Requests, NEW status \in Nat \ {0},
           NEW message \in Speech!Messages, Filtered(h, status, message),
           UnchangedAccounts, message = "text" \/ request[h].at \in PastLanguage
    PROVE  HttpInv'
<1>1. RequestFits(request[h])
  BY DEF HttpInv
<1>2. /\ Worded(h, message) \in Spoken
      /\ Worded(h, message) \in Speech!Supported =>
            Worded(h, message) = request[h].asked
  BY <1>1, SpeechNames DEF Worded, Speech!Translated, RequestFits
<1> QED
  BY <1>2, AnswerMoves DEF Filtered

LEMMA TextIsMessage ==
    /\ {"text", "code"} \subseteq Speech!Messages
    /\ {200, 401, 403, 404, 422, 429, 500} \subseteq Nat \ {0}
  BY DEF Speech!Messages

LEMMA UnfilteredMoves ==
    ASSUME HttpInv, NEW h \in Requests, Unfiltered(h), UnchangedAccounts
    PROVE  HttpInv'
  BY SpeechNames, AnswerMoves DEF Unfiltered

LEMMA ReceiveKeeps ==
    ASSUME HttpInv, NEW h \in Requests, Receive(h) PROVE HttpInv'
<1>1. PICK route \in Routes, token \in issued \union {NoToken} :
         request' = [request EXCEPT ![h] =
             [NoRequest EXCEPT
                !.route = route, !.token = token,
                !.at = IF route = "unknown" THEN "answered" ELSE "authenticate",
                !.answer = IF route = "unknown"
                           THEN [status |-> 404, shape |-> "error",
                                 speech |-> Speech!Verbatim]
                           ELSE NoAnswer]]
  BY DEF Receive
<1> DEFINE at == IF route = "unknown" THEN "answered" ELSE "authenticate"
           a == IF route = "unknown"
                THEN [status |-> 404, shape |-> "error", speech |-> Speech!Verbatim]
                ELSE NoAnswer
           r == [NoRequest EXCEPT !.route = route, !.token = token, !.at = at,
                                  !.answer = a]
<1>2. request' = [request EXCEPT ![h] = r]
  BY <1>1
<1>3. /\ a \in Replies /\ a.speech \notin Speech!Supported
      /\ a.status # 0 <=> route = "unknown"
  BY SpeechNames DEF Replies, NoAnswer, Spoken
<1>b. a.status = 0 => a.speech = "none"
  BY DEF NoAnswer
<1>4. at \in {"answered", "authenticate"} /\ (at = "answered" <=> route = "unknown")
  OBVIOUS
<1> HIDE DEF a, at
<1>5. NoRequest \in RequestStates /\ ~NoRequest.handled
  BY NoRequestType
<1>6. /\ r \in RequestStates /\ r.at = at /\ r.answer = a
      /\ r.token = token /\ r.route = route /\ r.handled = NoRequest.handled
  BY <1>3, <1>4, <1>5 DEF RequestStates, Stops, HttpInv, HttpType
<1> HIDE DEF r
<1>7. RequestFits(r)
  BY <1>3, <1>b, <1>4, <1>5, <1>6 DEF RequestFits, PastLookUp, PastLanguage, PastPermission
<1> QED
  BY <1>2, <1>6, <1>7, RequestMoves DEF Receive

LEMMA AuthenticateKeeps ==
    ASSUME HttpInv, NEW h \in Requests, Authenticate(h) PROVE HttpInv'
<1> USE DEF PastLookUp, PastLanguage, PastPermission
<1>1. request[h].at = "authenticate" /\ UnchangedAccounts
  BY DEF Authenticate
<1>2. CASE request[h].route = "public"
  <2>1. Go(h, "language")
    BY <1>2 DEF Authenticate, AfterAuthentication
  <2> QED
    BY <1>1, <1>2, <2>1, GoMoves DEF Stops
<1>3. CASE request[h].route # "public" /\ request[h].token = NoToken
  <2>1. Filtered(h, 401, "text")
    BY <1>3 DEF Authenticate
  <2>2. 401 \in Nat \ {0} /\ "text" \in Speech!Messages
    BY TextIsMessage
  <2> QED
    BY <1>1, <2>1, <2>2, FilteredMoves
<1>4. CASE request[h].route # "public" /\ request[h].token # NoToken
  <2>1. Go(h, "look up")
    BY <1>4 DEF Authenticate
  <2> QED
    BY <1>1, <1>4, <2>1, GoMoves DEF Stops
<1> QED
  BY <1>2, <1>3, <1>4

LEMMA LookUpUserKeeps ==
    ASSUME HttpInv, NEW h \in Requests, LookUpUser(h) PROVE HttpInv'
<1>1. request[h].at = "look up" /\ UnchangedAccounts
  BY DEF LookUpUser
<1>2. CASE Filtered(h, 401, "text")
  <2>1. 401 \in Nat \ {0} /\ "text" \in Speech!Messages
    BY TextIsMessage
  <2> QED
    BY <1>1, <1>2, <2>1, FilteredMoves
<1>3. CASE /\ Exists(request[h].token[1])
           /\ request' = [request EXCEPT ![h].at = AfterAuthentication,
                            ![h].found = role[request[h].token[1]] # "gone"]
  <2> DEFINE r == [request[h] EXCEPT !.at = "language", !.found = TRUE]
  <2>1. request \in [Requests -> RequestStates] /\ RequestFits(request[h])
    BY DEF HttpInv, HttpType
  <2>2. (role[request[h].token[1]] # "gone") = TRUE
    BY <1>3 DEF Exists
  <2>3. request' = [request EXCEPT ![h] = r]
    BY <1>3, <2>1, <2>2 DEF AfterAuthentication
  <2>4. /\ r \in RequestStates /\ r.at = "language" /\ r.answer = request[h].answer
        /\ r.token = request[h].token /\ r.route = request[h].route
        /\ r.found = TRUE /\ r.handled = request[h].handled
        /\ r.language = request[h].language /\ r.asked = request[h].asked
    BY <2>1 DEF RequestStates, Stops
  <2> HIDE DEF r
  <2>5. RequestFits(r)
    BY <1>1, <2>1, <2>4 DEF RequestFits, PastLookUp, PastLanguage, PastPermission
  <2> QED
    BY <1>1, <2>3, <2>4, <2>5, RequestMoves
<1> QED
  BY <1>2, <1>3 DEF LookUpUser

LEMMA ChooseLanguageKeeps ==
    ASSUME HttpInv, NEW h \in Requests, ChooseLanguage(h) PROVE HttpInv'
<1>1. request[h].at = "language" /\ UnchangedAccounts
  BY DEF ChooseLanguage
<1>2. PICK tongue \in Speech!Supported :
         request' = [request EXCEPT ![h].at = "bucket", ![h].language = tongue,
                                    ![h].asked = tongue]
  BY HeadersResolve DEF ChooseLanguage
<1> DEFINE r == [request[h] EXCEPT !.at = "bucket", !.language = tongue,
                                   !.asked = tongue]
<1>3. request \in [Requests -> RequestStates] /\ RequestFits(request[h])
  BY DEF HttpInv, HttpType
<1>4. request' = [request EXCEPT ![h] = r]
  BY <1>2, <1>3
<1>5. /\ r \in RequestStates /\ r.at = "bucket" /\ r.answer = request[h].answer
      /\ r.token = request[h].token /\ r.route = request[h].route
      /\ r.found = request[h].found /\ r.handled = request[h].handled
      /\ r.language = tongue /\ r.asked = tongue
  BY <1>3 DEF RequestStates, Stops
<1> HIDE DEF r
<1>6. request[h].answer.speech \notin Speech!Supported
  BY <1>1, <1>3, SpeechNames DEF RequestFits
<1>7. RequestFits(r)
  BY <1>1, <1>3, <1>5, <1>6 DEF RequestFits, PastLookUp, PastLanguage, PastPermission
<1> QED
  BY <1>1, <1>4, <1>5, <1>7, RequestMoves

LEMMA ChargeKeeps ==
    ASSUME HttpInv, NEW h \in Requests, Charge(h) PROVE HttpInv'
<1> USE DEF PastLookUp, PastLanguage, PastPermission
<1>1. request[h].at = "bucket" /\ UnchangedAccounts /\ RequestFits(request[h])
  BY DEF Charge, HttpInv
<1>2. CASE Go(h, "route guard")
  BY <1>1, <1>2, GoMoves DEF Stops, RequestFits
<1>3. CASE Filtered(h, 429, "code")
  <2>1. 429 \in Nat \ {0} /\ "code" \in Speech!Messages
    BY TextIsMessage
  <2> QED
    BY <1>1, <1>3, <2>1, FilteredMoves
<1>4. CASE Unfiltered(h)
  BY <1>1, <1>4, UnfilteredMoves
<1> QED
  BY <1>2, <1>3, <1>4 DEF Charge

LEMMA CheckRoleKeeps ==
    ASSUME HttpInv, NEW h \in Requests, CheckRole(h) PROVE HttpInv'
<1> USE DEF PastLookUp, PastLanguage, PastPermission
<1>1. /\ request[h].at = "route guard" /\ UnchangedAccounts
      /\ RequestFits(request[h])
  BY DEF CheckRole, HttpInv
<1>2. CASE Permitted(h) /\ Go(h, "pipe")
  BY <1>1, <1>2, GoMoves DEF Stops, RequestFits, Permitted
<1>3. CASE Filtered(h, 403, "text")
  <2>1. 403 \in Nat \ {0} /\ "text" \in Speech!Messages
    BY TextIsMessage
  <2> QED
    BY <1>1, <1>3, <2>1, FilteredMoves
<1> QED
  BY <1>2, <1>3 DEF CheckRole

LEMMA ValidateKeeps ==
    ASSUME HttpInv, NEW h \in Requests, Validate(h) PROVE HttpInv'
<1> USE DEF PastLookUp, PastLanguage, PastPermission
<1>1. /\ request[h].at = "pipe" /\ UnchangedAccounts /\ RequestFits(request[h])
  BY DEF Validate, HttpInv
<1>2. CASE Go(h, "handler")
  BY <1>1, <1>2, GoMoves DEF Stops, RequestFits
<1>3. CASE Filtered(h, 422, "code")
  <2>1. 422 \in Nat \ {0} /\ "code" \in Speech!Messages
    BY TextIsMessage
  <2> QED
    BY <1>1, <1>3, <2>1, FilteredMoves
<1> QED
  BY <1>2, <1>3 DEF Validate

LEMMA HandleKeeps ==
    ASSUME HttpInv, NEW h \in Requests, Handle(h) PROVE HttpInv'
<1>1. request[h].at = "handler" /\ UnchangedAccounts
  BY DEF Handle
<1>2. PICK at \in {"returned", "threw exception", "threw error"} :
         request' = [request EXCEPT ![h].at = at, ![h].handled = TRUE]
  BY DEF Handle
<1> DEFINE r == [request[h] EXCEPT !.at = at, !.handled = TRUE]
<1>3. request \in [Requests -> RequestStates] /\ RequestFits(request[h])
  BY DEF HttpInv, HttpType
<1>4. request' = [request EXCEPT ![h] = r]
  BY <1>2, <1>3
<1>5. /\ r \in RequestStates /\ r.at = at /\ r.answer = request[h].answer
      /\ r.token = request[h].token /\ r.route = request[h].route
      /\ r.found = request[h].found
      /\ r.language = request[h].language /\ r.asked = request[h].asked
  BY <1>3 DEF RequestStates, Stops
<1> HIDE DEF r
<1>6. RequestFits(r)
  BY <1>1, <1>3, <1>5 DEF RequestFits, PastLookUp, PastLanguage, PastPermission
<1> QED
  BY <1>1, <1>4, <1>5, <1>6, RequestMoves

LEMMA RespondKeeps ==
    ASSUME HttpInv, NEW h \in Requests, Respond(h) PROVE HttpInv'
<1>1. UnchangedAccounts /\ RequestFits(request[h])
  BY DEF Respond, HttpInv
<1>2. CASE /\ request[h].at = "returned"
           /\ Answered(h, 200, "success", Worded(h, "code"))
  <2>1. /\ Worded(h, "code") = request[h].asked
        /\ Worded(h, "code") \in Spoken
    BY <1>1, <1>2, SpeechNames DEF Worded, Speech!Translated, RequestFits,
                                   PastLanguage, PastPermission
  <2> QED
    BY <1>1, <1>2, <2>1, TextIsMessage, AnswerMoves
<1>3. ASSUME request[h].at = "threw exception", NEW message \in Speech!Messages,
             Filtered(h, 404, message)
      PROVE  HttpInv'
  <2>1. 404 \in Nat \ {0}
    BY TextIsMessage
  <2>2. request[h].at \in PastLanguage
    BY <1>3 DEF PastLanguage, PastPermission
  <2> QED
    BY <1>1, <1>3, <2>1, <2>2, FilteredMoves
<1>4. CASE Intercepted(h)
  BY <1>1, <1>4, TextIsMessage, FilteredMoves DEF Intercepted
<1> QED
  BY <1>2, <1>3, <1>4 DEF Respond

LEMMA HttpDiesKeeps == ASSUME HttpInv, HttpDies PROVE HttpInv'
<1>1. UnchangedAccounts
  BY DEF HttpDies
<1>2. request \in [Requests -> RequestStates]
  BY DEF HttpInv, HttpType
<1>3. ASSUME NEW h \in Requests
      PROVE  request'[h] \in RequestStates /\ RequestFits(request'[h])
  <2> DEFINE r == [request[h] EXCEPT !.at = "dead"]
  <2>1. RequestFits(request[h]) /\ request[h] \in RequestStates
    BY <1>2 DEF HttpInv
  <2>2. CASE request[h].at \in {"idle", "answered"}
    BY <2>1, <2>2 DEF HttpDies
  <2>3. CASE request[h].at \notin {"idle", "answered"}
    <3>1. request'[h] = r
      BY <2>3 DEF HttpDies
    <3>2. /\ r \in RequestStates /\ r.at = "dead" /\ r.answer = request[h].answer
          /\ r.token = request[h].token /\ r.route = request[h].route
          /\ r.found = request[h].found /\ r.handled = request[h].handled
          /\ r.language = request[h].language /\ r.asked = request[h].asked
      BY <2>1 DEF RequestStates, Stops
    <3> HIDE DEF r
    <3>3. RequestFits(r)
      BY <2>1, <2>3, <3>2 DEF RequestFits, PastLookUp, PastLanguage, PastPermission
    <3> QED
      BY <3>1, <3>2, <3>3
  <2> QED
    BY <2>2, <2>3
<1>4. request' \in [Requests -> RequestStates]
  <2>1. request' = [h \in Requests |-> request'[h]]
    BY DEF HttpDies
  <2> QED
    BY <1>3, <2>1
<1>5. \A h \in Requests : RequestFits(request[h])'
  BY <1>1, <1>3 DEF RequestFits, UnchangedAccounts
<1> QED
  BY <1>1, <1>4, <1>5 DEF HttpInv, HttpType, UnchangedAccounts

(* Tokens that are valid stay valid, whatever becomes of the account. *)
LEMMA OthersChangeKeeps == ASSUME HttpInv, OthersChange PROVE HttpInv'
<1>1. PICK a \in Accounts : ChangeAccount(a)
  BY DEF OthersChange
<1>2. PICK new \in (Roles \union {"gone"}) \ {role[a]} :
         /\ role' = [role EXCEPT ![a] = new]
         /\ issued' = IF new = "gone" THEN issued ELSE issued \union {<<a, new>>}
  BY <1>1 DEF ChangeAccount
<1>3. changes' \in 0 .. MaxChanges /\ request' = request
  BY <1>1, HttpAssumption DEF ChangeAccount, HttpInv, HttpType
<1>4. issued \subseteq issued' /\ issued' \subseteq Accounts \X Roles
  BY <1>2 DEF HttpInv, HttpType
<1>5. HttpType'
  BY <1>2, <1>3, <1>4 DEF HttpInv, HttpType
<1>6. \A h \in Requests : RequestFits(request[h])'
  BY <1>3, <1>4 DEF HttpInv, RequestFits
<1> QED
  BY <1>5, <1>6 DEF HttpInv

LEMMA HttpStep == HttpInv /\ [HttpNext \/ OthersChange \/ HttpDies]_httpVars => HttpInv'
<1> SUFFICES ASSUME HttpInv, [HttpNext \/ OthersChange \/ HttpDies]_httpVars
             PROVE  HttpInv'
  OBVIOUS
<1>1. CASE UNCHANGED httpVars
  <2>1. HttpType'
    BY <1>1 DEF httpVars, HttpInv, HttpType
  <2>2. \A h \in Requests : RequestFits(request[h])'
    BY <1>1 DEF httpVars, HttpInv, RequestFits
  <2> QED
    BY <2>1, <2>2 DEF HttpInv
<1>2. ASSUME NEW h \in Requests,
             \/ Receive(h) \/ Authenticate(h) \/ LookUpUser(h) \/ GuardQueryFails(h)
             \/ ChooseLanguage(h)
      PROVE  HttpInv'
  BY <1>2, ReceiveKeeps, AuthenticateKeeps, LookUpUserKeeps, UnfilteredMoves,
     ChooseLanguageKeeps DEF GuardQueryFails
<1>3. ASSUME NEW h \in Requests,
             Charge(h) \/ CheckRole(h) \/ Validate(h) \/ Handle(h) \/ Respond(h)
      PROVE  HttpInv'
  BY <1>3, ChargeKeeps, CheckRoleKeeps, ValidateKeeps, HandleKeeps, RespondKeeps
<1> QED
  BY <1>1, <1>2, <1>3, OthersChangeKeeps, HttpDiesKeeps DEF HttpNext

LEMMA HttpInvariant == HttpSpec => []HttpInv
  BY HttpBegins, HttpStep, PTL DEF HttpSpec

(* Types; a request is answered when it has an answer. *)
THEOREM HttpTypeCorrect == HttpSpec => []HttpOK
<1>1. HttpInv => HttpOK
  BY DEF HttpInv, HttpType, HttpOK, RequestStates, RequestFits
<1> QED
  BY <1>1, HttpInvariant, PTL

(* Whoever reaches a handler was let through by every guard before it, for *)
(* what was true when the guard looked (jwt-auth.guard.ts:70-110,          *)
(* roles.guard.ts:13-28).                                                  *)
THEOREM HandledForEntitledCorrect == HttpSpec => []HandledForEntitled
<1>1. HttpInv => HandledForEntitled
  <2> SUFFICES ASSUME HttpInv, NEW h \in Requests, request[h].handled,
                      request[h].route # "public"
               PROVE  /\ request[h].found
                      /\ request[h].route = "admin" =>
                            <<request[h].token[1], "ADMIN">> \in issued
    BY DEF HandledForEntitled
  <2>1. RequestFits(request[h]) /\ issued \subseteq Accounts \X Roles
    BY DEF HttpInv, HttpType
  <2>2. request[h].found
    BY <2>1 DEF RequestFits
  <2>3. CASE request[h].route = "admin"
    <3>0. NoToken[2] # "ADMIN"
      BY DEF NoToken
    <3>1. request[h].token[2] = "ADMIN" /\ request[h].token \in issued
      BY <2>1, <2>3, <3>0 DEF RequestFits
    <3>2. request[h].token = <<request[h].token[1], request[h].token[2]>>
      BY <2>1, <3>1
    <3> QED
      BY <2>2, <3>1, <3>2
  <2> QED
    BY <2>2, <2>3
<1> QED
  BY <1>1, HttpInvariant, PTL

(* Every answer that can be translated is in the language the header asks  *)
(* for most: whoever may fail with a code runs after the language guard    *)
(* (app.module.ts:36-47, language.guard.ts:23-42, translate.ts:18-37).     *)
THEOREM SpokenAsAskedCorrect == HttpSpec => []SpokenAsAsked
<1>1. HttpInv => SpokenAsAsked
  BY DEF HttpInv, RequestFits, SpokenAsAsked
<1> QED
  BY <1>1, HttpInvariant, PTL
-----------------------------------------------------------------------------
(* Creating and updating rows. *)
EditingInv == EditingOK /\ OmittedKept

(* A schema fills in defaults on an update only where it is the create     *)
(* schema's .partial(), and then the same ones.                            *)
LEMMA DefaultsReused ==
    ASSUME NEW k \in Kinds
    PROVE  /\ Updated[k].default \subseteq Created[k].default
           /\ Updated[k].default # {} => k \in UpdatedPartially
<1>1. CASE k \in {"session", "student", "user", "tutor", "managedStudent"}
  <2>1. /\ SessionUpdate.default = {} /\ StudentUpdate.default = {}
        /\ UserUpdate.default = {}
    BY DEF SessionUpdate, StudentUpdate, UserUpdate, Object, Strict
  <2>2. ManagedUpdate.default = {} /\ ManagedStudentUpdate.default = {}
    BY DEF ManagedUpdate, ManagedStudentUpdate, Object, Strict, Extend
  <2>3. Updated[k] \in {SessionUpdate, StudentUpdate, UserUpdate, ManagedUpdate,
                        ManagedStudentUpdate}
    BY <1>1 DEF Updated
  <2> QED
    BY <2>1, <2>2, <2>3
<1>2. CASE k \in UpdatedPartially
  <2>1. ClassUpdate.default \subseteq Class.default
    BY DEF ClassUpdate, Class, Object, Partial, Omit, Extend
  <2>2. CurriculumUpdate.default \subseteq Curriculum.default
    BY DEF CurriculumUpdate, Curriculum, Object, Partial
  <2>3. ChapterUpdate.default \subseteq Chapter.default
    BY DEF ChapterUpdate, Chapter, Object, Partial
  <2>4. LessonUpdate.default \subseteq Lesson.default
    BY DEF LessonUpdate, Lesson, Object, Partial
  <2>5. AssignmentUpdate.default \subseteq Assignment.default
    BY DEF AssignmentUpdate, Assignment, Object, Partial, Omit
  <2>6. ScheduleUpdate.default \subseteq Schedule.default
    BY DEF ScheduleUpdate, Schedule, Object, Partial, Omit
  <2>7. TuitionUpdate.default \subseteq Tuition.default
    BY DEF TuitionUpdate, Tuition, Object, Partial, Omit
  <2>8. TransactionUpdate.default \subseteq Transaction.default
    BY DEF TransactionUpdate, Transaction, Object, Partial, Omit
  <2>9. CategoryUpdate.default \subseteq Category.default
    BY DEF CategoryUpdate, Category, Object, Partial
  <2>10. WalletUpdate.default \subseteq Wallet.default
    BY DEF WalletUpdate, Wallet, Object, Partial
  <2>11. \E s \in {<<Class, ClassUpdate>>, <<Curriculum, CurriculumUpdate>>, <<Chapter, ChapterUpdate>>, <<Lesson, LessonUpdate>>, <<Assignment, AssignmentUpdate>>, <<Schedule, ScheduleUpdate>>, <<Tuition, TuitionUpdate>>, <<Transaction, TransactionUpdate>>, <<Category, CategoryUpdate>>, <<Wallet, WalletUpdate>>} :
               Created[k] = s[1] /\ Updated[k] = s[2]
    BY <1>2 DEF UpdatedPartially, Created, Updated
  <2> QED
    BY <1>2, <2>1, <2>2, <2>3, <2>4, <2>5, <2>6, <2>7, <2>8, <2>9, <2>10, <2>11
<1> QED
  BY <1>1, <1>2 DEF Kinds, Created, UpdatedPartially

LEMMA EditingBegins == EditingInit => EditingInv
<1> SUFFICES ASSUME EditingInit PROVE EditingInv
  OBVIOUS
<1>1. EditingOK
  BY EditingAssumption DEF EditingInit, EditingOK, Nothing, Default, Creation, Edit
<1>2. OmittedKept
  BY DEF EditingInit, OmittedKept
<1> QED
  BY <1>1, <1>2 DEF EditingInv

LEMMA UpdateKeeps == ASSUME EditingInv, Update PROVE EditingInv'
<1>1. edits' = edits + 1 /\ edits < MaxEdits /\ kind' = kind
      /\ edits \in 0 .. MaxEdits /\ kind \in Kinds /\ edits' \in 0 .. MaxEdits
  BY EditingAssumption DEF Update, EditingInv, EditingOK
<1> DEFINE s == Updated[kind]
<1>2. PICK body :
         /\ row' = [f \in Columns(kind) |->
                      IF f \in body \intersect Fields(s) THEN Edit(edits + 1)
                      ELSE IF f \in Parsed(s, body) THEN Default ELSE row[f]]
         /\ wanted' = [f \in Columns(kind) |->
                         IF f \in body \intersect Fields(s) THEN Edit(edits + 1)
                         ELSE wanted[f]]
  BY DEF Update
<1>3. /\ Nothing .. Edit(edits) \subseteq Nothing .. Edit(edits')
      /\ Edit(edits + 1) \in Nothing .. Edit(edits')
      /\ Default \in Nothing .. Edit(edits')
  BY <1>1, EditingAssumption DEF Nothing, Edit, Default
<1>4. /\ row' \in [Columns(kind) -> Nothing .. Edit(edits')]
      /\ wanted' \in [Columns(kind) -> Nothing .. Edit(edits')]
  <2>1. /\ row \in [Columns(kind) -> Nothing .. Edit(edits)]
        /\ wanted \in [Columns(kind) -> Nothing .. Edit(edits)]
    BY DEF EditingInv, EditingOK
  <2> QED
    BY <1>2, <1>3, <2>1
<1>5. EditingOK'
  BY <1>1, <1>4 DEF EditingOK, Edit
<1>6. ASSUME NEW f \in Columns(kind), row'[f] # wanted'[f]
      PROVE  /\ row'[f] = Default
             /\ kind \in UpdatedPartially /\ f \in Created[kind].default
  <2>1. f \notin body \intersect Fields(s)
    BY <1>2, <1>6
  <2>2. CASE f \in Parsed(s, body)
    <3>1. row'[f] = Default /\ f \in s.default
      BY <1>2, <2>1, <2>2 DEF Parsed
    <3> QED
      BY <1>1, <3>1, DefaultsReused
  <2>3. CASE f \notin Parsed(s, body)
    <3>1. row'[f] = row[f] /\ wanted'[f] = wanted[f]
      BY <1>2, <2>1, <2>3
    <3> QED
      BY <1>6, <3>1 DEF EditingInv, OmittedKept
  <2> QED
    BY <2>2, <2>3
<1>7. OmittedKept'
  BY <1>1, <1>6 DEF OmittedKept
<1> QED
  BY <1>5, <1>7 DEF EditingInv

LEMMA EditingInvariant == EditingSpec => []EditingInv
<1>1. EditingInv /\ [Update]_editVars => EditingInv'
  <2> SUFFICES ASSUME EditingInv, [Update]_editVars PROVE EditingInv'
    OBVIOUS
  <2>1. CASE UNCHANGED editVars
    BY <2>1 DEF editVars, EditingInv, EditingOK, OmittedKept
  <2> QED
    BY <2>1, UpdateKeeps
<1> QED
  BY <1>1, EditingBegins, PTL DEF EditingSpec

(* Types. *)
THEOREM EditingTypeCorrect == EditingSpec => []EditingOK
<1>1. EditingInv => EditingOK
  BY DEF EditingInv
<1> QED
  BY <1>1, EditingInvariant, PTL

(* For all fifteen pairs of schemas and any number of updates, a field     *)
(* that updates leave out keeps its value, except those with a default in  *)
(* a schema reused by .partial() (session.schema.ts:62-67).                *)
THEOREM OmittedKeptCorrect == EditingSpec => []OmittedKept
<1>1. EditingInv => OmittedKept
  BY DEF EditingInv
<1> QED
  BY <1>1, EditingInvariant, PTL
-----------------------------------------------------------------------------
(* The process and its parts. *)
LEMMA ProcessWithin == Spec => ProcessSpec
<1>1. Init => ProcessInit
  BY DEF Init
<1>2. [Next]_vars => [ProcessNext]_phase
  BY DEF Next, vars, processVars, Boot, Crash, Notify, UploadFiles, ResetPasswords,
         ServeHttp, EditRows, UsePasswords, UnchangedHosted, ProcessNext
<1> QED
  BY <1>1, <1>2, PTL DEF Spec, ProcessSpec

LEMMA NotificationsWithin == Spec => NotificationsSpec
<1>1. Init => NotificationsInit
  BY DEF Init
<1>2. [Next]_vars => [NotificationsNext \/ NotificationsDie]_notificationVars
  BY DEF Next, vars, Boot, Crash, Notify, UploadFiles, ResetPasswords, ServeHttp,
         EditRows, UsePasswords, UnchangedHosted
<1> QED
  BY <1>1, <1>2, PTL DEF Spec, NotificationsSpec

LEMMA UploadsWithin == Spec => UploadsSpec
<1>1. Init => UploadsInit
  BY DEF Init
<1>2. [Next]_vars => [UploadsNext \/ StoreStep \/ UploadsDie]_uploadVars
  BY DEF Next, vars, Boot, Crash, Notify, UploadFiles, ResetPasswords, ServeHttp,
         EditRows, UsePasswords, UnchangedHosted
<1> QED
  BY <1>1, <1>2, PTL DEF Spec, UploadsSpec

LEMMA ResetWithin == Spec => ResetSpec
<1>1. Init => ResetInit
  BY DEF Init
<1>2. [Next]_vars => [ResetNext \/ Surroundings \/ ResetDies]_resetVars
  BY DEF Next, vars, Boot, Crash, Notify, UploadFiles, ResetPasswords, ServeHttp,
         EditRows, UsePasswords, UnchangedHosted
<1> QED
  BY <1>1, <1>2, PTL DEF Spec, ResetSpec

LEMMA HttpWithin == Spec => HttpSpec
<1>1. Init => HttpInit
  BY DEF Init
<1>2. [Next]_vars => [HttpNext \/ OthersChange \/ HttpDies]_httpVars
  BY DEF Next, vars, Boot, Crash, Notify, UploadFiles, ResetPasswords, ServeHttp,
         EditRows, UsePasswords, UnchangedHosted
<1> QED
  BY <1>1, <1>2, PTL DEF Spec, HttpSpec

LEMMA EditingWithin == Spec => EditingSpec
<1>1. Init => EditingInit
  BY DEF Init
<1>2. [Next]_vars => [Update]_editVars
  BY DEF Next, vars, schemaVars, Boot, Crash, Notify, UploadFiles, ResetPasswords,
         ServeHttp, EditRows, UsePasswords
<1> QED
  BY <1>1, <1>2, PTL DEF Spec, EditingSpec

LEMMA PasswordsWithin == Spec => PasswordsSpec
<1>1. Init => PasswordsInit
  BY DEF Init
<1>2. [Next]_vars => [PasswordsNext]_passwordVars
  BY DEF Next, vars, schemaVars, Boot, Crash, Notify, UploadFiles, ResetPasswords,
         ServeHttp, EditRows, UsePasswords
<1> QED
  BY <1>1, <1>2, PTL DEF Spec, PasswordsSpec

(* The parts do not disturb each other, nor does the process by the times  *)
(* at which it lets them run or dies: a behaviour of the process, looked   *)
(* at through the variables of one part, is a behaviour of that part       *)
(* (app.module.ts:16-50 puts them in one process).                         *)
THEOREM PartsUndisturbed ==
    Spec => /\ ProcessSpec
            /\ NotificationsSpec /\ UploadsSpec /\ ResetSpec /\ HttpSpec
            /\ EditingSpec /\ PasswordsSpec
  BY ProcessWithin, NotificationsWithin, UploadsWithin, ResetWithin, HttpWithin,
     EditingWithin, PasswordsWithin

(* The process and all its parts are well formed through every crash, for  *)
(* any number of crashes, users, calls, files, tokens and requests.        *)
THEOREM ServiceTypeCorrect == Spec => []TypeOK
<1> DEFINE Own == focus \in Parts /\ deaths \in 0 .. MaxDeaths
<1>1. Init => Own
  BY ServiceAssumption DEF Init
<1>2. Own /\ [Next]_vars => Own'
  BY ServiceAssumption
     DEF Next, vars, processVars, Boot, Crash, Notify, UploadFiles, ResetPasswords,
         ServeHttp, EditRows, UsePasswords, UnchangedHosted
<1>3. (Own /\ NotificationsOK /\ UploadsOK /\ ResetOK /\ HttpOK /\ EditingOK
         /\ PasswordsOK) => TypeOK
  BY DEF TypeOK
<1> HIDE DEF Own
<1> QED
  BY <1>1, <1>2, <1>3, PartsUndisturbed, NotificationsTypeCorrect,
     UploadsTypeCorrect, ResetTypeCorrect, HttpTypeCorrect, EditingTypeCorrect,
     PasswordsTypeCorrect, PTL DEF Spec

(* What is promised of each part holds of the whole process.               *)
THEOREM ServiceCorrect ==
    Spec => /\ [](ReadAcknowledged /\ WalkSkipsNothing)
            /\ BoardRefined
            /\ [](ReportedIsStored /\ DownloadTruthful /\ StraysHaveFailedCalls)
            /\ [](TokenBeforeMail /\ ExpiresAsAsked /\ SpentForGood)
            /\ [](HandledForEntitled /\ SpokenAsAsked)
            /\ []OmittedKept /\ LoginStaysOpen
  BY PartsUndisturbed, ReadAcknowledgedCorrect, WalkSkipsNothingCorrect,
     BoardRefinedCorrect, ReportedIsStoredCorrect, DownloadTruthfulCorrect,
     StraysHaveFailedCallsCorrect, TokenBeforeMailCorrect, ExpiresAsAskedCorrect,
     SpentForGoodCorrect, HandledForEntitledCorrect, SpokenAsAskedCorrect,
     OmittedKeptCorrect, LoginStaysOpenCorrect, PTL
=============================================================================
