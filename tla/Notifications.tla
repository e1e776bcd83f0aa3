--------------------------- MODULE Notifications ---------------------------
(***************************************************************************)
(* The notification service over its table.  A call is handled in one or   *)
(* two statements, and statements of other calls come in between.  A       *)
(* client that walks the pages of its list is modelled with it.            *)
(***************************************************************************)
EXTENDS Naturals, FiniteSets

CONSTANTS
    Callers,      \* calls, each made once
    People,       \* users of the system
    PageLimit,    \* `limit` of the walking client
    OldNotes,     \* notifications that exist at the beginning
    MaxNotes      \* bound: notifications in all

ASSUME NotificationsAssumption ==
    /\ PageLimit \in Nat \ {0}
    /\ OldNotes \in Nat /\ MaxNotes \in Nat /\ OldNotes <= MaxNotes
    /\ People # {}

VARIABLES
    notes,      \* the table; ids are in the order of created_at
    lastNote,   \* the id last used
    call,       \* what call c is for, where it is, and its result
    walk        \* a client that reads its list page by page

notificationVars == <<notes, lastNote, call, walk>>
-----------------------------------------------------------------------------
NoteIds == 1 .. MaxNotes
Rows == [to : People, from : People, isRead : BOOLEAN]

NoCall == [op |-> "none", user |-> "nobody", id |-> 0, at |-> "idle",
           result |-> "open", had |-> {}]
NoWalk == [at |-> "idle", user |-> "nobody", asked |-> "all",
           filter |-> "all", page |-> 1, seen |-> {}, start |-> {},
           shrunk |-> FALSE]

NotificationsInit ==
    /\ \E to \in [1 .. OldNotes -> People], from \in People :
          notes = [n \in 1 .. OldNotes |->
                     [to |-> to[n], from |-> from, isRead |-> FALSE]]
    /\ lastNote = OldNotes
    /\ call = [c \in Callers |-> NoCall]
    /\ walk = NoWalk

(* `isRead` of the query: absent, true or false. *)
Filters == {"all", "read", "unread"}

Passes(note, filter) ==
    /\ filter = "read" => note.isRead
    /\ filter = "unread" => ~note.isRead

(* The list of a user: what was sent to or by them, and passes the filter. *)
Listed(table, user, filter) ==
    {n \in DOMAIN table : /\ user \in {table[n].to, table[n].from}
                          /\ Passes(table[n], filter)}

(* Observes the walking client: has its list lost a row meanwhile? *)
Watch ==
    walk' = IF walk.at = "walking"
               /\ ~ Listed(notes, walk.user, walk.filter)
                      \subseteq Listed(notes', walk.user, walk.filter)
            THEN [walk EXCEPT !.shrunk = TRUE] ELSE walk

(* Of an answered call only the answer matters, and what it was about.     *)
Answer(c, result) ==
    call' = [call EXCEPT ![c] =
               [NoCall EXCEPT !.at = "done", !.result = result,
                  !.had = IF result \in {"read", "all read"}
                          THEN call[c].had ELSE {}]]

(* A statement that was executed may still be answered with an error. *)
AnswerOrError(c, result) == Answer(c, result) \/ Answer(c, "error")
-----------------------------------------------------------------------------
(* A call arrives, over HTTP or from the queue.  A create without a valid  *)
(* sender is refused at once.                                              *)
Ask(c) ==
    /\ call[c].at = "idle"
    /\ \E id \in NoteIds, op \in {"look", "read", "delete"} :
          call' = [call EXCEPT ![c] =
             [NoCall EXCEPT !.op = op, !.id = id, !.at = "find",
                            !.had = IF op = "read" THEN {id} ELSE {}]]
    /\ UNCHANGED <<notes, lastNote, walk>>

AskCreate(c) ==
    /\ call[c].at = "idle"
    /\ \/ Answer(c, "bad request")
       \/ \E user \in People :
             call' = [call EXCEPT ![c] =
                [NoCall EXCEPT !.op = "create", !.user = user, !.at = "write"]]
    /\ UNCHANGED <<notes, lastNote, walk>>

AskReadAll(c) ==
    /\ call[c].at = "idle"
    /\ \E user \in People :
          call' = [call EXCEPT ![c] =
             [NoCall EXCEPT !.op = "readAll", !.user = user, !.at = "write",
                            !.had = {n \in DOMAIN notes : notes[n].to = user}]]
    /\ UNCHANGED <<notes, lastNote, walk>>

(* Faulty variant: only findById looks first. *)
FindToLook(c) ==
    /\ call[c].at = "find"
    /\ IF call[c].op # "look" THEN call' = [call EXCEPT ![c].at = "write"]
       ELSE Answer(c, IF call[c].id \in DOMAIN notes THEN "seen" ELSE "not found")
    /\ UNCHANGED <<notes, lastNote, walk>>

(* findById, alone or before an update or a delete. *)
Find(c) ==
    /\ call[c].at = "find"
    /\ IF call[c].id \notin DOMAIN notes THEN Answer(c, "not found")
       ELSE IF call[c].op = "look" THEN Answer(c, "seen")
       ELSE call' = [call EXCEPT ![c].at = "write"]
    /\ UNCHANGED <<notes, lastNote, walk>>

CreateNote(c) ==
    /\ call[c].at = "write" /\ call[c].op = "create"
    /\ lastNote < MaxNotes
    /\ \E to \in People :
          notes' = [n \in DOMAIN notes \union {lastNote + 1} |->
                      IF n = lastNote + 1
                      THEN [to |-> to, from |-> call[c].user, isRead |-> FALSE]
                      ELSE notes[n]]
    /\ lastNote' = lastNote + 1
    /\ AnswerOrError(c, "created")
    /\ Watch

MarkRead(c) ==
    LET id == call[c].id
    IN  /\ call[c].at = "write" /\ call[c].op = "read"
        /\ IF id \in DOMAIN notes
           THEN /\ notes' = [notes EXCEPT ![id].isRead = TRUE]
                /\ AnswerOrError(c, "read")
           ELSE UNCHANGED notes /\ AnswerOrError(c, "null")
        /\ UNCHANGED lastNote
        /\ Watch

(* Faulty variant: the rows the user sent. *)
SentBy(n, user) == notes[n].from = user

(* Only the rows addressed to the user, not all those on their list. *)
Addressed(n, user) == notes[n].to = user

MarkAllRead(c) ==
    /\ call[c].at = "write" /\ call[c].op = "readAll"
    /\ notes' = [n \in DOMAIN notes |->
                   IF Addressed(n, call[c].user)
                   THEN [notes[n] EXCEPT !.isRead = TRUE] ELSE notes[n]]
    /\ AnswerOrError(c, "all read")
    /\ UNCHANGED lastNote
    /\ Watch

(* Whether a row was there to delete is not looked at. *)
DeleteNote(c) ==
    /\ call[c].at = "write" /\ call[c].op = "delete"
    /\ notes' = [n \in DOMAIN notes \ {call[c].id} |-> notes[n]]
    /\ AnswerOrError(c, "deleted")
    /\ UNCHANGED lastNote
    /\ Watch

(* Any statement may fail before it does anything. *)
StatementFails(c) ==
    /\ call[c].at \in {"find", "write"}
    /\ Answer(c, "error")
    /\ UNCHANGED <<notes, lastNote, walk>>
-----------------------------------------------------------------------------
(* Over HTTP the filter is a string, which z.coerce.boolean() takes for    *)
(* true unless it is empty; the messages of the queue hold a boolean.      *)
Understood(asked, way) ==
    IF way = "http" /\ asked = "unread" THEN "read" ELSE asked

(* The walking client asks for page after page until one is not full.  The *)
(* count that precedes each select is not modelled: it only informs.       *)
BeginWalk ==
    /\ walk.at = "idle"
    /\ \E user \in People, asked \in Filters, way \in {"http", "rpc"} :
          LET filter == Understood(asked, way)
          IN  walk' = [NoWalk EXCEPT
                         !.at = "walking", !.user = user,
                         !.asked = asked, !.filter = filter,
                         !.start = Listed(notes, user, filter)]
    /\ UNCHANGED <<notes, lastNote, call>>

(* The position of a row in the list, newest first. *)
Rank(n, list) == Cardinality({m \in list : m > n})

(* Faulty variant: pages counted from zero. *)
OnZeroBasedPage(n, list, page) ==
    Rank(n, list) \in page * PageLimit .. (page + 1) * PageLimit - 1

OnPage(n, list, page) ==
    Rank(n, list) \in (page - 1) * PageLimit .. page * PageLimit - 1

FetchPage ==
    LET list == Listed(notes, walk.user, walk.filter)
        rows == {n \in list : OnPage(n, list, walk.page)}
    IN  /\ walk.at = "walking"
        /\ walk' = [walk EXCEPT
                      !.seen = @ \union rows,
                      !.page = IF Cardinality(rows) < PageLimit THEN @ ELSE @ + 1,
                      !.at = IF Cardinality(rows) < PageLimit THEN "ended" ELSE @]
        /\ UNCHANGED <<notes, lastNote, call>>

(* The service dies: nobody hears of the calls under way. *)
NotificationsDie ==
    /\ call' = [c \in Callers |->
                  IF call[c].at \in {"find", "write"}
                  THEN [NoCall EXCEPT !.at = "dead"] ELSE call[c]]
    /\ UNCHANGED <<notes, lastNote, walk>>

NotificationsNext ==
    \/ \E c \in Callers :
          \/ Ask(c) \/ AskCreate(c) \/ AskReadAll(c) \/ Find(c)
          \/ CreateNote(c) \/ MarkRead(c) \/ MarkAllRead(c) \/ DeleteNote(c)
          \/ StatementFails(c)
    \/ BeginWalk \/ FetchPage

NotificationsSpec ==
    NotificationsInit /\ [][NotificationsNext \/ NotificationsDie]_notificationVars
-----------------------------------------------------------------------------
(* Types; a call is over when it has a result. *)
NotificationsOK ==
    /\ lastNote \in OldNotes .. MaxNotes
    /\ DOMAIN notes \subseteq 1 .. lastNote
    /\ \A n \in DOMAIN notes : notes[n] \in Rows
    /\ \A c \in Callers :
          /\ call[c].at \in {"idle", "find", "write", "done", "dead"}
          /\ (call[c].at = "done") <=> (call[c].result # "open")
    /\ walk.at \in {"idle", "walking", "ended"} /\ walk.page \in Nat \ {0}

(* What a caller was told to be read is read, or gone: the notification of *)
(* markAsRead, and of markAllAsRead all that were addressed to the user    *)
(* when the call came, whatever other calls did meanwhile or since         *)
(* (notification.service.ts:51-59).                                        *)
ReadAcknowledged ==
    \A c \in Callers :
        call[c].result \in {"read", "all read"} =>
            \A n \in call[c].had \intersect DOMAIN notes : notes[n].isRead

(* A client that asks for page after page until one is not full has seen   *)
(* every notification that was on its list all the time, also when others  *)
(* arrived between two pages, unless a row left its list meanwhile         *)
(* (notification.repository.ts:39-64).                                     *)
WalkSkipsNothing ==
    walk.at = "ended" /\ ~walk.shrunk => walk.start \subseteq walk.seen

(* notification.controller.ts:68, "isRead ... type: Boolean": the list has *)
(* what the client asked for.  Violated over HTTP, where `isRead=false`    *)
(* lists the notifications that have been read; student.schema.ts:51-52    *)
(* says why, and does otherwise.                                           *)
ListedAsAsked ==
    walk.at = "walking" =>
        \A n \in Listed(notes, walk.user, walk.filter) :
            Passes(notes[n], walk.asked)

(* Finding a notification and then updating or deleting it are two         *)
(* statements; every call nevertheless has the effect and the answer of    *)
(* one atomic step, as NoticeBoard states them.                            *)
Board == INSTANCE NoticeBoard WITH
            NoteIds <- NoteIds,
            board <- [n \in DOMAIN notes |-> notes[n].isRead],
            born <- 1 .. lastNote,
            outcome <- [c \in Callers |-> call[c].result]

BoardRefined == Board!BoardSpec
=============================================================================
