------------------------ MODULE NotificationsProofs ------------------------
(***************************************************************************)
(* Notifications is correct for any number of calls, users and rows: what  *)
(* a caller was told to be read is read or gone, a client that pages       *)
(* through its list skips nothing, and the service implements NoticeBoard. *)
(* All of it follows from NotesInv, which every statement preserves.       *)
(***************************************************************************)
EXTENDS Notifications, FunctionTheorems, FiniteSetTheorems, TLAPS

Calls ==
    [op : {"none", "look", "read", "delete", "create", "readAll"},
     user : People \union {"nobody"}, id : Nat,
     at : {"idle", "find", "write", "done", "dead"},
     result : {"open", "bad request", "not found", "seen", "created", "read",
               "null", "all read", "deleted", "error"},
     had : SUBSET Nat]

Walks ==
    [at : {"idle", "walking", "ended"}, user : People \union {"nobody"},
     asked : Filters, filter : Filters, page : Nat \ {0},
     seen : SUBSET Nat, start : SUBSET Nat, shrunk : BOOLEAN]

NotesType ==
    /\ lastNote \in OldNotes .. MaxNotes
    /\ notes \in [DOMAIN notes -> Rows] /\ DOMAIN notes \subseteq 1 .. lastNote
    /\ call \in [Callers -> Calls]
    /\ walk \in Walks

(* What call k knows of the table with ids up to `last`: the id it writes  *)
(* to was given out, the rows it had are addressed to its user still, and  *)
(* once it is answered they are read, all unless they are gone.            *)
Fits(k, table, last) ==
    /\ k.at = "done" <=> k.result # "open"
    /\ k.at = "find" => k.op \in {"look", "read", "delete"} /\ k.id \in NoteIds
    /\ k.at = "write" /\ k.op \in {"read", "delete"} =>
          k.id \in NoteIds /\ k.id \in 1 .. last
    /\ k.at \in {"find", "write"} /\ k.op = "read" => k.had = {k.id}
    /\ k.at = "write" /\ k.op = "create" => k.user \in People
    /\ k.at = "write" /\ k.op = "readAll" =>
          /\ k.had \subseteq 1 .. last
          /\ \A n \in k.had \intersect DOMAIN table : table[n].to = k.user
    /\ k.result \in {"read", "all read"} =>
          /\ k.had \subseteq 1 .. last
          /\ \A n \in k.had \intersect DOMAIN table : table[n].isRead

(* What the walking client has seen: of its list at the beginning, nothing *)
(* of which is gone, every row on an earlier page.                         *)
WalkInv ==
    /\ walk.at = "walking" /\ ~walk.shrunk =>
          LET list == Listed(notes, walk.user, walk.filter)
          IN  /\ walk.start \subseteq list
              /\ \A n \in walk.start :
                    Rank(n, list) < (walk.page - 1) * PageLimit => n \in walk.seen
    /\ walk.at = "ended" /\ ~walk.shrunk => walk.start \subseteq walk.seen

CallsFit == \A c \in Callers : Fits(call[c], notes, lastNote)

NotesInv == NotesType /\ CallsFit /\ WalkInv
-----------------------------------------------------------------------------
LEMMA LastIsNat ==
    ASSUME NEW n \in OldNotes .. MaxNotes PROVE n \in Nat
  BY NotificationsAssumption

(* No statement gives an id out twice, changes whom a row is for, or takes *)
(* back that it was read.                                                  *)
Advanced(table, last, newTable, newLast) ==
    /\ last <= newLast
    /\ \A n \in DOMAIN newTable \intersect 1 .. last :
          /\ n \in DOMAIN table /\ newTable[n].to = table[n].to
          /\ table[n].isRead => newTable[n].isRead

(* What a call knows stays true while other calls write. *)
LEMMA FitsStill ==
    ASSUME NEW k, NEW table, NEW last \in Nat, NEW newTable, NEW newLast \in Nat,
           Fits(k, table, last), Advanced(table, last, newTable, newLast)
    PROVE  Fits(k, newTable, newLast)
<1>1. 1 .. last \subseteq 1 .. newLast
  BY DEF Advanced
<1>2. k.at = "write" /\ k.op = "readAll" =>
         \A n \in k.had \intersect DOMAIN newTable : newTable[n].to = k.user
  BY DEF Fits, Advanced
<1>3. k.result \in {"read", "all read"} =>
         \A n \in k.had \intersect DOMAIN newTable : newTable[n].isRead
  BY DEF Fits, Advanced
<1> QED
  BY <1>1, <1>2, <1>3 DEF Fits

(* A step of call c on an advanced table keeps what all calls know. *)
LEMMA CallStep ==
    ASSUME NotesInv, NEW c \in Callers, NEW k \in Calls,
           call' = [call EXCEPT ![c] = k],
           lastNote' \in OldNotes .. MaxNotes,
           Advanced(notes, lastNote, notes', lastNote'),
           Fits(k, notes', lastNote')
    PROVE  call' \in [Callers -> Calls] /\ CallsFit'
<1>1. call \in [Callers -> Calls] /\ lastNote \in Nat /\ lastNote' \in Nat
  BY NotificationsAssumption DEF NotesInv, NotesType
<1>2. ASSUME NEW d \in Callers PROVE Fits(call'[d], notes', lastNote')
  <2>1. CASE d = c
    BY <1>1, <2>1
  <2>2. CASE d # c
    <3>1. call'[d] = call[d] /\ Fits(call[d], notes, lastNote)
      BY <1>1, <2>2 DEF NotesInv, CallsFit
    <3> QED
      BY <1>1, <3>1, FitsStill
  <2> QED
    BY <2>1, <2>2
<1> QED
  BY <1>1, <1>2 DEF CallsFit

(* The record an answer leaves, and that it is one. *)
AnswerTo(k, result) ==
    [NoCall EXCEPT !.at = "done", !.result = result,
       !.had = IF result \in {"read", "all read"} THEN k.had ELSE {}]

Results == {"bad request", "not found", "seen", "created", "read", "null",
            "all read", "deleted", "error"}

LEMMA AnsweredIsCall ==
    ASSUME NEW k \in Calls, NEW result \in Results
    PROVE  AnswerTo(k, result) \in Calls
  BY DEF AnswerTo, Calls, Results, NoCall

LEMMA AnsweredFits ==
    ASSUME NEW k \in Calls, NEW result \in Results, NEW table, NEW last,
           result \in {"read", "all read"} =>
              /\ k.had \subseteq 1 .. last
              /\ \A n \in k.had \intersect DOMAIN table : table[n].isRead
    PROVE  Fits(AnswerTo(k, result), table, last)
  BY DEF AnswerTo, Results, NoCall, Fits

(* An answered call with an advanced table. *)
LEMMA AnswerStep ==
    ASSUME NotesInv, NEW c \in Callers, NEW result \in Results,
           AnswerOrError(c, result),
           lastNote' \in OldNotes .. MaxNotes,
           Advanced(notes, lastNote, notes', lastNote'),
           result \in {"read", "all read"} =>
              /\ call[c].had \subseteq 1 .. lastNote'
              /\ \A n \in call[c].had \intersect DOMAIN notes' : notes'[n].isRead
    PROVE  call' \in [Callers -> Calls] /\ CallsFit'
<1>1. call[c] \in Calls
  BY DEF NotesInv, NotesType
<1>2. PICK told \in {result, "error"} :
          call' = [call EXCEPT ![c] = AnswerTo(call[c], told)]
  BY DEF AnswerOrError, Answer, AnswerTo
<1>3. told \in Results
  BY <1>2 DEF Results
<1>4. Fits(AnswerTo(call[c], told), notes', lastNote')
  BY <1>1, <1>2, <1>3, AnsweredFits
<1>5. AnswerTo(call[c], told) \in Calls
  BY <1>1, <1>3, AnsweredIsCall
<1> QED
  BY <1>2, <1>4, <1>5, CallStep

(* Nothing advances by itself. *)
LEMMA StillAdvanced ==
    ASSUME NotesInv, UNCHANGED <<notes, lastNote>>
    PROVE  Advanced(notes, lastNote, notes', lastNote')
  BY NotificationsAssumption DEF Advanced, NotesInv, NotesType
-----------------------------------------------------------------------------
(* A list is a finite set of ids. *)
LEMMA ListFinite ==
    ASSUME NEW table, NEW last \in Nat, DOMAIN table \subseteq 1 .. last,
           NEW user, NEW filter
    PROVE  /\ IsFiniteSet(Listed(table, user, filter))
           /\ Listed(table, user, filter) \subseteq 1 .. last
<1>1. Listed(table, user, filter) \subseteq 1 .. last
  BY DEF Listed
<1>2. IsFiniteSet(1 .. last)
  BY FS_Interval
<1> QED
  BY <1>1, <1>2, FS_Subset

(* A row does not move towards the front of a list that grows. *)
LEMMA RankGrows ==
    ASSUME NEW list, IsFiniteSet(list), NEW shorter \in SUBSET list, NEW n
    PROVE  /\ Rank(n, list) \in Nat /\ Rank(n, shorter) \in Nat
           /\ Rank(n, shorter) <= Rank(n, list)
<1> DEFINE more == {m \in list : m > n}
           less == {m \in shorter : m > n}
<1>1. more \subseteq list /\ less \subseteq more
  OBVIOUS
<1>2. IsFiniteSet(more)
  BY <1>1, FS_Subset
<1>3. IsFiniteSet(less) /\ Cardinality(less) <= Cardinality(more)
  BY <1>1, <1>2, FS_Subset
<1> QED
  BY <1>2, <1>3, FS_CardinalityType DEF Rank

(* The client is not disturbed by a statement: either its list has lost a  *)
(* row, which Watch notes, or every row is where it was, or further back.  *)
LEMMA WatchStep ==
    ASSUME NotesInv, Watch, lastNote' \in Nat, DOMAIN notes' \subseteq 1 .. lastNote'
    PROVE  walk' \in Walks /\ WalkInv'
<1> DEFINE list == Listed(notes, walk.user, walk.filter)
           next == Listed(notes', walk.user, walk.filter)
<1>1. walk \in Walks /\ WalkInv
  BY DEF NotesInv, NotesType
<1>2. CASE walk.at = "walking" /\ ~ list \subseteq next
  <2>1. walk' = [walk EXCEPT !.shrunk = TRUE]
    BY <1>2 DEF Watch
  <2> QED
    BY <1>1, <2>1 DEF Walks, WalkInv
<1>3. CASE walk.at # "walking"
  <2>1. walk' = walk
    BY <1>3 DEF Watch
  <2> QED
    BY <1>1, <1>3, <2>1 DEF WalkInv
<1>4. CASE walk.at = "walking" /\ list \subseteq next
  <2>1. walk' = walk
    BY <1>4 DEF Watch
  <2>2. IsFiniteSet(next)
    BY ListFinite
  <2>3. ASSUME ~walk.shrunk, NEW n \in walk.start,
               Rank(n, next) < (walk.page - 1) * PageLimit
        PROVE  n \in walk.seen
    <3>1. Rank(n, list) <= Rank(n, next) /\ Rank(n, list) \in Nat /\ Rank(n, next) \in Nat
      BY <1>4, <2>2, RankGrows
    <3>2. (walk.page - 1) * PageLimit \in Int
      BY <1>1, NotificationsAssumption DEF Walks
    <3>3. Rank(n, list) < (walk.page - 1) * PageLimit
      BY <2>3, <3>1, <3>2
    <3> QED
      BY <1>1, <1>4, <2>3, <3>3 DEF WalkInv
  <2>4. ~walk.shrunk => walk.start \subseteq next
    BY <1>1, <1>4 DEF WalkInv
  <2> QED
    BY <1>1, <1>4, <2>1, <2>3, <2>4 DEF WalkInv
<1> QED
  BY <1>2, <1>3, <1>4
-----------------------------------------------------------------------------
(* A step that leaves table and client alone. *)
LEMMA TableAlone ==
    ASSUME NotesInv, UNCHANGED <<notes, lastNote, walk>>,
           call' \in [Callers -> Calls], CallsFit'
    PROVE  NotesInv'
  BY DEF NotesInv, NotesType, WalkInv

(* A call arrives.  The rows a readAll starts out with are addressed to    *)
(* its user.                                                               *)
LEMMA AskKeeps ==
    ASSUME NotesInv, NEW c \in Callers, Ask(c) \/ AskReadAll(c)
    PROVE  NotesInv'
<1>1. Advanced(notes, lastNote, notes', lastNote')
  BY StillAdvanced DEF Ask, AskReadAll
<1>2. lastNote' \in OldNotes .. MaxNotes /\ DOMAIN notes \subseteq 1 .. lastNote
  BY DEF NotesInv, NotesType, Ask, AskReadAll
<1>3. CASE Ask(c)
  <2>1. PICK id \in NoteIds, op \in {"look", "read", "delete"} :
           call' = [call EXCEPT ![c] =
              [NoCall EXCEPT !.op = op, !.id = id, !.at = "find",
                             !.had = IF op = "read" THEN {id} ELSE {}]]
    BY <1>3 DEF Ask
  <2> DEFINE k == [NoCall EXCEPT !.op = op, !.id = id, !.at = "find",
                                 !.had = IF op = "read" THEN {id} ELSE {}]
  <2>2. id \in Nat
    BY NotificationsAssumption DEF NoteIds
  <2>3. k \in Calls /\ Fits(k, notes', lastNote')
    BY <2>2 DEF NoCall, Calls, Fits
  <2> HIDE DEF k
  <2>4. call' \in [Callers -> Calls] /\ CallsFit'
    BY <1>1, <1>2, <2>1, <2>3, CallStep DEF k
  <2> QED
    BY <1>3, <2>4, TableAlone DEF Ask
<1>4. CASE AskReadAll(c)
  <2>1. PICK user \in People :
           call' = [call EXCEPT ![c] =
              [NoCall EXCEPT !.op = "readAll", !.user = user, !.at = "write",
                             !.had = {n \in DOMAIN notes : notes[n].to = user}]]
    BY <1>4 DEF AskReadAll
  <2> DEFINE mine == {n \in DOMAIN notes : notes[n].to = user}
             k == [NoCall EXCEPT !.op = "readAll", !.user = user, !.at = "write",
                                 !.had = mine]
  <2>2. mine \subseteq 1 .. lastNote /\ mine \in SUBSET Nat
    BY <1>2
  <2>3. \A n \in mine : notes'[n].to = user
    BY <1>4 DEF AskReadAll
  <2>4. lastNote' = lastNote
    BY <1>4 DEF AskReadAll
  <2> HIDE DEF mine
  <2>5. k \in Calls /\ Fits(k, notes', lastNote')
    BY <2>2, <2>3, <2>4 DEF NoCall, Calls, Fits
  <2> HIDE DEF k
  <2>6. call' \in [Callers -> Calls] /\ CallsFit'
    BY <1>1, <1>2, <2>1, <2>5, CallStep DEF k, mine
  <2> QED
    BY <1>4, <2>6, TableAlone DEF AskReadAll
<1> QED
  BY <1>3, <1>4

LEMMA AskCreateKeeps ==
    ASSUME NotesInv, NEW c \in Callers, AskCreate(c)
    PROVE  NotesInv'
<1>1. Advanced(notes, lastNote, notes', lastNote')
  BY StillAdvanced DEF AskCreate
<1>2. lastNote' \in OldNotes .. MaxNotes
  BY DEF NotesInv, NotesType, AskCreate
<1>3. call' \in [Callers -> Calls] /\ CallsFit'
  <2>1. CASE Answer(c, "bad request")
    <3>1. AnswerOrError(c, "bad request") /\ "bad request" \in Results
      BY <2>1 DEF AnswerOrError, Results
    <3> QED
      BY <1>1, <1>2, <3>1, AnswerStep
  <2>2. ASSUME NEW user \in People,
               call' = [call EXCEPT ![c] =
                  [NoCall EXCEPT !.op = "create", !.user = user, !.at = "write"]]
        PROVE  call' \in [Callers -> Calls] /\ CallsFit'
    <3> DEFINE k == [NoCall EXCEPT !.op = "create", !.user = user, !.at = "write"]
    <3>1. k \in Calls /\ Fits(k, notes', lastNote')
      BY DEF NoCall, Calls, Fits
    <3> HIDE DEF k
    <3> QED
      BY <1>1, <1>2, <2>2, <3>1, CallStep DEF k
  <2> QED
    BY <2>1, <2>2 DEF AskCreate
<1> QED
  BY <1>3, TableAlone DEF AskCreate

(* findById finds ids that were given out. *)
LEMMA FindKeeps ==
    ASSUME NotesInv, NEW c \in Callers, Find(c)
    PROVE  NotesInv'
<1>1. Advanced(notes, lastNote, notes', lastNote')
  BY StillAdvanced DEF Find
<1>2. lastNote' \in OldNotes .. MaxNotes /\ DOMAIN notes \subseteq 1 .. lastNote
  BY DEF NotesInv, NotesType, Find
<1>3. call' \in [Callers -> Calls] /\ CallsFit'
  <2>1. ASSUME NEW result \in {"not found", "seen"}, Answer(c, result)
        PROVE  call' \in [Callers -> Calls] /\ CallsFit'
    <3>1. /\ AnswerOrError(c, result) /\ result \in Results
          /\ result \notin {"read", "all read"}
      BY <2>1 DEF AnswerOrError, Results
    <3> QED
      BY <1>1, <1>2, <3>1, AnswerStep
  <2>2. CASE /\ call[c].id \in DOMAIN notes /\ call[c].op # "look"
             /\ call' = [call EXCEPT ![c].at = "write"]
    <3> DEFINE k == [call[c] EXCEPT !.at = "write"]
    <3>1. /\ call[c] \in Calls /\ Fits(call[c], notes, lastNote)
          /\ call[c].at = "find" /\ notes' = notes /\ lastNote' = lastNote
      BY DEF NotesInv, NotesType, CallsFit, Find
    <3>2. k \in Calls
      BY <3>1 DEF Calls
    <3>3. call[c].op # "readAll" /\ call[c].id \in NoteIds
      BY <3>1 DEF Fits
    <3>4. Fits(k, notes', lastNote')
      BY <1>2, <2>2, <3>1, <3>3 DEF Fits, Calls
    <3>5. call' = [call EXCEPT ![c] = k]
      BY <2>2
    <3> HIDE DEF k
    <3> QED
      BY <1>1, <1>2, <3>2, <3>4, <3>5, CallStep
  <2> QED
    BY <2>1, <2>2 DEF Find
<1> QED
  BY <1>3, TableAlone DEF Find
-----------------------------------------------------------------------------
(* A statement with its answer. *)
LEMMA WriteKeeps ==
    ASSUME NotesInv, NEW c \in Callers, NEW result \in Results,
           AnswerOrError(c, result), Watch,
           notes' \in [DOMAIN notes' -> Rows], DOMAIN notes' \subseteq 1 .. lastNote',
           lastNote' \in OldNotes .. MaxNotes,
           Advanced(notes, lastNote, notes', lastNote'),
           result \in {"read", "all read"} =>
              /\ call[c].had \subseteq 1 .. lastNote'
              /\ \A n \in call[c].had \intersect DOMAIN notes' : notes'[n].isRead
    PROVE  NotesInv'
<1>1. call' \in [Callers -> Calls] /\ CallsFit'
  BY AnswerStep
<1>2. lastNote' \in Nat
  BY LastIsNat
<1>3. walk' \in Walks /\ WalkInv'
  BY <1>2, WatchStep
<1> QED
  BY <1>1, <1>3 DEF NotesInv, NotesType

LEMMA CreateKeeps ==
    ASSUME NotesInv, NEW c \in Callers, CreateNote(c)
    PROVE  NotesInv'
<1>1. /\ lastNote \in OldNotes .. MaxNotes /\ lastNote < MaxNotes
      /\ lastNote' = lastNote + 1
      /\ notes \in [DOMAIN notes -> Rows] /\ DOMAIN notes \subseteq 1 .. lastNote
      /\ Fits(call[c], notes, lastNote)
      /\ call[c].op = "create" /\ call[c].at = "write"
  BY DEF NotesInv, NotesType, CallsFit, CreateNote
<1>2. lastNote' \in OldNotes .. MaxNotes /\ lastNote \in Nat
  BY <1>1, NotificationsAssumption
<1>3. PICK to \in People :
          notes' = [n \in DOMAIN notes \union {lastNote + 1} |->
                      IF n = lastNote + 1
                      THEN [to |-> to, from |-> call[c].user, isRead |-> FALSE]
                      ELSE notes[n]]
  BY DEF CreateNote
<1>4. call[c].user \in People
  BY <1>1 DEF Fits
<1>5. /\ notes' \in [DOMAIN notes' -> Rows]
      /\ DOMAIN notes' \subseteq 1 .. lastNote'
  BY <1>1, <1>2, <1>3, <1>4 DEF Rows
<1>6. Advanced(notes, lastNote, notes', lastNote')
  BY <1>1, <1>2, <1>3 DEF Advanced
<1> QED
  BY <1>2, <1>5, <1>6, WriteKeeps DEF CreateNote, Results

LEMMA MarkReadKeeps ==
    ASSUME NotesInv, NEW c \in Callers, MarkRead(c)
    PROVE  NotesInv'
<1> DEFINE id == call[c].id
<1>1. /\ lastNote \in OldNotes .. MaxNotes /\ lastNote' = lastNote
      /\ notes \in [DOMAIN notes -> Rows] /\ DOMAIN notes \subseteq 1 .. lastNote
      /\ Fits(call[c], notes, lastNote)
      /\ call[c].at = "write" /\ call[c].op = "read"
  BY DEF NotesInv, NotesType, CallsFit, MarkRead
<1>2. call[c].had = {id} /\ id \in 1 .. lastNote
  BY <1>1 DEF Fits
<1> DEFINE Marked(n) == [notes[n] EXCEPT !.isRead = TRUE]
<1>3. /\ DOMAIN notes' = DOMAIN notes
      /\ \A n \in DOMAIN notes :
            /\ notes'[n] \in Rows /\ notes'[n].to = notes[n].to
            /\ notes[n].isRead \/ n = id => notes'[n].isRead
      /\ notes' \in [DOMAIN notes' -> Rows]
  <2>1. \A n \in DOMAIN notes : /\ Marked(n) \in Rows /\ Marked(n).isRead
                                /\ Marked(n).to = notes[n].to
    BY <1>1 DEF Rows
  <2>2. CASE id \in DOMAIN notes
    <3>1. notes' = [notes EXCEPT ![id] = Marked(id)]
      BY <2>2 DEF MarkRead
    <3> HIDE DEF Marked, id
    <3> QED
      BY <1>1, <2>1, <2>2, <3>1
  <2>3. CASE id \notin DOMAIN notes
    <3>1. notes' = notes
      BY <2>3 DEF MarkRead
    <3> QED
      BY <1>1, <2>3, <3>1
  <2> QED
    BY <2>2, <2>3
<1>4. Advanced(notes, lastNote, notes', lastNote')
  BY <1>1, <1>3, NotificationsAssumption DEF Advanced, Rows
<1>5. \A n \in call[c].had \intersect DOMAIN notes' : notes'[n].isRead
  BY <1>1, <1>2, <1>3 DEF Rows
<1>6. PICK result \in {"read", "null"} : AnswerOrError(c, result)
  BY DEF MarkRead
<1>7. result \in Results /\ Watch
  BY <1>6 DEF Results, MarkRead
<1> QED
  BY <1>1, <1>2, <1>3, <1>4, <1>5, <1>6, <1>7, WriteKeeps

LEMMA MarkAllReadKeeps ==
    ASSUME NotesInv, NEW c \in Callers, MarkAllRead(c)
    PROVE  NotesInv'
<1>1. /\ lastNote \in OldNotes .. MaxNotes /\ lastNote' = lastNote
      /\ notes \in [DOMAIN notes -> Rows] /\ DOMAIN notes \subseteq 1 .. lastNote
      /\ Fits(call[c], notes, lastNote)
      /\ call[c].at = "write" /\ call[c].op = "readAll"
  BY DEF NotesInv, NotesType, CallsFit, MarkAllRead
<1>2. /\ call[c].had \subseteq 1 .. lastNote
      /\ \A n \in call[c].had \intersect DOMAIN notes : notes[n].to = call[c].user
  BY <1>1 DEF Fits
<1> DEFINE Marked(n) == [notes[n] EXCEPT !.isRead = TRUE]
<1>3. /\ DOMAIN notes' = DOMAIN notes
      /\ \A n \in DOMAIN notes :
            /\ notes'[n] \in Rows /\ notes'[n].to = notes[n].to
            /\ notes[n].isRead \/ notes[n].to = call[c].user => notes'[n].isRead
      /\ notes' \in [DOMAIN notes' -> Rows]
  <2>1. \A n \in DOMAIN notes : /\ Marked(n) \in Rows /\ Marked(n).isRead
                                /\ Marked(n).to = notes[n].to
    BY <1>1 DEF Rows
  <2>2. notes' = [n \in DOMAIN notes |-> IF notes[n].to = call[c].user
                                         THEN Marked(n) ELSE notes[n]]
    BY DEF MarkAllRead, Addressed
  <2> HIDE DEF Marked
  <2> QED
    BY <1>1, <2>1, <2>2
<1>4. Advanced(notes, lastNote, notes', lastNote')
  BY <1>1, <1>3, NotificationsAssumption DEF Advanced, Rows
<1>5. \A n \in call[c].had \intersect DOMAIN notes' : notes'[n].isRead
  BY <1>1, <1>2, <1>3 DEF Rows
<1>6. AnswerOrError(c, "all read") /\ "all read" \in Results /\ Watch
  BY DEF MarkAllRead, Results
<1> QED
  BY <1>1, <1>2, <1>3, <1>4, <1>5, <1>6, WriteKeeps

LEMMA DeleteKeeps ==
    ASSUME NotesInv, NEW c \in Callers, DeleteNote(c)
    PROVE  NotesInv'
<1>1. /\ lastNote \in OldNotes .. MaxNotes /\ lastNote' = lastNote
      /\ notes \in [DOMAIN notes -> Rows] /\ DOMAIN notes \subseteq 1 .. lastNote
  BY DEF NotesInv, NotesType, DeleteNote
<1>2. /\ DOMAIN notes' = DOMAIN notes \ {call[c].id}
      /\ \A n \in DOMAIN notes' : notes'[n] = notes[n]
      /\ notes' \in [DOMAIN notes' -> Rows]
  BY <1>1 DEF DeleteNote
<1>3. Advanced(notes, lastNote, notes', lastNote')
  BY <1>1, <1>2, NotificationsAssumption DEF Advanced
<1>4. AnswerOrError(c, "deleted") /\ "deleted" \in Results /\ Watch
  BY DEF DeleteNote, Results
<1> QED
  BY <1>1, <1>2, <1>3, <1>4, WriteKeeps

LEMMA FailureKeeps ==
    ASSUME NotesInv, NEW c \in Callers, StatementFails(c)
    PROVE  NotesInv'
<1>1. Advanced(notes, lastNote, notes', lastNote')
  BY StillAdvanced DEF StatementFails
<1>2. AnswerOrError(c, "error") /\ "error" \in Results
  BY DEF StatementFails, AnswerOrError, Results
<1>3. lastNote' \in OldNotes .. MaxNotes
  BY DEF NotesInv, NotesType, StatementFails
<1>4. call' \in [Callers -> Calls] /\ CallsFit'
  BY <1>1, <1>2, <1>3, AnswerStep
<1> QED
  BY <1>4, TableAlone DEF StatementFails

LEMMA DieKeeps ==
    ASSUME NotesInv, NotificationsDie
    PROVE  NotesInv'
<1>1. \A c \in Callers : call[c] \in Calls /\ Fits(call[c], notes, lastNote)
  BY DEF NotesInv, NotesType, CallsFit
<1> DEFINE dead == [NoCall EXCEPT !.at = "dead"]
<1>2. dead \in Calls /\ Fits(dead, notes, lastNote)
  BY DEF NoCall, Calls, Fits
<1>3. \A c \in Callers : call'[c] = dead \/ call'[c] = call[c]
  BY DEF NotificationsDie
<1>4. UNCHANGED <<notes, lastNote, walk>> /\ DOMAIN call' = Callers
      /\ call' = [c \in Callers |-> call'[c]]
  BY DEF NotificationsDie
<1> HIDE DEF dead
<1>5. call' \in [Callers -> Calls] /\ CallsFit'
  BY <1>1, <1>2, <1>3, <1>4 DEF CallsFit
<1> QED
  BY <1>4, <1>5, TableAlone
-----------------------------------------------------------------------------
(* The ranks of a list are 0, 1, 2 ...: a row of rank r or more cannot be  *)
(* in the list without one of each rank below.                             *)
LEMMA RanksFillUp ==
    ASSUME NEW last \in Nat, NEW list \in SUBSET (1 .. last),
           NEW m \in list, NEW r \in 0 .. Rank(m, list)
    PROVE  \E n \in list : Rank(n, list) = r
<1> DEFINE card == Cardinality(list)
           range == 0 .. (card - 1)
           rank == [n \in list |-> Rank(n, list)]
           Above(n) == {k \in list : k > n}
<1>1. IsFiniteSet(list) /\ card \in Nat
  <2>1. IsFiniteSet(1 .. last)
    BY FS_Interval
  <2> QED
    BY <2>1, FS_Subset, FS_CardinalityType
<1>2. IsFiniteSet(range) /\ Cardinality(range) = card
  <2>1. card - 1 \in Int /\ 0 \in Int
    BY <1>1
  <2>2. IsFiniteSet(range) /\ Cardinality(range) =
             IF 0 > card - 1 THEN 0 ELSE card - 1 - 0 + 1
    BY <2>1, FS_Interval
  <2> HIDE DEF card, range
  <2> QED
    BY <1>1, <2>2
<1>3. ASSUME NEW n \in list
      PROVE  /\ IsFiniteSet(Above(n)) /\ Rank(n, list) = Cardinality(Above(n))
             /\ Rank(n, list) \in range
  <2>1. Above(n) \subseteq list /\ n \notin Above(n)
    OBVIOUS
  <2>2. IsFiniteSet(Above(n)) /\ Cardinality(Above(n)) <= card
    BY <1>1, <2>1, FS_Subset
  <2>3. Cardinality(Above(n)) # card
    BY <1>1, <2>1, FS_Subset
  <2>4. Cardinality(Above(n)) \in Nat
    BY <2>2, FS_CardinalityType
  <2> QED
    BY <1>1, <2>2, <2>3, <2>4 DEF Rank
<1>4. ASSUME NEW n \in list, NEW k \in list, n < k
      PROVE  Rank(n, list) # Rank(k, list)
  <2>1. Above(k) \subseteq Above(n) /\ k \in Above(n) /\ k \notin Above(k)
    <3>1. \A x \in list : x > k => x > n
      BY <1>4
    <3>2. k > n /\ ~(k > k)
      BY <1>4
    <3> QED
      BY <3>1, <3>2
  <2>2. Cardinality(Above(k)) # Cardinality(Above(n))
    BY <1>3, <2>1, FS_Subset
  <2> QED
    BY <1>3, <2>2
<1>5. rank \in [list -> range] /\ \A n, k \in list : rank[n] = rank[k] => n = k
  <2>1. \A n, k \in list : n < k \/ k < n \/ n = k
    OBVIOUS
  <2> HIDE DEF range, card
  <2> QED
    BY <1>3, <1>4, <2>1
<1>6. rank \in Surjection(list, range)
  <2>1. rank \in Injection(list, range)
    BY <1>5, Fun_IsInj
  <2> HIDE DEF rank, range
  <2> QED
    BY <1>2, <2>1, FS_Injection
<1>7. r \in range
  <2>1. Rank(m, list) \in range
    BY <1>3
  <2> HIDE DEF card
  <2> QED
    BY <1>1, <2>1
<1>8. \E n \in list : rank[n] = r
  BY <1>6, <1>7 DEF Surjection
<1> QED
  BY <1>8

(* Why a client may stop at a page that is not full: no row is behind it.  *)
LEMMA ShortPageIsLast ==
    ASSUME NEW last \in Nat, NEW list \in SUBSET (1 .. last), NEW page \in Nat \ {0},
           Cardinality({n \in list : OnPage(n, list, page)}) < PageLimit,
           NEW m \in list
    PROVE  Rank(m, list) < page * PageLimit
<1> DEFINE low == (page - 1) * PageLimit
           next == page * PageLimit
           onPage == {n \in list : OnPage(n, list, page)}
           window == low .. (next - 1)
           rank == [n \in onPage |-> Rank(n, list)]
<1>1. PageLimit \in Nat \ {0}
  BY NotificationsAssumption
<1>2. low \in Nat /\ next \in Nat /\ next = low + PageLimit
  BY <1>1
<1>3. IsFiniteSet(list)
  <2>1. IsFiniteSet(1 .. last)
    BY FS_Interval
  <2> QED
    BY <2>1, FS_Subset
<1>4. \A n : Rank(n, list) \in Nat
  BY <1>3, RankGrows
<1> SUFFICES ASSUME ~(Rank(m, list) < page * PageLimit) PROVE FALSE
  OBVIOUS
<1>5. next <= Rank(m, list)
  <2>1. ~(Rank(m, list) < next)
    OBVIOUS
  <2>2. next \in Nat /\ Rank(m, list) \in Nat
    BY <1>2, <1>4
  <2> HIDE DEF next
  <2> QED
    BY <2>1, <2>2
<1>6. \A n \in list : OnPage(n, list, page) <=> Rank(n, list) \in window
  BY DEF OnPage
<1>7. ASSUME NEW r \in window PROVE \E n \in onPage : rank[n] = r
  <2>1. r \in 0 .. Rank(m, list)
    <3> HIDE DEF low, next
    <3> QED
      BY <1>2, <1>4, <1>5
  <2>2. PICK n \in list : Rank(n, list) = r
    BY <2>1, RanksFillUp
  <2> QED
    BY <1>6, <2>2
<1>8. rank \in Surjection(onPage, window)
  BY <1>6, <1>7 DEF Surjection
<1>9. IsFiniteSet(onPage)
  BY <1>3, FS_Subset
<1>10. IsFiniteSet(window) /\ Cardinality(window) = PageLimit
  <2> HIDE DEF low, next
  <2>1. low \in Int /\ next - 1 \in Int
    BY <1>2
  <2>2. IsFiniteSet(window) /\ Cardinality(window) =
             IF low > next - 1 THEN 0 ELSE next - 1 - low + 1
    BY <2>1, FS_Interval
  <2> QED
    BY <1>1, <1>2, <2>2
<1>11. Cardinality(window) <= Cardinality(onPage)
  <2> HIDE DEF rank, window, onPage
  <2> QED
    BY <1>8, <1>9, FS_Surjection
<1>12. Cardinality(onPage) \in Nat
  BY <1>9, FS_CardinalityType
<1> HIDE DEF onPage, window
<1> QED
  BY <1>1, <1>10, <1>11, <1>12 DEF onPage

(* The walk begins with the list as it is, before the first page. *)
LEMMA BeginWalkKeeps ==
    ASSUME NotesInv, BeginWalk
    PROVE  NotesInv'
<1>1. UNCHANGED <<notes, lastNote, call>>
  BY DEF BeginWalk
<1>2. PICK user \in People, asked \in Filters, filter \in Filters :
          walk' = [NoWalk EXCEPT !.at = "walking", !.user = user,
                     !.asked = asked, !.filter = filter,
                     !.start = Listed(notes, user, filter)]
  BY DEF BeginWalk, Understood, Filters
<1> DEFINE list == Listed(notes, user, filter)
<1>3. lastNote \in Nat /\ DOMAIN notes \subseteq 1 .. lastNote
  BY LastIsNat DEF NotesInv, NotesType
<1>4. IsFiniteSet(list) /\ list \in SUBSET Nat
  BY <1>3, ListFinite
<1>5. \A n : Rank(n, list) \in Nat
  BY <1>4, RankGrows
<1> HIDE DEF list
<1>6. /\ walk' \in Walks
      /\ walk'.at = "walking" /\ walk'.page = 1 /\ walk'.start = list
      /\ walk'.user = user /\ walk'.filter = filter
  <2>1. walk' = [at |-> "walking", user |-> user, asked |-> asked,
                 filter |-> filter, page |-> 1, seen |-> {}, start |-> list,
                 shrunk |-> FALSE]
    BY <1>2 DEF NoWalk, list
  <2> QED
    BY <1>4, <2>1 DEF Walks
<1>7. Listed(notes', walk'.user, walk'.filter) = list
  BY <1>1, <1>6 DEF list
<1>8. (walk'.page - 1) * PageLimit = 0
  BY <1>6, NotificationsAssumption
<1>9. WalkInv'
  <2>1. \A n : ~(Rank(n, list) < (walk'.page - 1) * PageLimit)
    BY <1>5, <1>8
  <2> QED
    BY <1>6, <1>7, <2>1 DEF WalkInv
<1> QED
  BY <1>1, <1>6, <1>9 DEF NotesInv, NotesType, CallsFit

(* A page adds the rows it shows; after the last one nothing is left.      *)
LEMMA FetchPageKeeps ==
    ASSUME NotesInv, FetchPage
    PROVE  NotesInv'
<1> DEFINE list == Listed(notes, walk.user, walk.filter)
           rows == {n \in list : OnPage(n, list, walk.page)}
           short == Cardinality(rows) < PageLimit
<1>1. /\ UNCHANGED <<notes, lastNote, call>>
      /\ walk.at = "walking" /\ walk \in Walks /\ WalkInv
  BY DEF FetchPage, NotesInv, NotesType
<1>2. lastNote \in Nat /\ DOMAIN notes \subseteq 1 .. lastNote
  BY LastIsNat DEF NotesInv, NotesType
<1>3. IsFiniteSet(list) /\ list \in SUBSET (1 .. lastNote) /\ list \in SUBSET Nat
  BY <1>2, ListFinite
<1>4. \A n : Rank(n, list) \in Nat
  BY <1>3, RankGrows
<1>5. walk' = [walk EXCEPT !.seen = @ \union rows,
                           !.page = IF short THEN @ ELSE @ + 1,
                           !.at = IF short THEN "ended" ELSE @]
  BY DEF FetchPage
<1>6. /\ walk.page \in Nat \ {0} /\ PageLimit \in Nat \ {0}
      /\ (walk.page - 1) * PageLimit \in Nat
      /\ walk.page * PageLimit = (walk.page - 1) * PageLimit + PageLimit
  BY <1>1, NotificationsAssumption DEF Walks
<1>7. ASSUME NEW n \in list, Rank(n, list) < walk.page * PageLimit,
             Rank(n, list) < (walk.page - 1) * PageLimit => n \in walk.seen
      PROVE  n \in walk.seen \union rows
  BY <1>4, <1>6, <1>7 DEF OnPage
<1>8. ~walk.shrunk => /\ walk.start \subseteq list
                      /\ \A n \in walk.start :
                            Rank(n, list) < walk.page * PageLimit =>
                               n \in walk.seen \union rows
  BY <1>1, <1>7 DEF WalkInv
<1>9. rows \subseteq list
  OBVIOUS
<1> HIDE DEF rows, list, short
<1>10. CASE short
  <2>1. walk' = [walk EXCEPT !.seen = @ \union rows, !.at = "ended"]
    BY <1>1, <1>5, <1>10 DEF Walks
  <2>2. \A n \in list : Rank(n, list) < walk.page * PageLimit
    BY <1>2, <1>3, <1>6, <1>10, ShortPageIsLast DEF rows, short
  <2>3. walk' \in Walks /\ walk'.at = "ended" /\ walk'.start = walk.start
        /\ walk'.shrunk = walk.shrunk /\ walk'.seen = walk.seen \union rows
    BY <1>1, <1>3, <1>9, <2>1 DEF Walks
  <2>4. WalkInv'
    BY <1>8, <2>2, <2>3 DEF WalkInv
  <2> QED
    BY <1>1, <2>3, <2>4 DEF NotesInv, NotesType, CallsFit
<1>11. CASE ~short
  <2>1. walk' = [walk EXCEPT !.seen = @ \union rows, !.page = @ + 1]
    BY <1>1, <1>5, <1>11 DEF Walks
  <2>2. /\ walk' \in Walks /\ walk'.at = "walking" /\ walk'.start = walk.start
        /\ walk'.shrunk = walk.shrunk /\ walk'.seen = walk.seen \union rows
        /\ walk'.page = walk.page + 1
        /\ walk'.user = walk.user /\ walk'.filter = walk.filter
    <3>1. walk.seen \union rows \in SUBSET Nat /\ walk.page + 1 \in Nat \ {0}
      <4>1. walk.seen \in SUBSET Nat /\ walk.page \in Nat \ {0}
        BY <1>1 DEF Walks
      <4>2. rows \subseteq Nat
        BY <1>3, <1>9
      <4>3. walk.page + 1 \in Nat \ {0}
        BY <4>1
      <4> QED
        BY <4>1, <4>2, <4>3
    <3>2. walk \in Walks /\ walk.at = "walking"
      BY <1>1
    <3> QED
      BY <2>1, <3>1, <3>2 DEF Walks
  <2>3. Listed(notes', walk'.user, walk'.filter) = list
    <3>1. notes' = notes /\ walk'.user = walk.user /\ walk'.filter = walk.filter
      BY <1>1, <2>2
    <3> QED
      BY <3>1 DEF list
  <2>4. (walk'.page - 1) * PageLimit = walk.page * PageLimit
    <3>1. walk'.page - 1 = walk.page
      BY <1>6, <2>2
    <3> QED
      BY <3>1
  <2>5. WalkInv'
    BY <1>8, <2>2, <2>3, <2>4 DEF WalkInv
  <2> QED
    BY <1>1, <2>2, <2>5 DEF NotesInv, NotesType, CallsFit
<1> QED
  BY <1>10, <1>11
-----------------------------------------------------------------------------
LEMMA NotesBegin == NotificationsInit => NotesInv
<1> SUFFICES ASSUME NotificationsInit PROVE NotesInv
  OBVIOUS
<1>1. PICK to \in [1 .. OldNotes -> People], from \in People :
          notes = [n \in 1 .. OldNotes |->
                     [to |-> to[n], from |-> from, isRead |-> FALSE]]
  BY DEF NotificationsInit
<1>2. notes \in [DOMAIN notes -> Rows] /\ DOMAIN notes = 1 .. lastNote
  BY <1>1 DEF NotificationsInit, Rows
<1>3. lastNote \in OldNotes .. MaxNotes
  BY NotificationsAssumption DEF NotificationsInit
<1>4. /\ call \in [Callers -> Calls] /\ NoCall \in Calls
      /\ Fits(NoCall, notes, lastNote)
  BY DEF NotificationsInit, NoCall, Calls, Fits
<1>5. walk \in Walks /\ walk.at = "idle"
  BY DEF NotificationsInit, NoWalk, Walks, Filters
<1>6. CallsFit /\ WalkInv
  BY <1>4, <1>5 DEF NotificationsInit, CallsFit, WalkInv
<1> QED
  BY <1>2, <1>3, <1>4, <1>5, <1>6 DEF NotesInv, NotesType

LEMMA NotesStep ==
    NotesInv /\ [NotificationsNext \/ NotificationsDie]_notificationVars => NotesInv'
<1> SUFFICES ASSUME NotesInv, [NotificationsNext \/ NotificationsDie]_notificationVars
             PROVE  NotesInv'
  OBVIOUS
<1>1. CASE UNCHANGED notificationVars
  BY <1>1 DEF notificationVars, NotesInv, NotesType, CallsFit, WalkInv
<1>2. ASSUME NEW c \in Callers,
             \/ Ask(c) \/ AskCreate(c) \/ AskReadAll(c) \/ Find(c)
             \/ CreateNote(c) \/ MarkRead(c) \/ MarkAllRead(c) \/ DeleteNote(c)
             \/ StatementFails(c)
      PROVE  NotesInv'
  BY <1>2, AskKeeps, AskCreateKeeps, FindKeeps, CreateKeeps, MarkReadKeeps,
     MarkAllReadKeeps, DeleteKeeps, FailureKeeps
<1>3. CASE BeginWalk \/ FetchPage
  BY <1>3, BeginWalkKeeps, FetchPageKeeps
<1>4. CASE NotificationsDie
  BY <1>4, DieKeeps
<1> QED
  BY <1>1, <1>2, <1>3, <1>4 DEF NotificationsNext

LEMMA NotesInvariant == NotificationsSpec => []NotesInv
  BY NotesBegin, NotesStep, PTL DEF NotificationsSpec

(* The table, the calls and the client are well formed. *)
THEOREM NotificationsTypeCorrect == NotificationsSpec => []NotificationsOK
<1>1. NotesInv => NotificationsOK
  <2> SUFFICES ASSUME NotesInv PROVE NotificationsOK
    OBVIOUS
  <2>1. \A c \in Callers : call[c] \in Calls /\ Fits(call[c], notes, lastNote)
    BY DEF NotesInv, NotesType, CallsFit
  <2>2. \A c \in Callers :
          /\ call[c].at \in {"idle", "find", "write", "done", "dead"}
          /\ (call[c].at = "done") <=> (call[c].result # "open")
    BY <2>1 DEF Fits, Calls
  <2> QED
    BY <2>2 DEF NotesInv, NotesType, NotificationsOK, Walks
<1> QED
  BY <1>1, NotesInvariant, PTL

(* What a caller was told to be read is read or gone, with any number of   *)
(* calls in between and since (notification.service.ts:51-59).             *)
THEOREM ReadAcknowledgedCorrect == NotificationsSpec => []ReadAcknowledged
<1>1. NotesInv => ReadAcknowledged
  BY DEF NotesInv, CallsFit, Fits, ReadAcknowledged
<1> QED
  BY <1>1, NotesInvariant, PTL

(* A client that pages through its list until a page is not full skips     *)
(* nothing, for pages and lists of any size (notification.repository.ts:   *)
(* 39-64).                                                                 *)
THEOREM WalkSkipsNothingCorrect == NotificationsSpec => []WalkSkipsNothing
<1>1. NotesInv => WalkSkipsNothing
  BY DEF NotesInv, WalkInv, WalkSkipsNothing
<1> QED
  BY <1>1, NotesInvariant, PTL
-----------------------------------------------------------------------------
(* The board of NoticeBoard: which rows are there, and which were read.    *)
Outcomes == [c \in Callers |-> call[c].result]

(* What an answer is on the board; any answer may be an error instead.     *)
LEMMA AnswerTells ==
    ASSUME NotesInv, NEW c \in Callers, call[c].at \in {"idle", "find", "write"},
           NEW result \in Results, Answer(c, result)
    PROVE  Board!Told(c, result)
<1>1. call[c].result = "open"
  BY DEF NotesInv, CallsFit, Fits
<1>2. call' = [call EXCEPT ![c] = AnswerTo(call[c], result)]
  BY DEF Answer, AnswerTo
<1>3. call \in [Callers -> Calls] /\ AnswerTo(call[c], result).result = result
  BY DEF NotesInv, NotesType, AnswerTo, NoCall
<1>4. Outcomes' = [Outcomes EXCEPT ![c] = result] /\ Outcomes[c] = "open"
  BY <1>1, <1>2, <1>3 DEF Outcomes
<1> QED
  BY <1>4 DEF Board!Told, Outcomes

LEMMA AnswerOrErrorTells ==
    ASSUME NotesInv, NEW c \in Callers, call[c].at \in {"idle", "find", "write"},
           NEW result \in Results, AnswerOrError(c, result)
    PROVE  Board!Told(c, result) \/ Board!Told(c, "error")
  BY AnswerTells DEF AnswerOrError, Results

(* A call that takes a place in line, or dies, tells nobody anything. *)
LEMMA NothingTold ==
    ASSUME NotesInv, UNCHANGED <<notes, lastNote>>,
           \A c \in Callers : call'[c].result = call[c].result
    PROVE  UNCHANGED Board!boardVars
  BY DEF Board!boardVars

LEMMA CreatePosts ==
    ASSUME NotesInv, NEW c \in Callers, CreateNote(c)
    PROVE  Board!BoardNext
<1> DEFINE n == lastNote + 1
<1>1. /\ lastNote \in Nat /\ lastNote < MaxNotes /\ lastNote' = n
      /\ DOMAIN notes \subseteq 1 .. lastNote /\ MaxNotes \in Nat
  BY LastIsNat, NotificationsAssumption DEF NotesInv, NotesType, CreateNote
<1>2. n \in NoteIds /\ n \notin 1 .. lastNote /\ 1 .. lastNote' = 1 .. lastNote \union {n}
  BY <1>1 DEF NoteIds
<1>3. PICK to \in People :
          notes' = [k \in DOMAIN notes \union {n} |->
                      IF k = n
                      THEN [to |-> to, from |-> call[c].user, isRead |-> FALSE]
                      ELSE notes[k]]
  BY DEF CreateNote
<1>4. [k \in DOMAIN notes' |-> notes'[k].isRead] =
          [k \in DOMAIN notes \union {n} |->
             IF k = n THEN FALSE ELSE [j \in DOMAIN notes |-> notes[j].isRead][k]]
  BY <1>3
<1>5. Board!Told(c, "created") \/ Board!Told(c, "error")
  BY AnswerOrErrorTells DEF CreateNote, Results
<1> HIDE DEF n
<1>6. PICK k \in NoteIds : k = n
  BY <1>2
<1>7. Board!Post(c, k)
  BY <1>2, <1>4, <1>5, <1>6 DEF Board!Post
<1> QED
  BY <1>7 DEF Board!BoardNext

LEMMA MarkReadMarks ==
    ASSUME NotesInv, NEW c \in Callers, MarkRead(c)
    PROVE  Board!BoardNext
<1> DEFINE id == call[c].id
<1>a. notes \in [DOMAIN notes -> Rows] /\ Fits(call[c], notes, lastNote)
  BY DEF NotesInv, NotesType, CallsFit
<1>b. call[c].at = "write" /\ call[c].op = "read" /\ lastNote' = lastNote
  BY DEF MarkRead
<1>1. /\ notes \in [DOMAIN notes -> Rows] /\ lastNote' = lastNote
      /\ id \in NoteIds /\ id \in 1 .. lastNote
  BY <1>a, <1>b DEF Fits
<1>2. CASE id \in DOMAIN notes
  <2>1. notes' = [notes EXCEPT ![id].isRead = TRUE]
    BY <1>2 DEF MarkRead
  <2>2. [n \in DOMAIN notes' |-> notes'[n].isRead] =
           [[n \in DOMAIN notes |-> notes[n].isRead] EXCEPT ![id] = TRUE]
    BY <1>1, <1>2, <2>1 DEF Rows
  <2>3. Board!Told(c, "read") \/ Board!Told(c, "error")
    BY <1>2, AnswerOrErrorTells DEF MarkRead, Results
  <2>4. PICK k \in NoteIds : k = id
    BY <1>1
  <2> HIDE DEF id
  <2>5. Board!Mark(c, k)
    BY <1>1, <1>2, <2>2, <2>3, <2>4 DEF Board!Mark
  <2> QED
    BY <2>5 DEF Board!BoardNext
<1>3. CASE id \notin DOMAIN notes /\ Answer(c, "null")
  <2>1. notes' = notes
    BY <1>3 DEF MarkRead
  <2>2. Board!Told(c, "null")
    BY <1>3, AnswerTells DEF MarkRead, Results
  <2>3. PICK k \in NoteIds : k = id
    BY <1>1
  <2> HIDE DEF id
  <2>4. Board!Mark(c, k)
    BY <1>1, <1>3, <2>1, <2>2, <2>3 DEF Board!Mark
  <2> QED
    BY <2>4 DEF Board!BoardNext
<1>4. CASE id \notin DOMAIN notes /\ Answer(c, "error")
  <2>1. notes' = notes
    BY <1>4 DEF MarkRead
  <2>2. Board!Told(c, "error")
    BY <1>4, AnswerTells DEF MarkRead, Results
  <2>3. Board!Refuse(c)
    BY <1>1, <2>1, <2>2 DEF Board!Refuse
  <2> QED
    BY <2>3 DEF Board!BoardNext
<1> QED
  BY <1>2, <1>3, <1>4 DEF MarkRead, AnswerOrError

LEMMA MarkAllReadMarks ==
    ASSUME NotesInv, NEW c \in Callers, MarkAllRead(c)
    PROVE  Board!BoardNext
<1> DEFINE S == {n \in DOMAIN notes : notes[n].to = call[c].user}
<1>1. notes \in [DOMAIN notes -> Rows] /\ lastNote' = lastNote
  BY DEF NotesInv, NotesType, MarkAllRead
<1>2. notes' = [n \in DOMAIN notes |-> IF n \in S
                   THEN [notes[n] EXCEPT !.isRead = TRUE] ELSE notes[n]]
  BY DEF MarkAllRead, Addressed
<1>3. S \in SUBSET DOMAIN [n \in DOMAIN notes |-> notes[n].isRead]
  OBVIOUS
<1> HIDE DEF S
<1>4. DOMAIN notes' = DOMAIN notes /\ \A n \in DOMAIN notes :
          notes'[n].isRead = (notes[n].isRead \/ n \in S)
  <2>1. DOMAIN notes' = DOMAIN notes
    BY <1>2
  <2>2. ASSUME NEW n \in DOMAIN notes
        PROVE  notes'[n].isRead = (notes[n].isRead \/ n \in S)
    <3>1. notes[n] \in Rows
      BY <1>1
    <3>2. notes'[n] = IF n \in S THEN [notes[n] EXCEPT !.isRead = TRUE] ELSE notes[n]
      BY <1>2
    <3> QED
      BY <3>1, <3>2 DEF Rows
  <2> QED
    BY <2>1, <2>2
<1>5. Board!Told(c, "all read") \/ Board!Told(c, "error")
  BY AnswerOrErrorTells DEF MarkAllRead, Results
<1>6. Board!MarkAll(c)
  BY <1>1, <1>3, <1>4, <1>5 DEF Board!MarkAll
<1> QED
  BY <1>6 DEF Board!BoardNext

LEMMA DeleteTakesDown ==
    ASSUME NotesInv, NEW c \in Callers, DeleteNote(c)
    PROVE  Board!BoardNext
<1> DEFINE id == call[c].id
<1>a. Fits(call[c], notes, lastNote)
  BY DEF NotesInv, CallsFit
<1>b. call[c].at = "write" /\ call[c].op = "delete" /\ lastNote' = lastNote
  BY DEF DeleteNote
<1>1. lastNote' = lastNote /\ id \in NoteIds /\ id \in 1 .. lastNote
  BY <1>a, <1>b DEF Fits
<1>2. notes' = [n \in DOMAIN notes \ {id} |-> notes[n]]
  BY DEF DeleteNote
<1>3. Board!Told(c, "deleted") \/ Board!Told(c, "error")
  BY AnswerOrErrorTells DEF DeleteNote, Results
<1>4. PICK k \in NoteIds : k = id
  BY <1>1
<1> HIDE DEF id
<1>5. Board!TakeDown(c, k)
  BY <1>1, <1>2, <1>3, <1>4 DEF Board!TakeDown
<1> QED
  BY <1>5 DEF Board!BoardNext

LEMMA FindLooks ==
    ASSUME NotesInv, NEW c \in Callers, Find(c)
    PROVE  Board!BoardNext \/ UNCHANGED Board!boardVars
<1> DEFINE id == call[c].id
<1>1. UNCHANGED <<notes, lastNote>> /\ id \in NoteIds /\ call \in [Callers -> Calls]
  BY DEF NotesInv, NotesType, CallsFit, Fits, Find
<1>2. CASE id \notin DOMAIN notes
  <2>1. Board!Told(c, "not found")
    BY <1>2, AnswerTells DEF Find, Results
  <2>2. PICK k \in NoteIds : k = id
    BY <1>1
  <2> HIDE DEF id
  <2>3. Board!Look(c, k)
    BY <1>1, <1>2, <2>1, <2>2 DEF Board!Look
  <2> QED
    BY <2>3 DEF Board!BoardNext
<1>3. CASE id \in DOMAIN notes /\ call[c].op = "look"
  <2>1. Board!Told(c, "seen")
    BY <1>3, AnswerTells DEF Find, Results
  <2>2. PICK k \in NoteIds : k = id
    BY <1>1
  <2> HIDE DEF id
  <2>3. Board!Look(c, k)
    BY <1>1, <1>3, <2>1, <2>2 DEF Board!Look
  <2> QED
    BY <2>3 DEF Board!BoardNext
<1>4. CASE id \in DOMAIN notes /\ call[c].op # "look"
  <2>1. call' = [call EXCEPT ![c].at = "write"]
    BY <1>4 DEF Find
  <2>2. \A d \in Callers : call'[d].result = call[d].result
    BY <1>1, <2>1 DEF Calls
  <2> QED
    BY <1>1, <2>2, NothingTold
<1> QED
  BY <1>2, <1>3, <1>4

(* A call that is refused, or fails. *)
LEMMA RefusalRefuses ==
    ASSUME NotesInv, NEW c \in Callers, UNCHANGED <<notes, lastNote>>,
           call[c].at \in {"idle", "find", "write"},
           Answer(c, "bad request") \/ Answer(c, "error")
    PROVE  Board!BoardNext
<1>1. Board!Told(c, "bad request") \/ Board!Told(c, "error")
  BY AnswerTells DEF Results
<1>2. Board!Refuse(c)
  BY <1>1 DEF Board!Refuse
<1> QED
  BY <1>2 DEF Board!BoardNext

(* A call that arrives has no answer yet. *)
LEMMA AskStutters ==
    ASSUME NotesInv, NEW c \in Callers,
           Ask(c) \/ AskReadAll(c) \/ (AskCreate(c) /\ ~Answer(c, "bad request"))
    PROVE  UNCHANGED Board!boardVars
<1>1. \E k : call' = [call EXCEPT ![c] = k] /\ k.result = "open"
  <2>1. CASE Ask(c)
    <3>1. PICK id \in NoteIds, op \in {"look", "read", "delete"} :
             call' = [call EXCEPT ![c] =
               [NoCall EXCEPT !.op = op, !.id = id, !.at = "find",
                              !.had = IF op = "read" THEN {id} ELSE {}]]
      BY <2>1 DEF Ask
    <3>2. [NoCall EXCEPT !.op = op, !.id = id, !.at = "find",
                         !.had = IF op = "read" THEN {id} ELSE {}].result = "open"
      BY DEF NoCall
    <3> QED
      BY <3>1, <3>2
  <2>2. CASE AskReadAll(c)
    <3>1. PICK user \in People :
             call' = [call EXCEPT ![c] =
               [NoCall EXCEPT !.op = "readAll", !.user = user, !.at = "write",
                              !.had = {n \in DOMAIN notes : notes[n].to = user}]]
      BY <2>2 DEF AskReadAll
    <3>2. [NoCall EXCEPT !.op = "readAll", !.user = user, !.at = "write",
              !.had = {n \in DOMAIN notes : notes[n].to = user}].result = "open"
      BY DEF NoCall
    <3> QED
      BY <3>1, <3>2
  <2>3. CASE AskCreate(c) /\ ~Answer(c, "bad request")
    <3>1. PICK user \in People :
             call' = [call EXCEPT ![c] =
               [NoCall EXCEPT !.op = "create", !.user = user, !.at = "write"]]
      BY <2>3 DEF AskCreate
    <3>2. [NoCall EXCEPT !.op = "create", !.user = user, !.at = "write"].result = "open"
      BY DEF NoCall
    <3> QED
      BY <3>1, <3>2
  <2> QED
    BY <2>1, <2>2, <2>3
<1>2. PICK k : call' = [call EXCEPT ![c] = k] /\ k.result = "open"
  BY <1>1
<1>3. call[c].at = "idle"
  BY DEF Ask, AskReadAll, AskCreate
<1>4. call[c].result = "open" /\ call \in [Callers -> Calls]
  BY <1>3 DEF NotesInv, NotesType, CallsFit, Fits
<1>5. \A d \in Callers : call'[d].result = call[d].result
  BY <1>2, <1>4
<1> QED
  BY <1>5, NothingTold DEF Ask, AskReadAll, AskCreate

LEMMA DieStutters ==
    ASSUME NotesInv, NotificationsDie
    PROVE  UNCHANGED Board!boardVars
<1>1. \A c \in Callers : call[c].at \in {"find", "write"} => call[c].result = "open"
  BY DEF NotesInv, CallsFit, Fits
<1>2. \A c \in Callers : call'[c].result = call[c].result
  BY <1>1 DEF NotificationsDie, NoCall
<1> QED
  BY <1>2, NothingTold DEF NotificationsDie

LEMMA BoardStep ==
    NotesInv /\ [NotificationsNext \/ NotificationsDie]_notificationVars
       => [Board!BoardNext]_(Board!boardVars)
<1> SUFFICES ASSUME NotesInv, [NotificationsNext \/ NotificationsDie]_notificationVars
             PROVE  Board!BoardNext \/ UNCHANGED Board!boardVars
  OBVIOUS
<1>1. CASE UNCHANGED <<notes, lastNote, call>>
  BY <1>1, NothingTold
<1>2. ASSUME NEW c \in Callers, Ask(c) \/ AskReadAll(c)
      PROVE  UNCHANGED Board!boardVars
  BY <1>2, AskStutters
<1>3. ASSUME NEW c \in Callers, AskCreate(c)
      PROVE  Board!BoardNext \/ UNCHANGED Board!boardVars
  <2>1. CASE Answer(c, "bad request")
    BY <1>3, <2>1, RefusalRefuses DEF AskCreate
  <2>2. CASE ~Answer(c, "bad request")
    BY <1>3, <2>2, AskStutters
  <2> QED
    BY <2>1, <2>2
<1>4. ASSUME NEW c \in Callers, Find(c)
      PROVE  Board!BoardNext \/ UNCHANGED Board!boardVars
  BY <1>4, FindLooks
<1>5. ASSUME NEW c \in Callers,
             CreateNote(c) \/ MarkRead(c) \/ MarkAllRead(c) \/ DeleteNote(c)
      PROVE  Board!BoardNext
  BY <1>5, CreatePosts, MarkReadMarks, MarkAllReadMarks, DeleteTakesDown
<1>6. ASSUME NEW c \in Callers, StatementFails(c)
      PROVE  Board!BoardNext
  BY <1>6, RefusalRefuses DEF StatementFails
<1>7. CASE NotificationsDie
  BY <1>7, DieStutters
<1>8. CASE BeginWalk \/ FetchPage \/ UNCHANGED notificationVars
  BY <1>1, <1>8 DEF BeginWalk, FetchPage, notificationVars
<1> QED
  BY <1>2, <1>3, <1>4, <1>5, <1>6, <1>7, <1>8 DEF NotificationsNext

LEMMA BoardBegins == NotificationsInit => Board!BoardInit
<1> SUFFICES ASSUME NotificationsInit PROVE Board!BoardInit
  OBVIOUS
<1>1. lastNote = OldNotes /\ DOMAIN notes = 1 .. OldNotes
      /\ \A n \in DOMAIN notes : notes[n].isRead = FALSE
  BY DEF NotificationsInit
<1>2. 1 .. OldNotes \in SUBSET NoteIds
  BY NotificationsAssumption DEF NoteIds
<1>3. [n \in DOMAIN notes |-> notes[n].isRead] \in [1 .. OldNotes -> BOOLEAN]
  BY <1>1
<1>4. [c \in Callers |-> call[c].result] = [c \in Callers |-> "open"]
  BY DEF NotificationsInit, NoCall
<1> QED
  BY <1>1, <1>2, <1>3, <1>4 DEF Board!BoardInit

(* Although it finds first and writes then, without a transaction, the     *)
(* service implements NoticeBoard: every call has the effect and the       *)
(* answer of one moment (notification.service.ts:31-64).                   *)
THEOREM BoardRefinedCorrect == NotificationsSpec => BoardRefined
  BY BoardBegins, BoardStep, NotesInvariant, PTL
     DEF NotificationsSpec, BoardRefined, Board!BoardSpec
=============================================================================
