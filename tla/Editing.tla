------------------------------ MODULE Editing ------------------------------
(***************************************************************************)
(* Creating a row and updating it.  The schemas of packages/entities say   *)
(* what a body may hold and what becomes of fields it leaves out; the      *)
(* repositories, which are external, write every field the parsed body     *)
(* has.  A schema is the names of its fields; their types are left out.    *)
(***************************************************************************)
EXTENDS Naturals

CONSTANT
    MaxEdits    \* bound: updates of a row

ASSUME EditingAssumption == MaxEdits \in Nat

VARIABLES
    kind,       \* what the row is
    row,        \* row[f]: where the value of field f comes from
    wanted,     \* observer: wanted[f], what row[f] is from what was sent
    edits       \* updates so far

editVars == <<kind, row, wanted, edits>>
-----------------------------------------------------------------------------
(* z.object: fields a body must have, may leave out, or gets by default.   *)
Object(must, may, default) ==
    [must |-> must, may |-> may, default |-> default, strict |-> FALSE]

Strict(s) == [s EXCEPT !.strict = TRUE]
Omit(s, fs) == [s EXCEPT !.must = @ \ fs, !.may = @ \ fs, !.default = @ \ fs]
Extend(s, fs) == [s EXCEPT !.may = @ \union fs]

(* .partial(): everything may be left out, but Zod still fills in defaults *)
(* (session.schema.ts:62-67).                                              *)
Partial(s) == [s EXCEPT !.must = {}, !.may = @ \union s.must]

Fields(s) == s.must \union s.may \union s.default

(* safeParse: unknown keys are dropped, or refused by a strict schema.     *)
Accepts(s, body) == s.must \subseteq body /\ (s.strict => body \subseteq Fields(s))
Parsed(s, body) == (body \intersect Fields(s)) \union s.default
-----------------------------------------------------------------------------
Session == Object(
    {"classId", "sessionNumber", "startAt", "endAt"},
    {"lessonId", "tutorId", "title", "description", "location", "note",
     "actualStartAt", "actualEndAt", "exerciseDueAt"},
    {"theoryUrls", "exerciseUrls", "status", "objectives", "agenda"})

(* Faulty variant: .partial() here as everywhere else. *)
SessionUpdatePartially == Omit(Partial(Session), {"classId"})

SessionUpdate == Object({}, Fields(Session) \ {"classId"}, {})

Class == Object(
    {"name", "code", "subject", "startTime", "endTime", "tutorId"},
    {"description", "location", "curriculumId"},
    {"tuition", "status", "format", "schedulesId"})
ClassUpdate == Extend(Omit(Partial(Class), {"tutorId"}), {"studentIds"})

Curriculum == Object({"subject", "code", "grade", "courseTime", "gradesId"},
                     {"description"}, {})
CurriculumUpdate == Partial(Curriculum)

Chapter == Object({"title"}, {"description"}, {"order"})
ChapterUpdate == Partial(Chapter)

Lesson == Object({"title", "curriculumId"},
                 {"description", "chapterId", "theoryUrls", "exerciseUrls"},
                 {"order"})
LessonUpdate == Partial(Lesson)

Assignment == Object(
    {"classId", "lesson", "name"},
    {"curriculumId", "description", "requirement", "score", "comment"},
    {"status", "isHidden"})
AssignmentUpdate == Omit(Partial(Assignment), {"classId", "lesson"})

Schedule == Object({"classId", "dayOfWeek", "startTime", "endTime"},
                   {"location"}, {"format"})
ScheduleUpdate == Omit(Partial(Schedule), {"classId"})

Tuition == Object({"classId", "studentId", "amount"},
                  {"dueDate", "paidDate", "note"}, {"status"})
TuitionUpdate == Omit(Partial(Tuition), {"classId", "studentId"})

Transaction == Object({"name", "walletId", "categoryId", "amount", "type"},
                      {"userId", "note"}, {"status"})
TransactionUpdate == Omit(Partial(Transaction), {"userId"})

Category == Object({"userId", "name", "type"}, {"parent_id", "icon"}, {"color"})
CategoryUpdate == Partial(Category)

Wallet == Object({"name"}, {},
    {"type", "currency", "categoriesId", "balance", "note", "isDefault",
     "isActive"})
WalletUpdate == Partial(Wallet)

Student == Object({"studentName"},
    {"email", "userCode", "gender", "studentPhone", "school", "parentName",
     "parentRelationship", "parentPhone", "parentEmail"}, {})
StudentUpdate == Object({},
    {"studentName", "studentPhone", "gender", "birthday", "school", "address",
     "district", "province", "classId", "parentName", "parentPhone",
     "parentEmail", "parentRelationship", "parentAddress", "parentDistrict",
     "parentProvince", "avatar"}, {})

User == Object({"email", "firstName", "lastName", "password"},
    {"username", "avatar", "dateOfBirth", "parentId", "tutorId"},
    {"isActive", "description", "userCode", "gender", "address", "district",
     "province", "subjects", "facebookId", "googleId", "school",
     "relationship", "classId", "gradesId", "role"})
UserUpdate == Strict(Object({},
    (Fields(User) \ {"password"}) \union {"phone"}, {}))

Managed == Strict(Object({"email", "firstName", "lastName", "password"},
    {"username", "phone", "gender", "dateOfBirth", "school", "subjects",
     "description"}, {"isActive"}))
ManagedUpdate == Strict(Object({},
    (Fields(Managed) \ {"password"}) \union {"avatar"}, {}))
ManagedStudentUpdate == Extend(ManagedUpdate,
    {"userCode", "address", "district", "province", "parentId", "tutorId"})

Created == [session |-> Session, class |-> Class, curriculum |-> Curriculum,
    chapter |-> Chapter, lesson |-> Lesson, assignment |-> Assignment,
    schedule |-> Schedule, tuition |-> Tuition, transaction |-> Transaction,
    category |-> Category, wallet |-> Wallet, student |-> Student,
    user |-> User, tutor |-> Managed, managedStudent |-> Managed]

Updated == [session |-> SessionUpdate, class |-> ClassUpdate,
    curriculum |-> CurriculumUpdate, chapter |-> ChapterUpdate,
    lesson |-> LessonUpdate, assignment |-> AssignmentUpdate,
    schedule |-> ScheduleUpdate, tuition |-> TuitionUpdate,
    transaction |-> TransactionUpdate, category |-> CategoryUpdate,
    wallet |-> WalletUpdate, student |-> StudentUpdate,
    user |-> UserUpdate, tutor |-> ManagedUpdate,
    managedStudent |-> ManagedStudentUpdate]

Kinds == DOMAIN Created
Columns(k) == Fields(Created[k]) \union Fields(Updated[k])
-----------------------------------------------------------------------------
(* Where a value comes from: nowhere, a default, the create call, or the   *)
(* update with number n as Edit(n).                                        *)
Nothing == 0
Default == 1
Creation == 2
Edit(n) == 2 + n

(* The row after a create call with some of the fields it may have. *)
EditingInit ==
    /\ kind \in Kinds
    /\ LET s == Created[kind]
       IN  \E more \in {{}, s.may \union s.default} :
             row = [f \in Columns(kind) |->
                      IF f \in s.must \union more THEN Creation
                      ELSE IF f \in s.default THEN Default ELSE Nothing]
    /\ wanted = row
    /\ edits = 0

(* An update with one field or none, perhaps one the schema does not know. *)
Update ==
    /\ edits < MaxEdits
    /\ \E body \in {{f} : f \in Columns(kind) \union {"unknown"}} \union {{}} :
          /\ Accepts(Updated[kind], body)
          /\ LET s == Updated[kind]
                 sent == body \intersect Fields(s)
             IN  /\ row' = [f \in Columns(kind) |->
                              IF f \in sent THEN Edit(edits + 1)
                              ELSE IF f \in Parsed(s, body) THEN Default
                              ELSE row[f]]
                 /\ wanted' = [f \in Columns(kind) |->
                                 IF f \in sent THEN Edit(edits + 1) ELSE wanted[f]]
    /\ edits' = edits + 1
    /\ UNCHANGED kind

EditingSpec == EditingInit /\ [][Update]_editVars
-----------------------------------------------------------------------------
(* Types. *)
EditingOK ==
    /\ kind \in Kinds /\ edits \in 0 .. MaxEdits
    /\ row \in [Columns(kind) -> Nothing .. Edit(edits)]
    /\ wanted \in [Columns(kind) -> Nothing .. Edit(edits)]

(* Kinds whose update schema is the create schema's .partial(). *)
UpdatedPartially ==
    {"class", "curriculum", "chapter", "lesson", "assignment", "schedule",
     "tuition", "transaction", "category", "wallet"}

(* A field holds what was sent for it last: what updates leave out, they   *)
(* leave alone.  The one exception are fields with a default in a schema   *)
(* that is reused by .partial(): every update that does not name them      *)
(* takes them back to it, as session.schema.ts:62-67 warns.                *)
OmittedKept ==
    \A f \in Columns(kind) :
        row[f] # wanted[f] =>
            /\ row[f] = Default
            /\ kind \in UpdatedPartially /\ f \in Created[kind].default
=============================================================================
