------------------------------ MODULE Seeding ------------------------------
(***************************************************************************)
(* The scripts under scripts/, which an operator runs one at a time, may   *)
(* interrupt anywhere, and runs again.  None of them uses a transaction.   *)
(* A row carries the number `by` of the run that inserted it, which stands *)
(* for its random id; 0 marks what was there before or came from users.    *)
(* The uniqueness of emails and usernames is Postgres's.                   *)
(***************************************************************************)
EXTENDS Integers, FiniteSets, FiniteSetsExt, Functions

CONSTANTS
    NumLevels,    \* school grades of seed-grades
    DemoLevel,    \* the grade seed-curriculum-demo asks for
    NumAccounts,  \* SEED_ACCOUNTS of seed-user
    NumSlots,     \* SEED_COUNT of seed-users-bulk
    NumCases,     \* cases of seed-test-scenarios
    NumSamples,   \* (method, path, status) groups the gateway can log
    Limits,       \* values of --limit, among them the default
    NumStudents,  \* NUM_STUDENTS of seed-dashboard
    NumClasses,   \* CLASS_DEFS of seed-dashboard
    Tutors,       \* values of TUTOR_EMAIL; 1 is the default
    Suffixes,     \* values of SEED_SUFFIX
    MaxStarts,    \* bound: scripts started
    MaxKills,     \* bound: scripts interrupted
    MaxYear       \* bound: years

ASSUME SeedingAssumption ==
    /\ {NumLevels, NumAccounts, NumSlots, NumCases, NumSamples, NumStudents,
        NumClasses, MaxStarts, MaxYear} \subseteq Nat \ {0}
    /\ DemoLevel \in 1 .. NumLevels
    /\ 1 \in Tutors /\ Tutors \subseteq Nat \ {0}
    /\ Suffixes \subseteq Nat
    /\ Limits \subseteq Nat \ {0}
    /\ MaxKills \in Nat

VARIABLES
    running,    \* the script under way: what it does next, and to what
    finished,   \* the script that last ended well, if nothing happened since
    started,    \* scripts started so far
    kills,      \* scripts interrupted so far
    year,       \* the calendar year
    tables,     \* the tables that exist
    users, grades, scenarios, classes, notes,
    courses,    \* what seed-curriculum-demo and seed-edu-flow left, by part
    logs        \* logs[k]: the latest sample request_logs holds of group k

rows == <<users, grades, scenarios, classes, notes, courses>>
vars == <<running, finished, started, kills, year, tables, rows, logs>>
-----------------------------------------------------------------------------
Scripts == {"grades", "user", "users-bulk", "test-scenarios", "from-logs",
            "dashboard", "curriculum-demo", "edu-flow", "recreate-db"}

(* recreate-db lists the tables by name.  "classes" also stands for the    *)
(* tables of enrolments, schedules, sessions, tuitions and exercises,      *)
(* "curriculums" for those of chapters and lessons.                        *)
Tables == <<"classes", "curriculums", "grades", "notifications",
            "request_logs", "test_scenarios", "users">>

Nothing == [script |-> "none", by |-> 0, phase |-> "none", todo |-> {},
            arg |-> 0]

Idle == running = Nothing

(* build(): the cases, each with a method, path and name of its own. *)
Cases == 1 .. NumCases

(* The first phase of a script and, if it works off a list, the list. *)
FirstPhase(script) ==
    CASE script = "grades"          -> "level"
      [] script = "user"            -> "account"
      [] script = "users-bulk"      -> "lookup"
      [] script = "test-scenarios"  -> "case"
      [] script = "from-logs"       -> "sample"
      [] script = "dashboard"       -> "tutor"
      [] script = "curriculum-demo" -> "demo grade"
      [] script = "edu-flow"        -> "flow grade"
      [] script = "recreate-db"     -> "list"

(* Faulty variant: seed-grades counts from zero. *)
FirstListFromZero(script) ==
    CASE script = "grades"         -> 0 .. NumLevels - 1
      [] script = "user"           -> 1 .. NumAccounts
      [] script = "test-scenarios" -> Cases
      [] OTHER                     -> {}

FirstList(script) ==
    CASE script = "grades"         -> 1 .. NumLevels
      [] script = "user"           -> 1 .. NumAccounts
      [] script = "test-scenarios" -> Cases
      [] OTHER                     -> {}

(* The parts the two course scripts insert, in their order. *)
DemoParts == <<"parents", "students", "curriculum", "chapters", "class",
               "enrolments", "schedules", "sessions">>
FlowParts == <<"curriculum", "class", "chapters", "lesson", "session",
               "exercise">>

TableOf(part) ==
    CASE part \in {"tutor", "parents", "students"} -> "users"
      [] part \in {"curriculum", "chapters", "lesson"} -> "curriculums"
      [] OTHER -> "classes"

PhaseTable(phase) ==
    CASE phase \in {"level", "demo grade", "flow grade"} -> "grades"
      [] phase \in {"account", "lookup", "slot", "tutor", "student",
                    "demo tutor", "login"} -> "users"
      [] phase \in {"case", "log case"} -> "test_scenarios"
      [] phase = "sample" -> "request_logs"
      [] phase \in {"wipe", "class", "enrolments", "sessions", "tuitions"}
            -> "classes"
      [] phase \in {"wipe notes", "notes"} -> "notifications"

(* Emails and usernames. *)
Account(n) == <<"account", n>>
TutorEmail(n) == IF n = 1 THEN Account(1) ELSE <<"tutor", n>>

User(email, username, secret, by) ==
    [email |-> email, username |-> username, secret |-> secret, by |-> by]

HasEmail(email) == \E u \in users : u.email = email
HasUsername(name) == \E u \in users : u.username = name

Seeded(class) == class.prefix = "DSH"
-----------------------------------------------------------------------------
(* Types, the levels of the grades, and no row without its table. *)
TypeOK ==
    /\ running.script \in Scripts \union {"none"} /\ running.todo \subseteq Nat
    /\ finished.script \in Scripts \union {"none"}
    /\ started \in 0 .. MaxStarts /\ kills \in 0 .. MaxKills
    /\ year \in 1 .. MaxYear
    /\ tables \subseteq Range(Tables)
    /\ \A row \in users \union grades \union scenarios \union classes
                  \union notes \union courses : row.by \in 0 .. started
    /\ logs \in [1 .. NumSamples -> {"none", "whole", "unusable"}]
    /\ \A g \in grades : g.level \in 1 .. NumLevels
    /\ "users" \in tables \/ users = {}
    /\ "grades" \in tables \/ grades = {}
    /\ "test_scenarios" \in tables \/ scenarios = {}
    /\ "classes" \in tables \/ classes = {}
    /\ "notifications" \in tables \/ notes = {}

(* A new database, one in which the username of the first seed account is  *)
(* taken, or one the default tutor has worked with.                        *)
TheirClass == [prefix |-> "theirs", year |-> 1, tutor |-> 1, by |-> 0,
               num |-> 1, has |-> {"enrolments"}]
TheirNote == [title |-> "theirs", tutor |-> 1, by |-> 0]

Init ==
    /\ running = Nothing /\ finished = Nothing
    /\ started = 0 /\ kills = 0 /\ year = 1
    /\ tables = Range(Tables)
    /\ \/ users = {} /\ classes = {} /\ notes = {}
       \/ /\ users = {User(<<"theirs", 1>>, Account(1), "theirs", 0)}
          /\ classes = {} /\ notes = {}
       \/ /\ users = {User(Account(1), <<"theirs", 1>>, "theirs", 0)}
          /\ classes = {TheirClass} /\ notes = {TheirNote}
    /\ grades = {} /\ scenarios = {} /\ courses = {}
    /\ logs = [k \in 1 .. NumSamples |-> "none"]

(* The operator starts a script, with a tutor, a suffix or a limit if it   *)
(* takes one.                                                              *)
Start(script) ==
    /\ Idle /\ started < MaxStarts
    /\ \E arg \in CASE script = "dashboard" -> Tutors
                    [] script = "curriculum-demo" -> Suffixes
                    [] script = "from-logs" -> Limits
                    [] OTHER -> {0} :
          running' = [script |-> script, by |-> started + 1,
                      phase |-> FirstPhase(script), todo |-> FirstList(script),
                      arg |-> arg]
    /\ started' = started + 1
    /\ finished' = Nothing
    /\ UNCHANGED <<kills, year, tables, rows, logs>>

Kill ==
    /\ ~Idle /\ kills < MaxKills
    /\ running' = Nothing
    /\ kills' = kills + 1
    /\ UNCHANGED <<finished, started, year, tables, rows, logs>>

Aside == UNCHANGED <<started, kills, year, logs>>

Proceed(phase, todo) ==
    /\ running' = [running EXCEPT !.phase = phase, !.todo = todo]
    /\ UNCHANGED finished

Succeed == running' = Nothing /\ finished' = running
Throw == running' = Nothing /\ UNCHANGED finished

Item == Min(running.todo)
NextItem ==
    IF running.todo = {Item} THEN Succeed
                             ELSE Proceed(running.phase, running.todo \ {Item})

At(phase) == running.phase = phase /\ PhaseTable(phase) \in tables

(* The part of the course that the two course scripts insert next. *)
Part == IF running.script = "edu-flow" THEN FlowParts[Item] ELSE DemoParts[Item]

(* A statement on a table that recreate-db has dropped. *)
MissingTable ==
    /\ ~Idle
    /\ CASE running.phase \in {"list", "drop", "push"} -> FALSE
         [] running.phase \in {"demo part", "flow part"} ->
               TableOf(Part) \notin tables
         [] OTHER -> PhaseTable(running.phase) \notin tables
    /\ Throw
    /\ UNCHANGED <<tables, rows>> /\ Aside
-----------------------------------------------------------------------------
(* seed-grades *)
SeedLevel ==
    /\ At("level")
    /\ grades' = IF \E g \in grades : g.level = Item THEN grades
                 ELSE grades \union {[level |-> Item, by |-> running.by]}
    /\ NextItem
    /\ UNCHANGED <<tables, users, scenarios, classes, notes, courses>> /\ Aside

(* seed-user, also the last step of recreate-db *)
SeedAccount ==
    /\ At("account")
    /\ users' = IF HasEmail(Account(Item)) \/ HasUsername(Account(Item))
                THEN users
                ELSE users \union {User(Account(Item), Account(Item), "seed",
                                        running.by)}
    /\ NextItem
    /\ UNCHANGED <<tables, grades, scenarios, classes, notes, courses>> /\ Aside

(* seed-users-bulk looks every slot up before it inserts any. *)
FreeSlots == {n \in 1 .. NumSlots : /\ ~HasEmail(<<"slot", n>>)
                                    /\ ~HasUsername(<<"slot", n>>)}

LookUpSlots ==
    /\ At("lookup")
    /\ IF FreeSlots = {} THEN Succeed ELSE Proceed("slot", FreeSlots)
    /\ UNCHANGED <<tables, rows>> /\ Aside

SeedSlot ==
    /\ At("slot")
    /\ users' = users \union {User(<<"slot", Item>>, <<"slot", Item>>, "bulk",
                                   running.by)}
    /\ NextItem
    /\ UNCHANGED <<tables, grades, scenarios, classes, notes, courses>> /\ Aside

(* Faulty variant: the scenario is not looked up first. *)
AddScenarioUnseen(key) ==
    scenarios' = scenarios \union {[key |-> key, by |-> running.by]}

(* seed-test-scenarios: method, path and name identify a scenario. *)
AddScenario(key) ==
    scenarios' = IF \E s \in scenarios : s.key = key THEN scenarios
                 ELSE scenarios \union {[key |-> key, by |-> running.by]}

SeedCase ==
    /\ At("case")
    /\ AddScenario(<<"case", Item>>)
    /\ NextItem
    /\ UNCHANGED <<tables, users, grades, classes, notes, courses>> /\ Aside

(* seed-test-scenarios-from-logs: the latest sample of each group, in the  *)
(* order of the query.  The list is cut to the limit first; then samples   *)
(* with a redacted or shortened body, and of paths that are not replayed,  *)
(* are passed over.                                                        *)
Logged == {k \in 1 .. NumSamples : logs[k] # "none"}

Usable(limit) ==
    {k \in Logged : /\ Cardinality({j \in Logged : j <= k}) <= limit
                    /\ logs[k] = "whole"}

SampleLogs ==
    /\ At("sample")
    /\ LET usable == Usable(running.arg)
       IN  IF usable = {} THEN Succeed ELSE Proceed("log case", usable)
    /\ UNCHANGED <<tables, rows>> /\ Aside

SeedLogCase ==
    /\ At("log case")
    /\ AddScenario(<<"log", Item>>)
    /\ NextItem
    /\ UNCHANGED <<tables, users, grades, classes, notes, courses>> /\ Aside
-----------------------------------------------------------------------------
(* seed-dashboard *)
DashboardTutor ==
    /\ At("tutor")
    /\ LET email == TutorEmail(running.arg)
       IN  users' = IF HasEmail(email) THEN users
                    ELSE users \union {User(email, <<"tutor_", running.by>>,
                                            "dashboard", running.by)}
    /\ Proceed("student", 1 .. NumStudents)
    /\ UNCHANGED <<tables, grades, scenarios, classes, notes, courses>> /\ Aside

DashboardStudent ==
    /\ At("student")
    /\ LET email == <<"dsh.student", Item>>
       IN  users' = IF HasEmail(email) THEN users
                    ELSE users \union {User(email, email, "dashboard",
                                            running.by)}
    /\ IF running.todo = {Item} THEN Proceed("wipe", {})
                                ELSE Proceed("student", running.todo \ {Item})
    /\ UNCHANGED <<tables, grades, scenarios, classes, notes, courses>> /\ Aside

(* Faulty variant: the prefix holds this year's number. *)
WipedThisYear(class) ==
    Seeded(class) /\ class.tutor = running.arg /\ class.year = year

(* Faulty variant: whoever owns them. *)
WipedOfAll(class) == Seeded(class)

Wiped(class) == Seeded(class) /\ class.tutor = running.arg

WipeClasses ==
    /\ At("wipe")
    /\ classes' = {class \in classes : ~Wiped(class)}
    /\ Proceed("class", 1 .. NumClasses)
    /\ UNCHANGED <<tables, users, grades, scenarios, notes, courses>> /\ Aside

InsertClass ==
    /\ At("class")
    /\ classes' = classes \union
          {[prefix |-> "DSH", year |-> year, tutor |-> running.arg,
            by |-> running.by, num |-> Item, has |-> {}]}
    /\ Proceed("enrolments", running.todo)
    /\ UNCHANGED <<tables, users, grades, scenarios, notes, courses>> /\ Aside

(* The class under construction gets its enrolments, sessions, tuitions. *)
ClassParts == <<"enrolments", "sessions", "tuitions">>

InsertClassPart ==
    /\ running.phase \in Range(ClassParts) /\ At(running.phase)
    /\ classes' = {IF class.by = running.by /\ class.num = Item
                   THEN [class EXCEPT !.has = @ \union {running.phase}]
                   ELSE class : class \in classes}
    /\ \E i \in DOMAIN ClassParts :
          /\ ClassParts[i] = running.phase
          /\ \/ i < 3 /\ Proceed(ClassParts[i + 1], running.todo)
             \/ /\ i = 3 /\ running.todo # {Item}
                /\ Proceed("class", running.todo \ {Item})
             \/ i = 3 /\ running.todo = {Item} /\ Proceed("wipe notes", {})
    /\ UNCHANGED <<tables, users, grades, scenarios, notes, courses>> /\ Aside

WipeNotes ==
    /\ At("wipe notes")
    /\ notes' = {n \in notes : n.tutor # running.arg \/ n.title # "[demo]"}
    /\ Proceed("notes", {})
    /\ UNCHANGED <<tables, users, grades, scenarios, classes, courses>> /\ Aside

InsertNotes ==
    /\ At("notes")
    /\ notes' = notes \union
          {[title |-> "[demo]", tutor |-> running.arg, by |-> running.by]}
    /\ Succeed
    /\ UNCHANGED <<tables, users, grades, scenarios, classes, courses>> /\ Aside
-----------------------------------------------------------------------------
(* seed-curriculum-demo *)
DemoGrade ==
    /\ At("demo grade")
    /\ grades' = IF \E g \in grades : g.level = DemoLevel THEN grades
                 ELSE grades \union {[level |-> DemoLevel, by |-> running.by]}
    /\ Proceed("demo tutor", {})
    /\ UNCHANGED <<tables, users, scenarios, classes, notes, courses>> /\ Aside

(* The default tutor is reused; an empty SEED_TUTOR_EMAIL asks for one of  *)
(* the suffix's own.                                                       *)
DemoTutor ==
    LET email == <<"tutor of demo", running.arg>>
    IN  /\ At("demo tutor")
        /\ \/ /\ HasEmail(Account(1))
              /\ Proceed("demo part", DOMAIN DemoParts)
              /\ UNCHANGED users
           \/ HasEmail(email) /\ Throw /\ UNCHANGED users
           \/ /\ ~HasEmail(email)
              /\ users' = users \union {User(email, email, "demo", running.by)}
              /\ Proceed("demo part", DOMAIN DemoParts)
        /\ UNCHANGED <<tables, grades, scenarios, classes, notes, courses>>
        /\ Aside

Course(kind, part) ==
    [kind |-> kind, suffix |-> running.arg, by |-> running.by, part |-> part]

(* Faulty variant: the emails do not hold the suffix. *)
EmailTakenNever(part) == FALSE

(* Parents and students have emails made of the suffix. *)
EmailTaken(part) ==
    /\ part \in {"parents", "students"}
    /\ \E row \in courses : /\ row.kind = "demo" /\ row.part = part
                            /\ row.suffix = running.arg

InsertDemoPart ==
    /\ running.phase = "demo part" /\ TableOf(Part) \in tables
    /\ IF EmailTaken(Part)
       THEN Throw /\ UNCHANGED courses
       ELSE NextItem /\ courses' = courses \union {Course("demo", Part)}
    /\ UNCHANGED <<tables, users, grades, scenarios, classes, notes>> /\ Aside

(* seed-edu-flow goes through the API, with the password of seed-user. *)
FlowGrade ==
    /\ At("flow grade")
    /\ IF grades = {} THEN Throw ELSE Proceed("login", {})
    /\ UNCHANGED <<tables, rows>> /\ Aside

Login ==
    /\ At("login")
    /\ IF \E u \in users : u.email = Account(1) /\ u.secret = "seed"
       THEN Proceed("flow part", DOMAIN FlowParts) ELSE Throw
    /\ UNCHANGED <<tables, rows>> /\ Aside

PostFlowPart ==
    /\ running.phase = "flow part" /\ TableOf(Part) \in tables
    /\ courses' = courses \union {Course("flow", Part)}
    /\ NextItem
    /\ UNCHANGED <<tables, users, grades, scenarios, classes, notes>> /\ Aside
-----------------------------------------------------------------------------
(* recreate-db *)
ListTables ==
    LET left == {i \in DOMAIN Tables : Tables[i] \in tables}
    IN  /\ running.phase = "list"
        /\ IF left = {} THEN Proceed("push", {}) ELSE Proceed("drop", left)
        /\ UNCHANGED <<tables, rows>> /\ Aside

Kept(table, set) == IF Tables[Item] = table THEN {} ELSE set

DropTable ==
    /\ running.phase = "drop"
    /\ tables' = tables \ {Tables[Item]}
    /\ users' = Kept("users", users)
    /\ grades' = Kept("grades", grades)
    /\ scenarios' = Kept("test_scenarios", scenarios)
    /\ classes' = Kept("classes", classes)
    /\ notes' = Kept("notifications", notes)
    /\ courses' = {row \in courses : TableOf(row.part) # Tables[Item]}
    /\ logs' = IF Tables[Item] = "request_logs"
               THEN [k \in DOMAIN logs |-> "none"] ELSE logs
    /\ IF running.todo = {Item} THEN Proceed("push", {})
                                ELSE Proceed("drop", running.todo \ {Item})
    /\ UNCHANGED <<started, kills, year>>

PushSchema ==
    /\ running.phase = "push"
    /\ tables' = Range(Tables)
    /\ Proceed("account", 1 .. NumAccounts)
    /\ UNCHANGED rows /\ Aside
-----------------------------------------------------------------------------
(* The gateway logs a request; the body it keeps may be unusable. *)
Traffic(k) ==
    /\ Idle /\ "request_logs" \in tables
    /\ \E body \in {"whole", "unusable"} : logs' = [logs EXCEPT ![k] = body]
    /\ finished' = Nothing
    /\ UNCHANGED <<running, started, kills, year, tables, rows>>

NewYear ==
    /\ Idle /\ year < MaxYear
    /\ year' = year + 1
    /\ UNCHANGED <<running, finished, started, kills, tables, rows, logs>>

(* No more scripts: the bound is reached. *)
Rest == Idle /\ started = MaxStarts /\ UNCHANGED vars

ScriptStep ==
    \/ MissingTable
    \/ SeedLevel \/ SeedAccount \/ LookUpSlots \/ SeedSlot
    \/ SeedCase \/ SampleLogs \/ SeedLogCase
    \/ DashboardTutor \/ DashboardStudent \/ WipeClasses
    \/ InsertClass \/ InsertClassPart \/ WipeNotes \/ InsertNotes
    \/ DemoGrade \/ DemoTutor \/ InsertDemoPart
    \/ FlowGrade \/ Login \/ PostFlowPart
    \/ ListTables \/ DropTable \/ PushSchema

Next ==
    \/ \E script \in Scripts : Start(script)
    \/ Kill \/ ScriptStep
    \/ \E k \in 1 .. NumSamples : Traffic(k)
    \/ NewYear \/ Rest

Spec == Init /\ [][Next]_vars
-----------------------------------------------------------------------------
(* No interruption and no order of runs makes a script insert what the     *)
(* database already has: an email, a username, a grade or a test case.     *)
(* seed-test-scenarios.ts:3, "existing ones are left untouched".           *)
NaturalKeysUnique ==
    /\ \A u, v \in users :
          u.email = v.email \/ u.username = v.username => u = v
    /\ \A g, h \in grades : g.level = h.level => g = h
    /\ \A s, t \in scenarios : s.key = t.key => s = t

(* seed-dashboard leaves one generation of classes, each of them whole,    *)
(* and one of notifications.                                               *)
DashboardFresh(tutor, by) ==
    LET mine == {class \in classes : Seeded(class) /\ class.tutor = tutor}
    IN  /\ {class.num : class \in mine} = 1 .. NumClasses
        /\ \A class \in mine : class.by = by /\ class.has = Range(ClassParts)
        /\ {n \in notes : n.tutor = tutor /\ n.title = "[demo]"}
              = {[title |-> "[demo]", tutor |-> tutor, by |-> by]}
        /\ \A n \in 1 .. NumStudents : HasEmail(<<"dsh.student", n>>)

OnlySeedAccounts(by) ==
    /\ tables = Range(Tables)
    /\ users = {User(Account(n), Account(n), "seed", by) : n \in 1 .. NumAccounts}
    /\ grades \union scenarios \union classes \union notes \union courses = {}

(* When a script ends well the database holds what it promises, whatever   *)
(* was run, interrupted or half done before (seed-dashboard.ts:10-13,      *)
(* recreate-db.ts:3).                                                      *)
FinishedAsPromised ==
    CASE finished.script = "grades" ->
            {g.level : g \in grades} = 1 .. NumLevels
      [] finished.script = "user" ->
            \A n \in 1 .. NumAccounts :
                HasEmail(Account(n)) \/ HasUsername(Account(n))
      [] finished.script = "users-bulk" ->
            \A n \in 1 .. NumSlots :
                HasEmail(<<"slot", n>>) \/ HasUsername(<<"slot", n>>)
      [] finished.script = "test-scenarios" ->
            {<<"case", n>> : n \in Cases} \subseteq {s.key : s \in scenarios}
      [] finished.script = "from-logs" ->
            {<<"log", k>> : k \in Usable(finished.arg)}
                \subseteq {s.key : s \in scenarios}
      [] finished.script = "dashboard" ->
            DashboardFresh(finished.arg, finished.by)
      [] finished.script = "curriculum-demo" ->
            Range(DemoParts) =
                {row.part : row \in {c \in courses : c.by = finished.by}}
      [] finished.script = "edu-flow" ->
            Range(FlowParts) =
                {row.part : row \in {c \in courses : c.by = finished.by}}
      [] finished.script = "recreate-db" -> OnlySeedAccounts(finished.by)
      [] OTHER -> TRUE

(* Only recreate-db takes away what a script did not put there itself: the *)
(* dashboard wipes its own classes of one tutor and its own notifications. *)
OthersRowsSurvive ==
    [][running.script # "recreate-db" =>
          /\ users \subseteq users' /\ grades \subseteq grades'
          /\ scenarios \subseteq scenarios' /\ courses \subseteq courses'
          /\ \A class \in classes \ classes' :
                /\ running.script = "dashboard"
                /\ Seeded(class) /\ class.tutor = running.arg
          /\ \A n \in notes \ notes' :
                running.script = "dashboard" /\ n.title = "[demo]"]_vars

(* A suffix of seed-curriculum-demo names the course of one run: a run     *)
(* with a used suffix stops before it adds to another run's course, also   *)
(* to one that was never completed (seed-curriculum-demo.ts:11).           *)
DemoOfOneRun ==
    \A row, other \in courses :
        row.kind = "demo" /\ other.kind = "demo" /\ row.suffix = other.suffix
            => row.by = other.by
=============================================================================
