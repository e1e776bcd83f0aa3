-------------------------- MODULE DeploymentProofs --------------------------
(***************************************************************************)
(* Proofs about what an operator does with the service: starting a process *)
(* (Bootstrap implements Process, for any number of attempts and deaths)   *)
(* and running the scripts (Seeding), for any number of rows, tutors,      *)
(* suffixes, starts and interruptions.                                     *)
(***************************************************************************)
EXTENDS Bootstrap, Seeding, WellFoundedInduction, TLAPS

-----------------------------------------------------------------------------
(* Bootstrap.  What a boot has reached by each phase: an answer of         *)
(* Postgres, then a sink and listeners, then one connection to Redis.      *)
Both == {"RpcExceptionFilter", "TraceContextInterceptor"}

Boots == [phase : Phases, attempt : Nat, answered : BOOLEAN, sink : BOOLEAN,
          filters : SUBSET Both, bound : SUBSET Both,
          status : {"wait", "connecting"}, connects : Nat,
          probe : {"none", "put", "over"}]

BootType ==
    /\ process \in Boots /\ process.attempt <= MaxRetries
    /\ process.bound \subseteq process.filters
    /\ deaths \in 0 .. MaxDeaths + 1
    /\ process.phase # "down" => deaths <= MaxDeaths
    /\ configured \in BOOLEAN /\ brokerUp \in BOOLEAN

BootFits ==
    /\ process.phase \notin {"down", "connecting"} => process.answered
    /\ process.phase \in {"connecting", "assembling", "first hooks"} =>
          process.status = "wait" /\ process.connects = 0
    /\ process.phase = "first hooks" => process.sink /\ process.bound = Both
    /\ process.phase \in {"awaiting broker", "consuming", "listening"} =>
          Whole /\ process.status = "connecting"

BootInv == BootType /\ BootFits

LEMMA BootInit == BootstrapInit => BootInv
<1> SUFFICES ASSUME BootstrapInit PROVE BootInv
  OBVIOUS
<1>1. process = Down /\ deaths = 0 /\ configured \in BOOLEAN /\ brokerUp \in BOOLEAN
  BY DEF BootstrapInit
<1>2. Down \in Boots /\ Down.attempt <= MaxRetries /\ Down.bound \subseteq Down.filters
  BY BootstrapAssumption DEF Down, Boots, Phases, Both
<1>3. BootType
  BY <1>1, <1>2, BootstrapAssumption DEF BootType, Down
<1>4. BootFits
  BY <1>1 DEF BootFits, Down
<1> QED
  BY <1>3, <1>4 DEF BootInv

(* A death gives the process up and keeps within the bound. *)
LEMMA BootDown ==
    ASSUME BootInv, process' = Down, deaths' \in 0 .. MaxDeaths + 1,
           configured' \in BOOLEAN, brokerUp' \in BOOLEAN
    PROVE  BootInv'
<1>1. Down \in Boots /\ Down.attempt <= MaxRetries /\ Down.bound \subseteq Down.filters
  BY BootstrapAssumption DEF Down, Boots, Phases, Both
<1>2. BootType'
  BY <1>1 DEF BootType, Down
<1>3. BootFits'
  BY DEF BootFits, Down
<1> QED
  BY <1>2, <1>3 DEF BootInv

LEMMA BootStep == BootInv /\ [BootstrapNext \/ ProcessDies]_bootVars => BootInv'
<1> SUFFICES ASSUME BootInv, [BootstrapNext \/ ProcessDies]_bootVars
             PROVE  BootInv'
  OBVIOUS
<1>0. /\ process \in Boots /\ process.attempt <= MaxRetries
      /\ process.bound \subseteq process.filters
      /\ deaths \in 0 .. MaxDeaths + 1
      /\ process.phase # "down" => deaths <= MaxDeaths
      /\ MaxRetries \in Nat \ {0} /\ MaxDeaths \in Nat
  BY BootstrapAssumption DEF BootInv, BootType
<1>c. configured' \in BOOLEAN /\ brokerUp' \in BOOLEAN
  <2>1. configured' = configured /\ (brokerUp' = brokerUp \/ brokerUp' = ~brokerUp)
    BY DEF BootstrapNext, Launch, PostgresAnswers, PostgresFails, Assemble,
           Misconfigured, ProbePuts, ProbeDeletes, FirstHooks, SecondHooks, InitHooks,
           BrokerConnects, BrokerComesOrGoes, ProcessDies, bootVars
  <2>2. configured \in BOOLEAN /\ brokerUp \in BOOLEAN
    BY DEF BootInv, BootType
  <2> QED
    BY <2>1, <2>2
<1>1. CASE Launch
  <2>1. Down \in Boots /\ Down.bound = {} /\ Down.status = "wait" /\ Down.connects = 0
    BY DEF Down, Boots, Phases
  <2>2. process' \in Boots /\ process'.attempt = 1
        /\ process'.bound = Down.bound /\ process'.phase = "connecting"
        /\ process'.status = Down.status /\ process'.connects = Down.connects
    BY <1>1, <2>1 DEF Launch, Boots, Phases
  <2>3. process'.attempt <= MaxRetries /\ process'.bound \subseteq process'.filters
        /\ process'.status = "wait" /\ process'.connects = 0
    BY <1>0, <2>1, <2>2
  <2>4. deaths' \in 0 .. MaxDeaths + 1 /\ deaths' <= MaxDeaths
    BY <1>0, <1>1 DEF Launch
  <2> QED
    BY <1>c, <2>2, <2>3, <2>4 DEF BootInv, BootType, BootFits
<1>2. CASE PostgresAnswers
  <2>1. process' \in Boots /\ process'.attempt <= MaxRetries
        /\ process'.bound \subseteq process'.filters /\ process'.phase = "assembling"
        /\ process'.status = "wait" /\ process'.connects = 0 /\ process'.answered
        /\ deaths' = deaths /\ deaths <= MaxDeaths
    BY <1>0, <1>2 DEF PostgresAnswers, Boots, Phases, BootInv, BootFits
  <2> QED
    BY <1>0, <1>c, <2>1 DEF BootInv, BootType, BootFits
<1>3. CASE PostgresFails
  <2>1. CASE LastAttempt
    BY <1>0, <1>3, <2>1, <1>c, BootDown DEF PostgresFails
  <2>2. CASE ~LastAttempt
    <3> DEFINE next == process.attempt + 1
    <3>1. process.attempt \in Nat
      BY <1>0 DEF Boots
    <3>2. next \in Nat /\ next <= MaxRetries
      BY <1>0, <2>2, <3>1 DEF LastAttempt
    <3>3. /\ process.phase = "connecting" /\ deaths' = deaths
          /\ process' = [process EXCEPT !.attempt = next]
      BY <1>3, <2>2 DEF PostgresFails
    <3> HIDE DEF next
    <3>4. /\ process' \in Boots /\ process'.attempt = next
          /\ process'.bound = process.bound /\ process'.filters = process.filters
          /\ process'.phase = process.phase /\ process'.status = process.status
          /\ process'.connects = process.connects
      BY <1>0, <3>2, <3>3 DEF Boots
    <3>5. process'.attempt <= MaxRetries /\ process'.bound \subseteq process'.filters
          /\ process'.phase = "connecting" /\ deaths <= MaxDeaths
          /\ process'.status = "wait" /\ process'.connects = 0
      BY <1>0, <3>2, <3>3, <3>4 DEF BootInv, BootFits
    <3> QED
      BY <1>0, <1>c, <3>3, <3>4, <3>5 DEF BootInv, BootType, BootFits
  <2> QED
    BY <2>1, <2>2
<1>4. CASE Assemble
  <2>1. process' \in Boots /\ process'.attempt <= MaxRetries
        /\ process'.bound \subseteq process'.filters /\ process'.phase = "first hooks"
        /\ process'.status = "wait" /\ process'.connects = 0 /\ process'.answered
        /\ process'.sink /\ process'.bound = Both
        /\ deaths' = deaths /\ deaths <= MaxDeaths
    BY <1>0, <1>4 DEF Assemble, BoundAtStart, Boots, Phases, Both, BootInv, BootFits
  <2> QED
    BY <1>0, <1>c, <2>1 DEF BootInv, BootType, BootFits
<1>5. CASE Misconfigured
  BY <1>0, <1>5, <1>c, BootDown DEF Misconfigured
<1>6. CASE ProbePuts \/ ProbeDeletes
  <2>1. PICK next \in {"put", "over"} : process' = [process EXCEPT !.probe = next]
    BY <1>6 DEF ProbePuts, ProbeDeletes
  <2>2. /\ process' \in Boots /\ process'.attempt = process.attempt
        /\ process'.filters = process.filters /\ process'.bound = process.bound
        /\ process'.phase = process.phase /\ process'.status = process.status
        /\ process'.connects = process.connects /\ deaths' = deaths
        /\ process'.answered = process.answered /\ process'.sink = process.sink
    BY <1>0, <1>6, <2>1 DEF Boots, ProbePuts, ProbeDeletes
  <2>3. BootType'
    BY <1>0, <1>c, <2>2 DEF BootType
  <2>4. BootFits'
    BY <2>2 DEF BootInv, BootFits, Whole
  <2> QED
    BY <2>3, <2>4 DEF BootInv
<1>7. CASE FirstHooks
  <2>1. /\ process.phase = "first hooks" /\ process.status = "wait"
        /\ process.connects = 0 /\ process.answered /\ process.sink
        /\ process.bound = Both
    BY <1>7 DEF FirstHooks, InitHooks, BootInv, BootFits
  <2>2. /\ process' \in Boots /\ process'.attempt = process.attempt
        /\ process'.filters = process.filters /\ process'.bound = process.bound
        /\ process'.phase = "awaiting broker" /\ process'.status = "connecting"
        /\ process'.connects = 1 /\ deaths' = deaths
        /\ process'.answered = process.answered /\ process'.sink = process.sink
    <3> DEFINE connects == IF NotConnectedYet THEN process.connects + 1
                           ELSE process.connects
    <3> HIDE DEF connects
    <3>1. connects = 1
      <4>1. process.connects = 0 /\ connects = process.connects + 1
        BY <2>1, Zenon DEF NotConnectedYet, connects
      <4> QED
        BY <4>1
    <3>2. /\ deaths' = deaths
          /\ process' = [process EXCEPT !.phase = "awaiting broker", !.status = "connecting",
                           !.connects = connects, !.probe = "none"]
      BY <1>7, Zenon DEF FirstHooks, InitHooks, connects
    <3>3. connects \in Nat
      BY <3>1
    <3>4. /\ process' \in Boots /\ process'.attempt = process.attempt
          /\ process'.filters = process.filters /\ process'.bound = process.bound
          /\ process'.phase = "awaiting broker" /\ process'.status = "connecting"
          /\ process'.connects = connects
          /\ process'.answered = process.answered /\ process'.sink = process.sink
      BY <1>0, <3>2, <3>3 DEF Boots, Phases
    <3> QED
      BY <3>1, <3>2, <3>4
  <2>3. BootType'
    BY <1>0, <1>c, <2>1, <2>2 DEF BootType
  <2>4. BootFits'
    BY <2>1, <2>2 DEF BootFits, Whole, Both
  <2> QED
    BY <2>3, <2>4 DEF BootInv
<1>8. CASE SecondHooks
  <2>1. process.phase = "consuming" /\ process.status = "connecting" /\ Whole
    BY <1>8 DEF SecondHooks, InitHooks, BootInv, BootFits
  <2>2. /\ process' \in Boots /\ process'.attempt = process.attempt
        /\ process'.filters = process.filters /\ process'.bound = process.bound
        /\ process'.phase = "listening" /\ process'.status = "connecting"
        /\ process'.connects = process.connects /\ deaths' = deaths
        /\ process'.answered = process.answered /\ process'.sink = process.sink
    BY <1>0, <1>8, <2>1 DEF SecondHooks, InitHooks, NotConnectedYet, Boots, Phases
  <2>3. BootType'
    BY <1>0, <1>c, <2>1, <2>2 DEF BootType
  <2>4. BootFits'
    BY <2>1, <2>2 DEF BootFits, Whole
  <2> QED
    BY <2>3, <2>4 DEF BootInv
<1>b. CASE BrokerConnects
  <2>1. process.phase = "awaiting broker" /\ process.status = "connecting" /\ Whole
    BY <1>b DEF BrokerConnects, BootInv, BootFits
  <2>2. /\ process' \in Boots /\ process'.attempt = process.attempt
        /\ process'.filters = process.filters /\ process'.bound = process.bound
        /\ process'.phase = "consuming" /\ process'.status = "connecting"
        /\ process'.connects = process.connects /\ deaths' = deaths
        /\ process'.answered = process.answered /\ process'.sink = process.sink
    BY <1>0, <1>b, <2>1 DEF BrokerConnects, Boots, Phases
  <2>3. BootType'
    BY <1>0, <1>c, <2>1, <2>2 DEF BootType
  <2>4. BootFits'
    BY <2>1, <2>2 DEF BootFits, Whole
  <2> QED
    BY <2>3, <2>4 DEF BootInv
<1>9. CASE ProcessDies
  BY <1>0, <1>9, <1>c, BootDown DEF ProcessDies
<1>10. CASE BrokerComesOrGoes \/ UNCHANGED bootVars
  <2>1. UNCHANGED <<process, deaths>>
    BY <1>10 DEF BrokerComesOrGoes, bootVars
  <2> QED
    BY <1>c, <2>1 DEF BootInv, BootType, BootFits, Whole
<1> QED
  BY <1>b, <1>1, <1>2, <1>3, <1>4, <1>5, <1>6, <1>7, <1>8, <1>9, <1>10 DEF BootstrapNext

LEMMA BootInvariant == BootstrapSpec => []BootInv
<1> QED
  BY BootInit, BootStep, PTL DEF BootstrapSpec

(* The attempts are those the factory makes, and the listeners have only   *)
(* what exists (database.module.ts:58-78, main.ts:36-59).                  *)
THEOREM BootstrapTypeCorrect == BootstrapSpec => []BootstrapOK
<1>1. BootInv => BootstrapOK
  BY BootstrapAssumption DEF BootInv, BootType, BootstrapOK, Boots
<1> QED
  BY <1>1, BootInvariant, PTL

(* Whatever Postgres, the store and the settings do, nothing is consumed   *)
(* and nothing listens before the process is whole, in any of its lives:   *)
(* Bootstrap implements Process (main.ts:27-59, 105-114).                  *)
THEOREM ServesOnlyWholeCorrect == BootstrapSpec => ServesOnlyWhole
<1> DEFINE Shown == IF process.phase \notin {"consuming", "listening"} THEN "down"
                    ELSE IF Whole THEN process.phase ELSE "half"
<1>1. BootstrapInit => Promise!ProcessInit
  BY DEF BootstrapInit, Down, Promise!ProcessInit
<1>2. BootInv /\ BootInv' /\ [BootstrapNext \/ ProcessDies]_bootVars
      => [Promise!ProcessNext]_Shown
  <2> SUFFICES ASSUME BootInv, BootInv', [BootstrapNext \/ ProcessDies]_bootVars
               PROVE  [Promise!ProcessNext]_Shown
    OBVIOUS
  <2>1. Shown = IF process.phase \in {"consuming", "listening"} THEN process.phase
                ELSE "down"
    BY DEF BootInv, BootFits
  <2>2. Shown' = IF process'.phase \in {"consuming", "listening"} THEN process'.phase
                 ELSE "down"
    BY DEF BootInv, BootFits
  <2>3. process \in Boots /\ process' \in Boots
    BY DEF BootInv, BootType
  <2>4. CASE BrokerConnects
    <3>1. process.phase = "awaiting broker" /\ process'.phase = "consuming"
      BY <2>3, <2>4 DEF BrokerConnects, Boots
    <3> QED
      BY <2>1, <2>2, <3>1 DEF Promise!ProcessNext, Promise!Consume
  <2>5. CASE SecondHooks
    <3>1. process.phase = "consuming" /\ process'.phase = "listening"
      BY <2>3, <2>5 DEF SecondHooks, InitHooks, Boots
    <3> QED
      BY <2>1, <2>2, <3>1 DEF Promise!ProcessNext, Promise!Listen
  <2>6. CASE process' = Down
    <3>1. Shown' = "down"
      BY <2>2, <2>6 DEF Down
    <3> QED
      BY <3>1 DEF Promise!ProcessNext, Promise!Die
  <2>7. CASE Launch \/ PostgresAnswers \/ (PostgresFails /\ process' # Down) \/ Assemble
             \/ UNCHANGED bootVars \/ ProbePuts \/ ProbeDeletes \/ FirstHooks
             \/ BrokerComesOrGoes
    <3>1. \/ process.phase = process'.phase
          \/ {process.phase, process'.phase} \cap {"consuming", "listening"} = {}
      BY <2>3, <2>7 DEF Launch, PostgresAnswers, PostgresFails, Assemble, bootVars,
         ProbePuts, ProbeDeletes, FirstHooks, InitHooks, BrokerComesOrGoes, Boots, Down
    <3>2. Shown' = Shown
      BY <2>1, <2>2, <3>1
    <3> QED
      BY <3>2
  <2>8. Misconfigured \/ ProcessDies => process' = Down
    BY DEF Misconfigured, ProcessDies
  <2> QED
    BY <2>4, <2>5, <2>6, <2>7, <2>8 DEF BootstrapNext
<1> QED
  BY <1>1, <1>2, BootInvariant, PTL
     DEF BootstrapSpec, ServesOnlyWhole, Promise!ProcessSpec
-----------------------------------------------------------------------------
(* Seeding: the script under way.  Each script has its phases, and a phase *)
(* that works off a list has something left of it.                         *)
PhasesOf(script) ==
    CASE script = "grades"          -> {"level"}
      [] script = "user"            -> {"account"}
      [] script = "users-bulk"      -> {"lookup", "slot"}
      [] script = "test-scenarios"  -> {"case"}
      [] script = "from-logs"       -> {"sample", "log case"}
      [] script = "dashboard"       -> {"tutor", "student", "wipe", "class",
                                        "enrolments", "sessions", "tuitions",
                                        "wipe notes", "notes"}
      [] script = "curriculum-demo" -> {"demo grade", "demo tutor", "demo part"}
      [] script = "edu-flow"        -> {"flow grade", "login", "flow part"}
      [] script = "recreate-db"     -> {"list", "drop", "push", "account"}

ListOf(phase) ==
    CASE phase = "level"     -> 1 .. NumLevels
      [] phase = "account"   -> 1 .. NumAccounts
      [] phase = "slot"      -> 1 .. NumSlots
      [] phase = "case"      -> 1 .. NumCases
      [] phase = "log case"  -> 1 .. NumSamples
      [] phase = "student"   -> 1 .. NumStudents
      [] phase \in {"class", "enrolments", "sessions", "tuitions"}
                             -> 1 .. NumClasses
      [] phase = "demo part" -> 1 .. 8
      [] phase = "flow part" -> 1 .. 6
      [] phase = "drop"      -> 1 .. 7
      [] OTHER               -> {}

Steps == {"level", "account", "lookup", "slot", "case", "sample", "log case",
          "tutor", "student", "wipe", "class", "enrolments", "sessions",
          "tuitions", "wipe notes", "notes", "demo grade", "demo tutor",
          "demo part", "flow grade", "login", "flow part", "list", "drop", "push"}

Runs == [script : Scripts, by : Nat, phase : Steps, todo : SUBSET Nat, arg : Nat]

RunFits ==
    /\ running \in Runs /\ running.by = started /\ started # 0
    /\ running.phase \in PhasesOf(running.script)
    /\ running.todo \subseteq ListOf(running.phase)
    /\ running.todo = {} => ListOf(running.phase) = {}
    /\ finished = Nothing

SeedType ==
    /\ started \in 0 .. MaxStarts /\ kills \in 0 .. MaxKills
    /\ year \in 1 .. MaxYear
    /\ tables \subseteq Range(Tables)
    /\ logs \in [1 .. NumSamples -> {"none", "whole", "unusable"}]
    /\ finished = Nothing \/ finished \in Runs
    /\ Idle \/ RunFits
-----------------------------------------------------------------------------
(* Users: who made a username that is not an email, and which accounts the *)
(* script has seen to.                                                     *)
StudentsThere == \A n \in 1 .. NumStudents : HasEmail(<<"dsh.student", n>>)

UsersFit ==
    /\ "users" \in tables \/ users = {}
    /\ \A u \in users : u.by \in 0 .. started
    /\ \A u, v \in users :
          u.email = v.email \/ u.username = v.username => u = v
    /\ \A u \in users : \A n :
          /\ u.username = <<"tutor_", n>> => u.by = n
          /\ u.username = <<"dsh.student", n>> => u.email = u.username
          /\ u.username = <<"tutor of demo", n>> => u.email = u.username

UsersDone ==
    /\ running.phase = "tutor" => \A u \in users : u.by # running.by
    /\ running.phase = "slot" => \A n \in 1 .. NumSlots :
          n \in running.todo <=>
              ~HasEmail(<<"slot", n>>) /\ ~HasUsername(<<"slot", n>>)
    /\ running.phase = "account" => \A n \in 1 .. NumAccounts \ running.todo :
          HasEmail(Account(n)) \/ HasUsername(Account(n))
    /\ running.phase = "student" => \A n \in 1 .. NumStudents \ running.todo :
          HasEmail(<<"dsh.student", n>>)
    /\ running.phase \in PhasesOf("dashboard") \ {"tutor", "student"} =>
          StudentsThere

UsersPromised ==
    /\ finished.script = "user" => \A n \in 1 .. NumAccounts :
          HasEmail(Account(n)) \/ HasUsername(Account(n))
    /\ finished.script = "users-bulk" => \A n \in 1 .. NumSlots :
          HasEmail(<<"slot", n>>) \/ HasUsername(<<"slot", n>>)
    /\ finished.script = "dashboard" => StudentsThere
-----------------------------------------------------------------------------
(* Grades and scenarios. *)
HasLevel(n) == \E g \in grades : g.level = n
HasKey(key) == \E s \in scenarios : s.key = key

GradesFit ==
    /\ "grades" \in tables \/ grades = {}
    /\ \A g \in grades : g.by \in 0 .. started /\ g.level \in 1 .. NumLevels
    /\ \A g, h \in grades : g.level = h.level => g = h
    /\ running.phase = "level" =>
          \A n \in 1 .. NumLevels \ running.todo : HasLevel(n)
    /\ finished.script = "grades" => \A n \in 1 .. NumLevels : HasLevel(n)

ScenariosFit ==
    /\ "test_scenarios" \in tables \/ scenarios = {}
    /\ \A s \in scenarios : s.by \in 0 .. started
    /\ \A s, t \in scenarios : s.key = t.key => s = t
    /\ running.phase = "case" =>
          \A n \in 1 .. NumCases \ running.todo : HasKey(<<"case", n>>)
    /\ running.phase = "log case" =>
          \A k \in Usable(running.arg) \ running.todo : HasKey(<<"log", k>>)
    /\ finished.script = "test-scenarios" =>
          \A n \in 1 .. NumCases : HasKey(<<"case", n>>)
    /\ finished.script = "from-logs" =>
          \A k \in Usable(finished.arg) : HasKey(<<"log", k>>)
-----------------------------------------------------------------------------
(* The classes and notifications of seed-dashboard: whatever is left of    *)
(* other runs goes before a class is made, and the classes made are whole  *)
(* but for the one under construction.                                     *)
AllParts == {"enrolments", "sessions", "tuitions"}

PartsBefore(phase) == CASE phase = "sessions" -> {"enrolments"}
                        [] phase = "tuitions" -> {"enrolments", "sessions"}
                        [] OTHER              -> {}

ClassRows == [prefix : {"DSH", "theirs"}, year : Nat, tutor : Nat, by : Nat,
              num : Nat, has : SUBSET AllParts]

Mine(tutor) == {class \in classes : Seeded(class) /\ class.tutor = tutor}

UnderConstruction(class) == running.phase \in AllParts /\ class.num = Item

ClassesMade ==
    CASE running.phase = "class" -> 1 .. NumClasses \ running.todo
      [] running.phase \in AllParts ->
            (1 .. NumClasses \ running.todo) \union {Item}
      [] OTHER -> 1 .. NumClasses

ClassesFit ==
    /\ classes \subseteq ClassRows
    /\ "classes" \in tables \/ classes = {}
    /\ \A class \in classes : class.by \in 0 .. started
    /\ \A class \in classes : ~Idle /\ class.by = running.by =>
          Seeded(class) /\ class.tutor = running.arg
    /\ running.phase \in {"class", "wipe notes", "notes"} \union AllParts =>
          /\ {class.num : class \in Mine(running.arg)} = ClassesMade
          /\ \A class \in Mine(running.arg) :
                /\ class.by = running.by
                /\ class.has = IF UnderConstruction(class)
                               THEN PartsBefore(running.phase) ELSE AllParts
    /\ finished.script = "dashboard" =>
          /\ {class.num : class \in Mine(finished.arg)} = 1 .. NumClasses
          /\ \A class \in Mine(finished.arg) :
                class.by = finished.by /\ class.has = AllParts

DemoNotes(tutor) == {n \in notes : n.tutor = tutor /\ n.title = "[demo]"}

NotesFit ==
    /\ "notifications" \in tables \/ notes = {}
    /\ \A n \in notes : n.by \in 0 .. started
    /\ running.phase = "notes" => DemoNotes(running.arg) = {}
    /\ finished.script = "dashboard" => DemoNotes(finished.arg) =
          {[title |-> "[demo]", tutor |-> finished.arg, by |-> finished.by]}
-----------------------------------------------------------------------------
(* Courses: every demo course has its parents, whose emails hold the       *)
(* suffix, so that the run of a used suffix stops at its first part.       *)
IsDemo(row, suffix) == row.kind = "demo" /\ row.suffix = suffix
HasParents(suffix) ==
    \E row \in courses : IsDemo(row, suffix) /\ row.part = "parents"

PartsOf(by) == {row.part : row \in {c \in courses : c.by = by}}

CoursesFit ==
    /\ \A row \in courses :
          /\ row.by \in 0 .. started /\ TableOf(row.part) \in tables
          /\ row.kind = "demo" => HasParents(row.suffix)
    /\ DemoOfOneRun

CoursesDone ==
    /\ running.phase \in {"demo grade", "demo tutor", "flow grade", "login"} =>
          \A row \in courses : row.by # running.by
    /\ running.phase = "demo part" =>
          PartsOf(running.by) = {DemoParts[i] : i \in 1 .. 8 \ running.todo}
    /\ running.phase = "demo part" /\ 1 \notin running.todo =>
          /\ HasParents(running.arg)
          /\ \A row \in courses : IsDemo(row, running.arg) => row.by = running.by
    /\ running.phase = "flow part" =>
          PartsOf(running.by) = {FlowParts[i] : i \in 1 .. 6 \ running.todo}

CoursesPromised ==
    /\ finished.script = "curriculum-demo" =>
          PartsOf(finished.by) = {DemoParts[i] : i \in 1 .. 8}
    /\ finished.script = "edu-flow" =>
          PartsOf(finished.by) = {FlowParts[i] : i \in 1 .. 6}

(* recreate-db drops what there is, and starts over. *)
SeedAccounts(by, done) == {User(Account(n), Account(n), "seed", by) : n \in done}

OnlyAccounts(by, done) ==
    /\ tables = Range(Tables)
    /\ users = SeedAccounts(by, done)
    /\ grades \union scenarios \union classes \union notes \union courses = {}

RecreateFits ==
    /\ running.phase = "drop" =>
          running.todo = {i \in 1 .. 7 : Tables[i] \in tables}
    /\ running.phase = "push" => tables = {}
    /\ running.script = "recreate-db" /\ running.phase = "account" =>
          OnlyAccounts(running.by, 1 .. NumAccounts \ running.todo)
    /\ finished.script = "recreate-db" =>
          OnlyAccounts(finished.by, 1 .. NumAccounts)

SeedInv ==
    /\ SeedType /\ UsersFit /\ UsersDone /\ UsersPromised
    /\ GradesFit /\ ScenariosFit /\ ClassesFit /\ NotesFit
    /\ CoursesFit /\ CoursesDone /\ CoursesPromised /\ RecreateFits
-----------------------------------------------------------------------------
(* The item a phase takes next, and the lists.                             *)
LEMMA LeastItem ==
    ASSUME NEW T \in SUBSET Nat, T # {}
    PROVE  Min(T) \in T /\ \A y \in T : Min(T) <= y
<1>1. \E x \in T : \A y \in T : ~ (<<y, x>> \in OpToRel(<, Nat))
  BY NatLessThanWellFounded, WFMin
<1>2. \A x, y \in Nat : <<y, x>> \notin OpToRel(<, Nat) => x <= y
  BY DEF OpToRel
<1>3. \E x \in T : \A y \in T : x <= y
  BY <1>1, <1>2
<1> QED
  BY <1>3 DEF Min

LEMMA Counts ==
    /\ NumLevels \in Nat \ {0} /\ NumAccounts \in Nat \ {0}
    /\ NumSlots \in Nat \ {0} /\ NumCases \in Nat \ {0}
    /\ NumSamples \in Nat \ {0} /\ NumStudents \in Nat \ {0}
    /\ NumClasses \in Nat \ {0} /\ MaxStarts \in Nat \ {0}
    /\ MaxYear \in Nat \ {0} /\ MaxKills \in Nat
    /\ DemoLevel \in 1 .. NumLevels /\ 1 \in Tutors
    /\ Tutors \subseteq Nat \ {0} /\ Suffixes \subseteq Nat
    /\ Limits \subseteq Nat \ {0}
<1> QED
  BY SeedingAssumption

Listed == {"level", "account", "slot", "case", "log case", "student", "class",
           "enrolments", "sessions", "tuitions", "demo part", "flow part", "drop"}

LEMMA Lists ==
    /\ ListOf("level") = 1 .. NumLevels /\ ListOf("account") = 1 .. NumAccounts
    /\ ListOf("slot") = 1 .. NumSlots /\ ListOf("case") = 1 .. NumCases
    /\ ListOf("log case") = 1 .. NumSamples
    /\ ListOf("student") = 1 .. NumStudents
    /\ \A phase \in {"class"} \union AllParts : ListOf(phase) = 1 .. NumClasses
    /\ ListOf("demo part") = 1 .. 8 /\ ListOf("flow part") = 1 .. 6
    /\ ListOf("drop") = 1 .. 7
    /\ \A phase : phase \notin Listed => ListOf(phase) = {}
    /\ \A phase : ListOf(phase) \subseteq Nat
    /\ \A phase \in Listed : 1 \in ListOf(phase)
<1>1. /\ ListOf("level") = 1 .. NumLevels /\ ListOf("account") = 1 .. NumAccounts
      /\ ListOf("slot") = 1 .. NumSlots /\ ListOf("case") = 1 .. NumCases
      /\ ListOf("log case") = 1 .. NumSamples
      /\ ListOf("student") = 1 .. NumStudents
      /\ ListOf("demo part") = 1 .. 8 /\ ListOf("flow part") = 1 .. 6
      /\ ListOf("drop") = 1 .. 7
  BY DEF ListOf
<1>2. \A phase \in {"class"} \union AllParts : ListOf(phase) = 1 .. NumClasses
  BY DEF ListOf, AllParts
<1>3. \A phase : phase \notin Listed => ListOf(phase) = {}
  BY DEF ListOf, Listed
<1>4. \A n \in Nat \ {0} : 1 .. n \subseteq Nat /\ 1 \in 1 .. n
  OBVIOUS
<1>5. \A phase \in Listed : \E n \in Nat \ {0} : ListOf(phase) = 1 .. n
  <2> SUFFICES ASSUME NEW phase \in Listed
               PROVE  \E n \in Nat \ {0} : ListOf(phase) = 1 .. n
    OBVIOUS
  <2>1. CASE phase \in {"class"} \union AllParts
    BY <1>2, <2>1, Counts
  <2>2. CASE phase \in {"demo part", "flow part", "drop"}
    <3>1. 8 \in Nat \ {0} /\ 6 \in Nat \ {0} /\ 7 \in Nat \ {0}
      OBVIOUS
    <3> QED
      BY <1>1, <2>2, <3>1
  <2>3. CASE phase \in {"level", "account", "slot", "case", "log case", "student"}
    BY <1>1, <2>3, Counts
  <2> QED
    BY <2>1, <2>2, <2>3 DEF Listed, AllParts
<1>6. \A phase : ListOf(phase) \subseteq Nat
  BY <1>3, <1>4, <1>5
<1>7. \A phase \in Listed : 1 \in ListOf(phase)
  BY <1>4, <1>5
<1> QED
  BY <1>1, <1>2, <1>3, <1>6, <1>7

(* Which script a phase belongs to. *)
LEMMA ScriptOfPhase ==
    ASSUME NEW script \in Scripts, NEW phase \in PhasesOf(script)
    PROVE  /\ phase \in Steps
           /\ phase = "level" => script = "grades"
           /\ phase = "account" => script \in {"user", "recreate-db"}
           /\ phase \in {"lookup", "slot"} => script = "users-bulk"
           /\ phase = "case" => script = "test-scenarios"
           /\ phase \in {"sample", "log case"} => script = "from-logs"
           /\ phase \in {"tutor", "student", "wipe", "class", "enrolments",
                         "sessions", "tuitions", "wipe notes", "notes"} =>
                 script = "dashboard"
           /\ phase \in {"demo grade", "demo tutor", "demo part"} =>
                 script = "curriculum-demo"
           /\ phase \in {"flow grade", "login", "flow part"} => script = "edu-flow"
           /\ phase \in {"list", "drop", "push"} => script = "recreate-db"
<1>1. CASE script = "grades"
  BY <1>1 DEF PhasesOf, Steps
<1>2. CASE script = "user"
  BY <1>2 DEF PhasesOf, Steps
<1>3. CASE script = "users-bulk"
  BY <1>3 DEF PhasesOf, Steps
<1>4. CASE script = "test-scenarios"
  BY <1>4 DEF PhasesOf, Steps
<1>5. CASE script = "from-logs"
  BY <1>5 DEF PhasesOf, Steps
<1>6. CASE script = "dashboard"
  BY <1>6 DEF PhasesOf, Steps
<1>7. CASE script = "curriculum-demo"
  BY <1>7 DEF PhasesOf, Steps
<1>8. CASE script = "edu-flow"
  BY <1>8 DEF PhasesOf, Steps
<1>9. CASE script = "recreate-db"
  BY <1>9 DEF PhasesOf, Steps
<1> QED
  BY <1>1, <1>2, <1>3, <1>4, <1>5, <1>6, <1>7, <1>8, <1>9 DEF Scripts
-----------------------------------------------------------------------------
(* What a step does with the script under way: it goes on with another     *)
(* phase or list, comes to its end, or breaks off.                         *)
Moves(phase, todo) ==
    /\ RunFits' /\ ~Idle' /\ finished' = Nothing
    /\ running'.phase = phase /\ running'.todo = todo
    /\ running'.script = running.script /\ running'.by = running.by
    /\ running'.arg = running.arg

Completes == running' = Nothing /\ finished' = running
BreaksOff == running' = Nothing /\ finished' = Nothing

TakesItem ==
    /\ Item \in running.todo /\ \A n \in running.todo : Item <= n
    /\ IF running.todo = {Item} THEN Completes
       ELSE Moves(running.phase, running.todo \ {Item})

LEMMA Moving ==
    ASSUME RunFits, started' = started, NEW phase, NEW todo, Proceed(phase, todo),
           phase \in PhasesOf(running.script), todo \subseteq ListOf(phase),
           todo = {} => ListOf(phase) = {}
    PROVE  Moves(phase, todo)
<1>1. running \in Runs /\ running.by = started /\ started # 0 /\ finished = Nothing
  BY DEF RunFits
<1>2. phase \in Steps
  BY <1>1, ScriptOfPhase DEF Runs
<1>3. todo \in SUBSET Nat
  BY Lists
<1>4. /\ running' \in Runs /\ running'.phase = phase /\ running'.todo = todo
      /\ running'.script = running.script /\ running'.by = running.by
      /\ running'.arg = running.arg /\ finished' = finished
  BY <1>1, <1>2, <1>3 DEF Proceed, Runs
<1>5. ~Idle'
  <2>1. running'.script \in Scripts /\ "none" \notin Scripts
    BY <1>4 DEF Runs, Scripts
  <2> QED
    BY <2>1 DEF Idle, Nothing
<1>6. Nothing' = Nothing
  BY DEF Nothing
<1>7. RunFits'
  BY <1>1, <1>4, <1>6 DEF RunFits
<1> QED
  BY <1>1, <1>4, <1>5, <1>7 DEF Moves

LEMMA TheItem ==
    ASSUME RunFits, running.phase \in Listed
    PROVE  /\ running.todo \in SUBSET Nat /\ running.todo # {}
           /\ running.todo \subseteq ListOf(running.phase)
           /\ Item \in running.todo /\ \A n \in running.todo : Item <= n
<1>1. running.todo \in SUBSET Nat
  BY DEF RunFits, Runs
<1>2. running.todo # {} /\ running.todo \subseteq ListOf(running.phase)
  BY Lists DEF RunFits
<1> QED
  BY <1>1, <1>2, LeastItem DEF Item

LEMMA TakingItem ==
    ASSUME RunFits, started' = started, running.phase \in Listed, NextItem
    PROVE  TakesItem
<1>1. /\ running.todo \in SUBSET Nat /\ running.todo # {}
      /\ running.todo \subseteq ListOf(running.phase)
      /\ Item \in running.todo /\ \A n \in running.todo : Item <= n
  BY TheItem
<1>2. CASE running.todo = {Item}
  BY <1>1, <1>2 DEF NextItem, TakesItem, Succeed, Completes
<1>3. CASE running.todo # {Item}
  <2> DEFINE rest == running.todo \ {Item}
  <2>1. Proceed(running.phase, rest) /\ rest # {}
    BY <1>1, <1>3 DEF NextItem
  <2>2. rest \subseteq ListOf(running.phase)
    BY <1>1
  <2>3. running.phase \in PhasesOf(running.script)
    BY DEF RunFits
  <2> HIDE DEF rest
  <2>4. Moves(running.phase, rest)
    BY <2>1, <2>2, <2>3, Moving
  <2> QED
    BY <1>1, <1>3, <2>4 DEF TakesItem, rest
<1> QED
  BY <1>2, <1>3

(* What each statement does with the script under way. *)
LEMMA Stages ==
    /\ PhasesOf("grades") = {"level"} /\ PhasesOf("user") = {"account"}
    /\ PhasesOf("users-bulk") = {"lookup", "slot"}
    /\ PhasesOf("test-scenarios") = {"case"}
    /\ PhasesOf("from-logs") = {"sample", "log case"}
    /\ PhasesOf("dashboard") = {"tutor", "student", "wipe", "class", "enrolments",
                               "sessions", "tuitions", "wipe notes", "notes"}
    /\ PhasesOf("curriculum-demo") = {"demo grade", "demo tutor", "demo part"}
    /\ PhasesOf("edu-flow") = {"flow grade", "login", "flow part"}
    /\ PhasesOf("recreate-db") = {"list", "drop", "push", "account"}
  BY DEF PhasesOf

LEMMA Underway ==
    ASSUME SeedType, ~Idle
    PROVE  /\ RunFits /\ finished = Nothing /\ running.script \in Scripts
           /\ running.phase \in PhasesOf(running.script)
           /\ running.phase \in Steps
  BY DEF SeedType, RunFits, Runs

LEMMA Working ==
    ASSUME SeedType, NEW phase \in Steps, running.phase = phase
    PROVE  /\ ~Idle /\ RunFits /\ finished = Nothing /\ running.script \in Scripts
           /\ phase \in PhasesOf(running.script)
<1>1. "none" \notin Steps
  BY DEF Steps
<1>2. ~Idle
  BY <1>1 DEF Idle, Nothing
<1> QED
  BY <1>2, Underway

LEMMA Lengths ==
    /\ DOMAIN DemoParts = 1 .. 8 /\ DOMAIN FlowParts = 1 .. 6
    /\ DOMAIN Tables = 1 .. 7
  BY DEF DemoParts, FlowParts, Tables

LEMMA MissingTableMoves ==
    ASSUME SeedType, MissingTable
    PROVE  /\ ~Idle /\ RunFits /\ BreaksOff
           /\ UNCHANGED <<started, kills, year, tables, rows, logs>>
<1>1. ~Idle /\ Throw /\ UNCHANGED <<tables, rows>> /\ Aside
  BY DEF MissingTable
<1>2. RunFits /\ finished = Nothing
  BY <1>1, Underway
<1> QED
  BY <1>1, <1>2 DEF Throw, BreaksOff, Aside

LEMMA SeedLevelMoves ==
    ASSUME SeedType, SeedLevel
    PROVE  /\ ~Idle /\ RunFits /\ running.phase = "level" /\ TakesItem
           /\ UNCHANGED <<started, kills, year, logs>>
<1>1. running.phase = "level" /\ NextItem /\ Aside
  BY DEF SeedLevel, At
<1>2. ~Idle /\ RunFits
  BY <1>1, Working DEF Steps
<1>3. "level" \in Listed
  BY DEF Listed
<1> QED
  BY <1>1, <1>2, <1>3, TakingItem DEF Aside

LEMMA SeedAccountMoves ==
    ASSUME SeedType, SeedAccount
    PROVE  /\ ~Idle /\ RunFits /\ running.phase = "account" /\ TakesItem
           /\ UNCHANGED <<started, kills, year, logs>>
<1>1. running.phase = "account" /\ NextItem /\ Aside
  BY DEF SeedAccount, At
<1>2. ~Idle /\ RunFits
  BY <1>1, Working DEF Steps
<1>3. "account" \in Listed
  BY DEF Listed
<1> QED
  BY <1>1, <1>2, <1>3, TakingItem DEF Aside

LEMMA SeedSlotMoves ==
    ASSUME SeedType, SeedSlot
    PROVE  /\ ~Idle /\ RunFits /\ running.phase = "slot" /\ TakesItem
           /\ UNCHANGED <<started, kills, year, logs>>
<1>1. running.phase = "slot" /\ NextItem /\ Aside
  BY DEF SeedSlot, At
<1>2. ~Idle /\ RunFits
  BY <1>1, Working DEF Steps
<1>3. "slot" \in Listed
  BY DEF Listed
<1> QED
  BY <1>1, <1>2, <1>3, TakingItem DEF Aside

LEMMA SeedCaseMoves ==
    ASSUME SeedType, SeedCase
    PROVE  /\ ~Idle /\ RunFits /\ running.phase = "case" /\ TakesItem
           /\ UNCHANGED <<started, kills, year, logs>>
<1>1. running.phase = "case" /\ NextItem /\ Aside
  BY DEF SeedCase, At
<1>2. ~Idle /\ RunFits
  BY <1>1, Working DEF Steps
<1>3. "case" \in Listed
  BY DEF Listed
<1> QED
  BY <1>1, <1>2, <1>3, TakingItem DEF Aside

LEMMA SeedLogCaseMoves ==
    ASSUME SeedType, SeedLogCase
    PROVE  /\ ~Idle /\ RunFits /\ running.phase = "log case" /\ TakesItem
           /\ UNCHANGED <<started, kills, year, logs>>
<1>1. running.phase = "log case" /\ NextItem /\ Aside
  BY DEF SeedLogCase, At
<1>2. ~Idle /\ RunFits
  BY <1>1, Working DEF Steps
<1>3. "log case" \in Listed
  BY DEF Listed
<1> QED
  BY <1>1, <1>2, <1>3, TakingItem DEF Aside

LEMMA PostFlowPartMoves ==
    ASSUME SeedType, PostFlowPart
    PROVE  /\ ~Idle /\ RunFits /\ running.phase = "flow part" /\ TakesItem
           /\ UNCHANGED <<started, kills, year, logs>>
<1>1. running.phase = "flow part" /\ NextItem /\ Aside
  BY DEF PostFlowPart, At
<1>2. ~Idle /\ RunFits
  BY <1>1, Working DEF Steps
<1>3. "flow part" \in Listed
  BY DEF Listed
<1> QED
  BY <1>1, <1>2, <1>3, TakingItem DEF Aside

LEMMA DashboardTutorMoves ==
    ASSUME SeedType, DashboardTutor
    PROVE  /\ ~Idle /\ RunFits /\ running.phase = "tutor"
           /\ running.script = "dashboard" /\ Moves("student", 1 .. NumStudents)
           /\ UNCHANGED <<started, kills, year, logs>>
<1>1. running.phase = "tutor" /\ Proceed("student", 1 .. NumStudents) /\ Aside
  BY DEF DashboardTutor, At
<1>2. ~Idle /\ RunFits /\ running.script = "dashboard"
  BY <1>1, Working, ScriptOfPhase DEF Steps
<1>3. "student" \in PhasesOf(running.script)
  BY <1>2, Stages
<1>4. 1 .. NumStudents \subseteq ListOf("student") /\ (1 .. NumStudents = {} => ListOf("student") = {})
  BY Lists
<1> QED
  BY <1>1, <1>2, <1>3, <1>4, Moving DEF Aside

LEMMA WipeClassesMoves ==
    ASSUME SeedType, WipeClasses
    PROVE  /\ ~Idle /\ RunFits /\ running.phase = "wipe"
           /\ running.script = "dashboard" /\ Moves("class", 1 .. NumClasses)
           /\ UNCHANGED <<started, kills, year, logs>>
<1>1. running.phase = "wipe" /\ Proceed("class", 1 .. NumClasses) /\ Aside
  BY DEF WipeClasses, At
<1>2. ~Idle /\ RunFits /\ running.script = "dashboard"
  BY <1>1, Working, ScriptOfPhase DEF Steps
<1>3. "class" \in PhasesOf(running.script)
  BY <1>2, Stages
<1>4. 1 .. NumClasses \subseteq ListOf("class") /\ (1 .. NumClasses = {} => ListOf("class") = {})
  BY Lists
<1> QED
  BY <1>1, <1>2, <1>3, <1>4, Moving DEF Aside

LEMMA WipeNotesMoves ==
    ASSUME SeedType, WipeNotes
    PROVE  /\ ~Idle /\ RunFits /\ running.phase = "wipe notes"
           /\ running.script = "dashboard" /\ Moves("notes", {})
           /\ UNCHANGED <<started, kills, year, logs>>
<1>1. running.phase = "wipe notes" /\ Proceed("notes", {}) /\ Aside
  BY DEF WipeNotes, At
<1>2. ~Idle /\ RunFits /\ running.script = "dashboard"
  BY <1>1, Working, ScriptOfPhase DEF Steps
<1>3. "notes" \in PhasesOf(running.script)
  BY <1>2, Stages
<1>4. {} \subseteq ListOf("notes") /\ ({} = {} => ListOf("notes") = {})
  BY Lists DEF Listed
<1> QED
  BY <1>1, <1>2, <1>3, <1>4, Moving DEF Aside

LEMMA DemoGradeMoves ==
    ASSUME SeedType, DemoGrade
    PROVE  /\ ~Idle /\ RunFits /\ running.phase = "demo grade"
           /\ running.script = "curriculum-demo" /\ Moves("demo tutor", {})
           /\ UNCHANGED <<started, kills, year, logs>>
<1>1. running.phase = "demo grade" /\ Proceed("demo tutor", {}) /\ Aside
  BY DEF DemoGrade, At
<1>2. ~Idle /\ RunFits /\ running.script = "curriculum-demo"
  BY <1>1, Working, ScriptOfPhase DEF Steps
<1>3. "demo tutor" \in PhasesOf(running.script)
  BY <1>2, Stages
<1>4. {} \subseteq ListOf("demo tutor") /\ ({} = {} => ListOf("demo tutor") = {})
  BY Lists DEF Listed
<1> QED
  BY <1>1, <1>2, <1>3, <1>4, Moving DEF Aside

LEMMA InsertClassMoves ==
    ASSUME SeedType, InsertClass
    PROVE  /\ ~Idle /\ RunFits /\ running.phase = "class"
           /\ running.script = "dashboard" /\ Moves("enrolments", running.todo)
           /\ UNCHANGED <<started, kills, year, logs>>
<1>1. running.phase = "class" /\ Proceed("enrolments", running.todo) /\ Aside
  BY DEF InsertClass, At
<1>2. ~Idle /\ RunFits /\ running.script = "dashboard"
  BY <1>1, Working, ScriptOfPhase DEF Steps
<1>3. "enrolments" \in PhasesOf(running.script)
  BY <1>2, Stages
<1>4. /\ running.todo \subseteq ListOf("enrolments")
      /\ running.todo = {} => ListOf("enrolments") = {}
  <2>1. "class" \in Listed /\ ListOf("class") = ListOf("enrolments")
    BY Lists DEF Listed, AllParts
  <2> QED
    BY <1>1, <1>2, <2>1, TheItem
<1> QED
  BY <1>1, <1>2, <1>3, <1>4, Moving DEF Aside

LEMMA LookUpSlotsMoves ==
    ASSUME SeedType, LookUpSlots
    PROVE  /\ ~Idle /\ RunFits /\ running.phase = "lookup"
           /\ running.script = "users-bulk"
           /\ IF FreeSlots = {} THEN Completes ELSE Moves("slot", FreeSlots)
           /\ UNCHANGED <<started, kills, year, logs>>
<1>1. running.phase = "lookup" /\ Aside
  BY DEF LookUpSlots, At
<1>2. ~Idle /\ RunFits /\ running.script = "users-bulk"
  BY <1>1, Working, ScriptOfPhase DEF Steps
<1>3. "slot" \in PhasesOf(running.script) /\ FreeSlots \subseteq ListOf("slot")
  BY <1>2, Stages, Lists DEF FreeSlots
<1>4. CASE FreeSlots = {}
  BY <1>1, <1>2, <1>4 DEF LookUpSlots, Succeed, Completes, Aside
<1>5. CASE FreeSlots # {}
  <2>1. Proceed("slot", FreeSlots)
    BY <1>5 DEF LookUpSlots
  <2> QED
    BY <1>1, <1>2, <1>3, <1>5, <2>1, Moving DEF Aside
<1> QED
  BY <1>4, <1>5

LEMMA SampleLogsMoves ==
    ASSUME SeedType, SampleLogs, NEW usable, usable = Usable(running.arg)
    PROVE  /\ ~Idle /\ RunFits /\ running.phase = "sample"
           /\ running.script = "from-logs"
           /\ IF usable = {} THEN Completes ELSE Moves("log case", usable)
           /\ UNCHANGED <<started, kills, year, logs>>
<1>1. running.phase = "sample" /\ Aside
  BY DEF SampleLogs, At
<1>2. ~Idle /\ RunFits /\ running.script = "from-logs"
  BY <1>1, Working, ScriptOfPhase DEF Steps
<1>3. "log case" \in PhasesOf(running.script) /\ usable \subseteq ListOf("log case")
  BY <1>2, Stages, Lists DEF Usable, Logged
<1>4. CASE usable = {}
  BY <1>1, <1>2, <1>4 DEF SampleLogs, Succeed, Completes, Aside
<1>5. CASE usable # {}
  <2>1. Proceed("log case", usable)
    BY <1>5 DEF SampleLogs
  <2> QED
    BY <1>1, <1>2, <1>3, <1>5, <2>1, Moving DEF Aside
<1> QED
  BY <1>4, <1>5

LEMMA DashboardStudentMoves ==
    ASSUME SeedType, DashboardStudent
    PROVE  /\ ~Idle /\ RunFits /\ running.phase = "student"
           /\ running.script = "dashboard" /\ Item \in running.todo
           /\ IF running.todo = {Item} THEN Moves("wipe", {})
              ELSE Moves("student", running.todo \ {Item})
           /\ UNCHANGED <<started, kills, year, logs>>
<1>1. running.phase = "student" /\ Aside
  BY DEF DashboardStudent, At
<1>2. ~Idle /\ RunFits /\ running.script = "dashboard"
  BY <1>1, Working, ScriptOfPhase DEF Steps
<1>3. /\ "wipe" \in PhasesOf(running.script) /\ "student" \in PhasesOf(running.script)
      /\ ListOf("wipe") = {} /\ "student" \in Listed
  BY <1>2, Stages, Lists DEF Listed
<1>4. running.todo \subseteq ListOf("student") /\ Item \in running.todo
  BY <1>1, <1>2, <1>3, TheItem
<1>5. CASE running.todo = {Item}
  <2>1. Proceed("wipe", {})
    BY <1>5 DEF DashboardStudent
  <2> QED
    BY <1>1, <1>2, <1>3, <1>4, <1>5, <2>1, Moving DEF Aside
<1>6. CASE running.todo # {Item}
  <2> DEFINE rest == running.todo \ {Item}
  <2>1. Proceed("student", rest)
    BY <1>6 DEF DashboardStudent
  <2>2. rest \subseteq ListOf("student") /\ rest # {}
    BY <1>4, <1>6
  <2> HIDE DEF rest
  <2>3. Moves("student", rest)
    BY <1>1, <1>2, <1>3, <2>1, <2>2, Moving DEF Aside
  <2> QED
    BY <1>1, <1>2, <1>4, <1>6, <2>3 DEF Aside, rest
<1> QED
  BY <1>5, <1>6

LEMMA InsertClassPartMoves ==
    ASSUME SeedType, InsertClassPart
    PROVE  /\ ~Idle /\ RunFits /\ running.phase \in AllParts
           /\ running.script = "dashboard" /\ Item \in running.todo
           /\ \A n \in running.todo : Item <= n
           /\ running.phase = "enrolments" => Moves("sessions", running.todo)
           /\ running.phase = "sessions" => Moves("tuitions", running.todo)
           /\ running.phase = "tuitions" =>
                 IF running.todo # {Item}
                 THEN Moves("class", running.todo \ {Item})
                 ELSE Moves("wipe notes", {})
           /\ UNCHANGED <<started, kills, year, logs>>
<1> DEFINE next == running.todo \ {Item}
<1>1. running.phase \in Range(ClassParts) /\ Aside
  BY DEF InsertClassPart
<1>2. ClassParts = <<"enrolments", "sessions", "tuitions">> /\ DOMAIN ClassParts = 1 .. 3
  BY DEF ClassParts
<1>3. /\ ClassParts[1] = "enrolments" /\ ClassParts[2] = "sessions"
      /\ ClassParts[3] = "tuitions"
  BY <1>2
<1>4. running.phase \in AllParts
  BY <1>1, <1>2, <1>3 DEF Range, AllParts
<1>5. ~Idle /\ RunFits /\ running.script = "dashboard" /\ running.phase \in Listed
  BY <1>4, Working, ScriptOfPhase DEF Steps, AllParts, Listed
<1>6. /\ running.todo \in SUBSET (1 .. NumClasses) /\ running.todo # {}
      /\ Item \in running.todo /\ \A n \in running.todo : Item <= n
  BY <1>4, <1>5, TheItem, Lists
<1>7. /\ {"sessions", "tuitions", "class", "wipe notes"} \subseteq PhasesOf(running.script)
      /\ ListOf("sessions") = 1 .. NumClasses /\ ListOf("tuitions") = 1 .. NumClasses
      /\ ListOf("class") = 1 .. NumClasses /\ ListOf("wipe notes") = {}
  BY <1>5, Stages, Lists DEF AllParts, Listed
<1> HIDE DEF next
<1>8. PICK i \in DOMAIN ClassParts :
         /\ ClassParts[i] = running.phase
         /\ \/ i < 3 /\ Proceed(ClassParts[i + 1], running.todo)
            \/ i = 3 /\ running.todo # {Item} /\ Proceed("class", running.todo \ {Item})
            \/ i = 3 /\ running.todo = {Item} /\ Proceed("wipe notes", {})
  BY Zenon DEF InsertClassPart
<1>9. i \in {1, 2, 3} /\ 1 + 1 = 2 /\ 2 + 1 = 3 /\ 1 < 3 /\ 2 < 3 /\ ~(3 < 3)
  BY <1>2
<1>10. CASE i = 1
  <2>1. running.phase = "enrolments" /\ Proceed("sessions", running.todo)
    BY <1>3, <1>8, <1>9, <1>10
  <2>2. Moves("sessions", running.todo)
    BY <1>1, <1>5, <1>6, <1>7, <2>1, Moving DEF Aside
  <2> QED
    BY <1>1, <1>4, <1>5, <1>6, <2>1, <2>2 DEF Aside
<1>11. CASE i = 2
  <2>1. running.phase = "sessions" /\ Proceed("tuitions", running.todo)
    BY <1>3, <1>8, <1>9, <1>11
  <2>2. Moves("tuitions", running.todo)
    BY <1>1, <1>5, <1>6, <1>7, <2>1, Moving DEF Aside
  <2> QED
    BY <1>1, <1>4, <1>5, <1>6, <2>1, <2>2 DEF Aside
<1>12. CASE i = 3
  <2>1. running.phase = "tuitions"
    BY <1>3, <1>8, <1>12
  <2>2. CASE running.todo # {Item}
    <3>1. Proceed("class", next)
      BY <1>8, <1>9, <1>12, <2>2 DEF next
    <3>2. next \subseteq ListOf("class") /\ next # {}
      BY <1>6, <1>7, <2>2 DEF next
    <3>3. Moves("class", next)
      BY <1>1, <1>5, <1>7, <3>1, <3>2, Moving DEF Aside
    <3> QED
      BY <1>1, <1>4, <1>5, <1>6, <2>1, <2>2, <3>3 DEF Aside, next
  <2>3. CASE running.todo = {Item}
    <3>1. Proceed("wipe notes", {})
      BY <1>8, <1>9, <1>12, <2>3
    <3>2. Moves("wipe notes", {})
      BY <1>1, <1>5, <1>7, <3>1, Moving DEF Aside
    <3> QED
      BY <1>1, <1>4, <1>5, <1>6, <2>1, <2>3, <3>2 DEF Aside
  <2> QED
    BY <2>2, <2>3
<1> QED
  BY <1>9, <1>10, <1>11, <1>12

LEMMA InsertNotesMoves ==
    ASSUME SeedType, InsertNotes
    PROVE  /\ ~Idle /\ RunFits /\ running.phase = "notes" /\ running.script = "dashboard"
           /\ Completes /\ UNCHANGED <<started, kills, year, logs>>
<1>1. running.phase = "notes" /\ Succeed /\ Aside
  BY DEF InsertNotes, At
<1>2. ~Idle /\ RunFits /\ running.script = "dashboard"
  BY <1>1, Working, ScriptOfPhase DEF Steps
<1> QED
  BY <1>1, <1>2 DEF Aside, Succeed, Completes

LEMMA DemoTutorMoves ==
    ASSUME SeedType, DemoTutor
    PROVE  /\ ~Idle /\ RunFits /\ running.phase = "demo tutor"
           /\ running.script = "curriculum-demo"
           /\ BreaksOff \/ Moves("demo part", 1 .. 8)
           /\ UNCHANGED <<started, kills, year, logs>>
<1>1. running.phase = "demo tutor" /\ Aside /\ (Throw \/ Proceed("demo part", 1 .. 8))
  BY Lengths DEF DemoTutor, At
<1>2. ~Idle /\ RunFits /\ running.script = "curriculum-demo" /\ finished = Nothing
  BY <1>1, Working, ScriptOfPhase DEF Steps
<1>3. "demo part" \in PhasesOf(running.script)
  BY <1>2, Stages
<1>4. 1 .. 8 \subseteq ListOf("demo part") /\ (1 .. 8 = {} => ListOf("demo part") = {})
  BY Lists DEF Listed
<1>5. Throw => BreaksOff
  BY <1>2 DEF Throw, BreaksOff
<1> QED
  BY <1>1, <1>2, <1>3, <1>4, <1>5, Moving DEF Aside

LEMMA FlowGradeMoves ==
    ASSUME SeedType, FlowGrade
    PROVE  /\ ~Idle /\ RunFits /\ running.phase = "flow grade"
           /\ running.script = "edu-flow"
           /\ BreaksOff \/ Moves("login", {})
           /\ UNCHANGED <<started, kills, year, logs>>
<1>1. running.phase = "flow grade" /\ Aside /\ (Throw \/ Proceed("login", {}))
  BY Lengths DEF FlowGrade, At
<1>2. ~Idle /\ RunFits /\ running.script = "edu-flow" /\ finished = Nothing
  BY <1>1, Working, ScriptOfPhase DEF Steps
<1>3. "login" \in PhasesOf(running.script)
  BY <1>2, Stages
<1>4. {} \subseteq ListOf("login") /\ ({} = {} => ListOf("login") = {})
  BY Lists DEF Listed
<1>5. Throw => BreaksOff
  BY <1>2 DEF Throw, BreaksOff
<1> QED
  BY <1>1, <1>2, <1>3, <1>4, <1>5, Moving DEF Aside

LEMMA LoginMoves ==
    ASSUME SeedType, Login
    PROVE  /\ ~Idle /\ RunFits /\ running.phase = "login"
           /\ running.script = "edu-flow"
           /\ BreaksOff \/ Moves("flow part", 1 .. 6)
           /\ UNCHANGED <<started, kills, year, logs>>
<1>1. running.phase = "login" /\ Aside /\ (Throw \/ Proceed("flow part", 1 .. 6))
  BY Lengths DEF Login, At
<1>2. ~Idle /\ RunFits /\ running.script = "edu-flow" /\ finished = Nothing
  BY <1>1, Working, ScriptOfPhase DEF Steps
<1>3. "flow part" \in PhasesOf(running.script)
  BY <1>2, Stages
<1>4. 1 .. 6 \subseteq ListOf("flow part") /\ (1 .. 6 = {} => ListOf("flow part") = {})
  BY Lists DEF Listed
<1>5. Throw => BreaksOff
  BY <1>2 DEF Throw, BreaksOff
<1> QED
  BY <1>1, <1>2, <1>3, <1>4, <1>5, Moving DEF Aside

LEMMA InsertDemoPartMoves ==
    ASSUME SeedType, InsertDemoPart
    PROVE  /\ ~Idle /\ RunFits /\ running.phase = "demo part"
           /\ running.script = "curriculum-demo"
           /\ IF EmailTaken(Part) THEN BreaksOff ELSE TakesItem
           /\ UNCHANGED <<started, kills, year, logs>>
<1>1. /\ running.phase = "demo part" /\ Aside
      /\ IF EmailTaken(Part) THEN Throw ELSE NextItem
  BY DEF InsertDemoPart
<1>2. ~Idle /\ RunFits /\ running.script = "curriculum-demo" /\ finished = Nothing
  BY <1>1, Working, ScriptOfPhase DEF Steps
<1>3. Throw => BreaksOff
  BY <1>2 DEF Throw, BreaksOff
<1>4. "demo part" \in Listed
  BY DEF Listed
<1> QED
  BY <1>1, <1>2, <1>3, <1>4, TakingItem DEF Aside

(* The tables that ListTables finds. *)
Left == {i \in 1 .. 7 : Tables[i] \in tables}

LEMMA ListTablesMoves ==
    ASSUME SeedType, ListTables
    PROVE  /\ ~Idle /\ RunFits /\ running.phase = "list"
           /\ running.script = "recreate-db"
           /\ IF Left = {} THEN Moves("push", {}) ELSE Moves("drop", Left)
           /\ UNCHANGED <<started, kills, year, logs>>
<1>1. /\ running.phase = "list" /\ Aside
      /\ IF Left = {} THEN Proceed("push", {}) ELSE Proceed("drop", Left)
  BY Lengths DEF ListTables, Left
<1>2. ~Idle /\ RunFits /\ running.script = "recreate-db"
  BY <1>1, Working, ScriptOfPhase DEF Steps
<1>3. /\ "push" \in PhasesOf(running.script) /\ ListOf("push") = {}
      /\ "drop" \in PhasesOf(running.script) /\ Left \subseteq ListOf("drop")
  BY <1>2, Stages, Lists DEF Listed, Left
<1> QED
  BY <1>1, <1>2, <1>3, Moving DEF Aside

LEMMA DropTableMoves ==
    ASSUME SeedType, DropTable
    PROVE  /\ ~Idle /\ RunFits /\ running.phase = "drop"
           /\ running.script = "recreate-db"
           /\ Item \in running.todo /\ running.todo \subseteq 1 .. 7
           /\ \A n \in running.todo : Item <= n
           /\ IF running.todo = {Item} THEN Moves("push", {})
              ELSE Moves("drop", running.todo \ {Item})
           /\ UNCHANGED <<started, kills, year>>
<1>1. running.phase = "drop" /\ UNCHANGED <<started, kills, year>>
  BY DEF DropTable
<1>2. ~Idle /\ RunFits /\ running.script = "recreate-db"
  BY <1>1, Working, ScriptOfPhase DEF Steps
<1>3. /\ "push" \in PhasesOf(running.script) /\ ListOf("push") = {}
      /\ "drop" \in PhasesOf(running.script) /\ ListOf("drop") = 1 .. 7
      /\ "drop" \in Listed
  BY <1>2, Stages, Lists DEF Listed
<1>4. /\ running.todo \subseteq 1 .. 7 /\ Item \in running.todo
      /\ \A n \in running.todo : Item <= n
  BY <1>1, <1>2, <1>3, TheItem
<1>5. CASE running.todo = {Item}
  <2>1. Proceed("push", {})
    BY <1>5 DEF DropTable
  <2> QED
    BY <1>1, <1>2, <1>3, <1>4, <1>5, <2>1, Moving
<1>6. CASE running.todo # {Item}
  <2> DEFINE rest == running.todo \ {Item}
  <2>1. Proceed("drop", rest)
    BY <1>6 DEF DropTable
  <2>2. rest \subseteq ListOf("drop") /\ rest # {}
    BY <1>3, <1>4, <1>6
  <2> HIDE DEF rest
  <2>3. Moves("drop", rest)
    BY <1>1, <1>2, <1>3, <2>1, <2>2, Moving
  <2> QED
    BY <1>1, <1>2, <1>4, <1>6, <2>3 DEF rest
<1> QED
  BY <1>5, <1>6

LEMMA PushSchemaMoves ==
    ASSUME SeedType, PushSchema
    PROVE  /\ ~Idle /\ RunFits /\ running.phase = "push"
           /\ running.script = "recreate-db" /\ Moves("account", 1 .. NumAccounts)
           /\ UNCHANGED <<started, kills, year, logs>>
<1>1. running.phase = "push" /\ Proceed("account", 1 .. NumAccounts) /\ Aside
  BY DEF PushSchema
<1>2. ~Idle /\ RunFits /\ running.script = "recreate-db"
  BY <1>1, Working, ScriptOfPhase DEF Steps
<1>3. "account" \in PhasesOf(running.script)
  BY <1>2, Stages
<1>4. 1 .. NumAccounts \subseteq ListOf("account") /\ (1 .. NumAccounts = {} => ListOf("account") = {})
  BY Lists
<1> QED
  BY <1>1, <1>2, <1>3, <1>4, Moving DEF Aside

-----------------------------------------------------------------------------
(* The well-formedness of a run. *)
Stepped ==
    /\ started' = started /\ kills' = kills /\ year' = year
    /\ tables' \subseteq Range(Tables)
    /\ logs' \in [1 .. NumSamples -> {"none", "whole", "unusable"}]

LEMMA MovedKeepsType ==
    ASSUME SeedType, Stepped, RunFits,
           BreaksOff \/ Completes \/ TakesItem \/ \E p, t : Moves(p, t)
    PROVE  SeedType'
<1>1. (Idle \/ RunFits)' /\ (finished = Nothing \/ finished \in Runs)'
  <2>1. CASE BreaksOff
    BY <2>1 DEF BreaksOff, Idle, Nothing
  <2>2. CASE Completes
    BY <2>2 DEF Completes, Idle, Nothing, RunFits
  <2>3. CASE \E p, t : Moves(p, t)
    BY <2>3 DEF Moves, Nothing
  <2> QED
    BY <2>1, <2>2, <2>3 DEF TakesItem
<1> QED
  BY <1>1 DEF SeedType, Stepped

LEMMA TablesOnly ==
    ScriptStep =>
        /\ \/ tables' = tables
           \/ DropTable /\ tables' = tables \ {Tables[Item]}
           \/ PushSchema /\ tables' = Range(Tables)
        /\ \/ logs' = logs
           \/ DropTable /\ logs' = [k \in DOMAIN logs |-> "none"]
<1> SUFFICES ASSUME ScriptStep
             PROVE  /\ \/ tables' = tables
                       \/ DropTable /\ tables' = tables \ {Tables[Item]}
                       \/ PushSchema /\ tables' = Range(Tables)
                    /\ \/ logs' = logs
                       \/ DropTable /\ logs' = [k \in DOMAIN logs |-> "none"]
  OBVIOUS
<1>1. CASE DropTable
  BY <1>1 DEF DropTable
<1>2. CASE PushSchema
  BY <1>2 DEF PushSchema, Aside
<1>3. CASE ~DropTable /\ ~PushSchema
  <2>1. tables' = tables /\ Aside
    BY <1>3, Zenon DEF ScriptStep, MissingTable, SeedLevel, SeedAccount, LookUpSlots,
       SeedSlot, SeedCase, SampleLogs, SeedLogCase, DashboardTutor,
       DashboardStudent, WipeClasses, InsertClass, InsertClassPart, WipeNotes,
       InsertNotes, DemoGrade, DemoTutor, InsertDemoPart, FlowGrade, Login,
       PostFlowPart, ListTables
  <2> QED
    BY <2>1 DEF Aside
<1> QED
  BY <1>1, <1>2, <1>3

LEMMA ScriptStepKeepsType ==
    ASSUME SeedType, ScriptStep
    PROVE  /\ SeedType' /\ ~Idle /\ RunFits
           /\ started' = started /\ kills' = kills /\ year' = year
<1> DEFINE Goes == /\ ~Idle /\ RunFits /\ UNCHANGED <<started, kills, year>>
                   /\ BreaksOff \/ Completes \/ TakesItem \/ \E p, t : Moves(p, t)
<1>1. ASSUME MissingTable PROVE Goes
  BY <1>1, MissingTableMoves
<1>2. ASSUME SeedLevel PROVE Goes
  BY <1>2, SeedLevelMoves
<1>3. ASSUME SeedAccount PROVE Goes
  BY <1>3, SeedAccountMoves
<1>4. ASSUME LookUpSlots PROVE Goes
  BY <1>4, LookUpSlotsMoves
<1>5. ASSUME SeedSlot PROVE Goes
  BY <1>5, SeedSlotMoves
<1>6. ASSUME SeedCase PROVE Goes
  BY <1>6, SeedCaseMoves
<1>7. ASSUME SampleLogs PROVE Goes
  <2>1. PICK usable : usable = Usable(running.arg)
    OBVIOUS
  <2> QED
    BY <1>7, <2>1, SampleLogsMoves
<1>8. ASSUME SeedLogCase PROVE Goes
  BY <1>8, SeedLogCaseMoves
<1>9. ASSUME DashboardTutor PROVE Goes
  BY <1>9, DashboardTutorMoves
<1>10. ASSUME DashboardStudent PROVE Goes
  BY <1>10, DashboardStudentMoves
<1>11. ASSUME WipeClasses PROVE Goes
  BY <1>11, WipeClassesMoves
<1>12. ASSUME InsertClass PROVE Goes
  BY <1>12, InsertClassMoves
<1>13. ASSUME InsertClassPart PROVE Goes
  <2>1. CASE running.phase = "enrolments"
    BY <1>13, <2>1, InsertClassPartMoves
  <2>2. CASE running.phase = "sessions"
    BY <1>13, <2>2, InsertClassPartMoves
  <2>3. CASE running.phase = "tuitions"
    BY <1>13, <2>3, InsertClassPartMoves
  <2> QED
    BY <1>13, <2>1, <2>2, <2>3, InsertClassPartMoves DEF AllParts
<1>14. ASSUME WipeNotes PROVE Goes
  BY <1>14, WipeNotesMoves
<1>15. ASSUME InsertNotes PROVE Goes
  BY <1>15, InsertNotesMoves
<1>16. ASSUME DemoGrade PROVE Goes
  BY <1>16, DemoGradeMoves
<1>17. ASSUME DemoTutor PROVE Goes
  BY <1>17, DemoTutorMoves
<1>18. ASSUME InsertDemoPart PROVE Goes
  BY <1>18, InsertDemoPartMoves
<1>19. ASSUME FlowGrade PROVE Goes
  BY <1>19, FlowGradeMoves
<1>20. ASSUME Login PROVE Goes
  BY <1>20, LoginMoves
<1>21. ASSUME PostFlowPart PROVE Goes
  BY <1>21, PostFlowPartMoves
<1>22. ASSUME ListTables PROVE Goes
  BY <1>22, ListTablesMoves
<1>23. ASSUME DropTable PROVE Goes
  BY <1>23, DropTableMoves
<1>24. ASSUME PushSchema PROVE Goes
  BY <1>24, PushSchemaMoves
<1>25. Goes
  BY <1>1, <1>2, <1>3, <1>4, <1>5, <1>6, <1>7, <1>8,
     <1>9, <1>10, <1>11, <1>12, <1>13, <1>14, <1>15, <1>16,
     <1>17, <1>18, <1>19, <1>20, <1>21, <1>22, <1>23, <1>24 DEF ScriptStep
<1>26. tables' \subseteq Range(Tables)
  BY TablesOnly DEF SeedType
<1>27. logs' \in [1 .. NumSamples -> {"none", "whole", "unusable"}]
  BY TablesOnly DEF SeedType
<1> QED
  BY <1>25, <1>26, <1>27, MovedKeepsType DEF Stepped

(* The first phase of each script, and the steps between scripts. *)
FirstPhases == {"level", "account", "lookup", "case", "sample", "tutor",
                "demo grade", "flow grade", "list"}

LEMMA FirstFits ==
    ASSUME NEW script \in Scripts
    PROVE  /\ FirstPhase(script) \in FirstPhases
           /\ FirstPhase(script) \in PhasesOf(script)
           /\ FirstList(script) = ListOf(FirstPhase(script))
           /\ FirstPhase(script) = "account" => script = "user"
<1>1. CASE script \in {"grades", "user", "test-scenarios"}
  BY <1>1, Stages, Lists DEF FirstPhase, FirstList, FirstPhases, Cases
<1>2. CASE script \in {"users-bulk", "from-logs", "dashboard"}
  BY <1>2, Stages, Lists DEF FirstPhase, FirstList, FirstPhases, Listed
<1>3. CASE script \in {"curriculum-demo", "edu-flow", "recreate-db"}
  BY <1>3, Stages, Lists DEF FirstPhase, FirstList, FirstPhases, Listed
<1> QED
  BY <1>1, <1>2, <1>3 DEF Scripts

Begins(script) ==
    /\ Idle /\ ~Idle' /\ started' = started + 1 /\ running'.by = started'
    /\ running'.script = script /\ running'.phase = FirstPhase(script)
    /\ running'.todo = ListOf(FirstPhase(script)) /\ finished' = Nothing
    /\ UNCHANGED <<kills, year, tables, users, grades, scenarios, classes,
                   notes, courses, logs>>

LEMMA Starting ==
    ASSUME SeedType, NEW script \in Scripts, Start(script)
    PROVE  SeedType' /\ Begins(script) /\ started \in Nat
<1>1. /\ started \in Nat /\ started + 1 \in Nat /\ started + 1 \in 0 .. MaxStarts
      /\ started + 1 # 0
  BY Counts DEF SeedType, Start
<1>2. PICK arg : /\ arg \in (CASE script = "dashboard" -> Tutors
                               [] script = "curriculum-demo" -> Suffixes
                               [] script = "from-logs" -> Limits
                               [] OTHER -> {0})
                 /\ running' = [script |-> script, by |-> started + 1,
                      phase |-> FirstPhase(script), todo |-> FirstList(script),
                      arg |-> arg]
  BY DEF Start
<1>3. arg \in Nat
  <2>1. CASE script = "dashboard"
    BY <1>2, <2>1, Counts
  <2>2. CASE script = "curriculum-demo"
    BY <1>2, <2>2, Counts
  <2>3. CASE script = "from-logs"
    BY <1>2, <2>3, Counts
  <2>4. CASE script \notin {"dashboard", "curriculum-demo", "from-logs"}
    BY <1>2, <2>4
  <2> QED
    BY <2>1, <2>2, <2>3, <2>4
<1>4. /\ FirstPhase(script) \in Steps /\ FirstList(script) \in SUBSET Nat
      /\ FirstPhase(script) \in PhasesOf(script)
      /\ FirstList(script) = ListOf(FirstPhase(script))
  BY FirstFits, Lists DEF Steps, FirstPhases
<1>5. /\ running' \in Runs /\ running'.by = started + 1 /\ running'.script = script
      /\ running'.phase = FirstPhase(script)
      /\ running'.todo = ListOf(FirstPhase(script))
  BY <1>1, <1>2, <1>3, <1>4 DEF Runs
<1>6. /\ Idle /\ started' = started + 1 /\ finished' = Nothing
      /\ UNCHANGED <<kills, year, tables, users, grades, scenarios, classes,
                     notes, courses, logs>>
  BY DEF Start, rows
<1>7. ~Idle'
  <2>1. "none" \notin Scripts
    BY DEF Scripts
  <2> QED
    BY <1>5, <2>1 DEF Idle, Nothing
<1>8. RunFits'
  BY <1>1, <1>4, <1>5, <1>6 DEF RunFits, Nothing
<1>9. SeedType'
  BY <1>1, <1>6, <1>8 DEF SeedType, Nothing
<1> QED
  BY <1>1, <1>5, <1>6, <1>7, <1>9 DEF Begins

LEMMA KillKeepsType ==
    ASSUME SeedType, Kill
    PROVE  /\ SeedType' /\ BreaksOff /\ started' = started
           /\ UNCHANGED <<tables, users, grades, scenarios, classes, notes,
                          courses, logs>>
<1>1. ~Idle /\ running' = Nothing /\ finished = Nothing
  BY Underway DEF Kill
<1>2. kills + 1 \in 0 .. MaxKills /\ kills' = kills + 1
  BY Counts DEF SeedType, Kill
<1>3. UNCHANGED <<finished, started, year, tables, users, grades, scenarios,
                  classes, notes, courses, logs>>
  BY DEF Kill, rows
<1> QED
  BY <1>1, <1>2, <1>3 DEF SeedType, BreaksOff, Idle, Nothing

(* What happens while no script runs; finished may be forgotten. *)
Waits ==
    /\ Idle /\ running' = running /\ started' = started
    /\ (finished' = finished /\ logs' = logs) \/ finished' = Nothing
    /\ UNCHANGED <<tables, users, grades, scenarios, classes, notes, courses>>

LEMMA Waiting ==
    ASSUME SeedType, NewYear \/ \E k \in 1 .. NumSamples : Traffic(k)
    PROVE  SeedType' /\ Waits
<1>1. CASE NewYear
  <2>1. year + 1 \in 1 .. MaxYear /\ year' = year + 1
    BY <1>1, Counts DEF SeedType, NewYear
  <2>2. Idle /\ UNCHANGED <<running, finished, started, kills, tables, users,
                 grades, scenarios, classes, notes, courses, logs>>
    BY <1>1 DEF NewYear, rows
  <2> QED
    BY <2>1, <2>2 DEF SeedType, Waits, Idle, Nothing
<1>2. CASE \E k \in 1 .. NumSamples : Traffic(k)
  <2>1. PICK k \in 1 .. NumSamples : Traffic(k)
    BY <1>2
  <2>2. logs' \in [1 .. NumSamples -> {"none", "whole", "unusable"}]
    BY <2>1 DEF SeedType, Traffic
  <2>3. Idle /\ finished' = Nothing /\ UNCHANGED <<running, started, kills, year,
                 tables, users, grades, scenarios, classes, notes, courses>>
    BY <2>1 DEF Traffic, rows
  <2> QED
    BY <2>2, <2>3 DEF SeedType, Waits, Idle, Nothing
<1> QED
  BY <1>1, <1>2

(* Which phase follows which, and which statement a phase is about.  A     *)
(* script that ends while it does not break off completes.                 *)
Follows(p, q) ==
    \/ p = q /\ p \in {"level", "account", "slot", "case", "log case", "student",
                       "demo part", "flow part", "drop"}
    \/ p = "lookup" /\ q = "slot"
    \/ p = "sample" /\ q = "log case"
    \/ p = "tutor" /\ q = "student"
    \/ p = "student" /\ q = "wipe"
    \/ p = "wipe" /\ q = "class"
    \/ p = "class" /\ q = "enrolments"
    \/ p = "enrolments" /\ q = "sessions"
    \/ p = "sessions" /\ q = "tuitions"
    \/ p = "tuitions" /\ q \in {"class", "wipe notes"}
    \/ p = "wipe notes" /\ q = "notes"
    \/ p = "demo grade" /\ q = "demo tutor"
    \/ p = "demo tutor" /\ q = "demo part"
    \/ p = "flow grade" /\ q = "login"
    \/ p = "login" /\ q = "flow part"
    \/ p = "list" /\ q \in {"push", "drop"}
    \/ p = "drop" /\ q = "push"
    \/ p = "push" /\ q = "account"

Onward ==
    /\ started' = started
    /\ BreaksOff \/ Completes \/ (/\ ~Idle' /\ finished' = Nothing /\ RunFits'
                                  /\ running'.script = running.script
                                  /\ running'.by = running.by
                                  /\ running'.arg = running.arg
                                  /\ Follows(running.phase, running'.phase))

LEMMA Order ==
    /\ Follows("level", "level") /\ Follows("account", "account")
    /\ Follows("lookup", "slot") /\ Follows("slot", "slot")
    /\ Follows("case", "case") /\ Follows("sample", "log case")
    /\ Follows("log case", "log case") /\ Follows("tutor", "student")
    /\ Follows("student", "student") /\ Follows("student", "wipe")
    /\ Follows("wipe", "class") /\ Follows("class", "enrolments")
    /\ Follows("enrolments", "sessions") /\ Follows("sessions", "tuitions")
    /\ Follows("tuitions", "class") /\ Follows("tuitions", "wipe notes")
    /\ Follows("wipe notes", "notes") /\ Follows("demo grade", "demo tutor")
    /\ Follows("demo tutor", "demo part") /\ Follows("demo part", "demo part")
    /\ Follows("flow grade", "login") /\ Follows("login", "flow part")
    /\ Follows("flow part", "flow part") /\ Follows("list", "push")
    /\ Follows("list", "drop") /\ Follows("drop", "drop")
    /\ Follows("drop", "push") /\ Follows("push", "account")
  BY DEF Follows

LEMMA MovedOnward ==
    ASSUME started' = started, NEW phase, NEW todo, Moves(phase, todo),
           Follows(running.phase, phase)
    PROVE  Onward
  BY DEF Onward, Moves

LEMMA EndedOnward == started' = started /\ (BreaksOff \/ Completes) => Onward
  BY DEF Onward

LEMMA TookOnward ==
    ASSUME started' = started, TakesItem, Follows(running.phase, running.phase)
    PROVE  Onward
  BY MovedOnward, EndedOnward DEF TakesItem

LEMMA StepsOnward ==
    ASSUME SeedType, ScriptStep
    PROVE  Onward
<1>1. ASSUME MissingTable PROVE Onward
  BY <1>1, MissingTableMoves, EndedOnward
<1>2. ASSUME SeedLevel PROVE Onward
  <2>1. Follows(running.phase, running.phase)
    BY <1>2, SeedLevelMoves, Order
  <2> QED
    BY <1>2, <2>1, SeedLevelMoves, TookOnward, EndedOnward
<1>3. ASSUME SeedAccount PROVE Onward
  <2>1. Follows(running.phase, running.phase)
    BY <1>3, SeedAccountMoves, Order
  <2> QED
    BY <1>3, <2>1, SeedAccountMoves, TookOnward, EndedOnward
<1>4. ASSUME LookUpSlots PROVE Onward
  <2>1. Follows(running.phase, "slot")
    BY <1>4, LookUpSlotsMoves, Order
  <2> QED
    BY <1>4, <2>1, LookUpSlotsMoves, MovedOnward, EndedOnward
<1>5. ASSUME SeedSlot PROVE Onward
  <2>1. Follows(running.phase, running.phase)
    BY <1>5, SeedSlotMoves, Order
  <2> QED
    BY <1>5, <2>1, SeedSlotMoves, TookOnward, EndedOnward
<1>6. ASSUME SeedCase PROVE Onward
  <2>1. Follows(running.phase, running.phase)
    BY <1>6, SeedCaseMoves, Order
  <2> QED
    BY <1>6, <2>1, SeedCaseMoves, TookOnward, EndedOnward
<1>7. ASSUME SampleLogs PROVE Onward
  <2>1. Follows(running.phase, "log case")
    BY <1>7, SampleLogsMoves, Order
  <2> QED
    BY <1>7, <2>1, SampleLogsMoves, MovedOnward, EndedOnward
<1>8. ASSUME SeedLogCase PROVE Onward
  <2>1. Follows(running.phase, running.phase)
    BY <1>8, SeedLogCaseMoves, Order
  <2> QED
    BY <1>8, <2>1, SeedLogCaseMoves, TookOnward, EndedOnward
<1>9. ASSUME DashboardTutor PROVE Onward
  <2>1. Follows(running.phase, "student")
    BY <1>9, DashboardTutorMoves, Order
  <2> QED
    BY <1>9, <2>1, DashboardTutorMoves, MovedOnward, EndedOnward
<1>10. ASSUME DashboardStudent PROVE Onward
  <2>1. Follows(running.phase, "student") /\ Follows(running.phase, "wipe")
    BY <1>10, DashboardStudentMoves, Order
  <2> QED
    BY <1>10, <2>1, DashboardStudentMoves, MovedOnward, EndedOnward
<1>11. ASSUME WipeClasses PROVE Onward
  <2>1. Follows(running.phase, "class")
    BY <1>11, WipeClassesMoves, Order
  <2> QED
    BY <1>11, <2>1, WipeClassesMoves, MovedOnward, EndedOnward
<1>12. ASSUME InsertClass PROVE Onward
  <2>1. Follows(running.phase, "enrolments")
    BY <1>12, InsertClassMoves, Order
  <2> QED
    BY <1>12, <2>1, InsertClassMoves, MovedOnward, EndedOnward
<1>13. ASSUME InsertClassPart PROVE Onward
  <2>1. /\ running.phase = "enrolments" => Follows(running.phase, "sessions")
        /\ running.phase = "sessions" => Follows(running.phase, "tuitions")
        /\ running.phase = "tuitions" => /\ Follows(running.phase, "class")
                                        /\ Follows(running.phase, "wipe notes")
    BY Order
  <2>2. CASE running.phase = "enrolments"
    BY <1>13, <2>1, <2>2, InsertClassPartMoves, MovedOnward
  <2>3. CASE running.phase = "sessions"
    BY <1>13, <2>1, <2>3, InsertClassPartMoves, MovedOnward
  <2>4. CASE running.phase = "tuitions"
    BY <1>13, <2>1, <2>4, InsertClassPartMoves, MovedOnward
  <2> QED
    BY <1>13, <2>2, <2>3, <2>4, InsertClassPartMoves DEF AllParts
<1>14. ASSUME WipeNotes PROVE Onward
  <2>1. Follows(running.phase, "notes")
    BY <1>14, WipeNotesMoves, Order
  <2> QED
    BY <1>14, <2>1, WipeNotesMoves, MovedOnward, EndedOnward
<1>15. ASSUME InsertNotes PROVE Onward
  BY <1>15, InsertNotesMoves, EndedOnward
<1>16. ASSUME DemoGrade PROVE Onward
  <2>1. Follows(running.phase, "demo tutor")
    BY <1>16, DemoGradeMoves, Order
  <2> QED
    BY <1>16, <2>1, DemoGradeMoves, MovedOnward, EndedOnward
<1>17. ASSUME DemoTutor PROVE Onward
  <2>1. Follows(running.phase, "demo part")
    BY <1>17, DemoTutorMoves, Order
  <2> QED
    BY <1>17, <2>1, DemoTutorMoves, MovedOnward, EndedOnward
<1>18. ASSUME InsertDemoPart PROVE Onward
  <2>1. Follows(running.phase, running.phase)
    BY <1>18, InsertDemoPartMoves, Order
  <2> QED
    BY <1>18, <2>1, InsertDemoPartMoves, TookOnward, EndedOnward
<1>19. ASSUME FlowGrade PROVE Onward
  <2>1. Follows(running.phase, "login")
    BY <1>19, FlowGradeMoves, Order
  <2> QED
    BY <1>19, <2>1, FlowGradeMoves, MovedOnward, EndedOnward
<1>20. ASSUME Login PROVE Onward
  <2>1. Follows(running.phase, "flow part")
    BY <1>20, LoginMoves, Order
  <2> QED
    BY <1>20, <2>1, LoginMoves, MovedOnward, EndedOnward
<1>21. ASSUME PostFlowPart PROVE Onward
  <2>1. Follows(running.phase, running.phase)
    BY <1>21, PostFlowPartMoves, Order
  <2> QED
    BY <1>21, <2>1, PostFlowPartMoves, TookOnward, EndedOnward
<1>22. ASSUME ListTables PROVE Onward
  <2>1. Follows(running.phase, "push") /\ Follows(running.phase, "drop")
    BY <1>22, ListTablesMoves, Order
  <2> QED
    BY <1>22, <2>1, ListTablesMoves, MovedOnward, EndedOnward
<1>23. ASSUME DropTable PROVE Onward
  <2>1. Follows(running.phase, "drop") /\ Follows(running.phase, "push")
    BY <1>23, DropTableMoves, Order
  <2> QED
    BY <1>23, <2>1, DropTableMoves, MovedOnward, EndedOnward
<1>24. ASSUME PushSchema PROVE Onward
  <2>1. Follows(running.phase, "account")
    BY <1>24, PushSchemaMoves, Order
  <2> QED
    BY <1>24, <2>1, PushSchemaMoves, MovedOnward, EndedOnward
<1> QED
  BY <1>1, <1>2, <1>3, <1>4, <1>5, <1>6, <1>7, <1>8,
     <1>9, <1>10, <1>11, <1>12, <1>13, <1>14, <1>15, <1>16,
     <1>17, <1>18, <1>19, <1>20, <1>21, <1>22, <1>23, <1>24 DEF ScriptStep

StatementOfPhase ==
    \/ MissingTable
    \/ running.phase = "level" /\ SeedLevel
    \/ running.phase = "account" /\ SeedAccount
    \/ running.phase = "lookup" /\ LookUpSlots
    \/ running.phase = "slot" /\ SeedSlot
    \/ running.phase = "case" /\ SeedCase
    \/ running.phase = "sample" /\ SampleLogs
    \/ running.phase = "log case" /\ SeedLogCase
    \/ running.phase = "tutor" /\ DashboardTutor
    \/ running.phase = "student" /\ DashboardStudent
    \/ running.phase = "wipe" /\ WipeClasses
    \/ running.phase = "class" /\ InsertClass
    \/ running.phase \in AllParts /\ InsertClassPart
    \/ running.phase = "wipe notes" /\ WipeNotes
    \/ running.phase = "notes" /\ InsertNotes
    \/ running.phase = "demo grade" /\ DemoGrade
    \/ running.phase = "demo tutor" /\ DemoTutor
    \/ running.phase = "demo part" /\ InsertDemoPart
    \/ running.phase = "flow grade" /\ FlowGrade
    \/ running.phase = "login" /\ Login
    \/ running.phase = "flow part" /\ PostFlowPart
    \/ running.phase = "list" /\ ListTables
    \/ running.phase = "drop" /\ DropTable
    \/ running.phase = "push" /\ PushSchema

LEMMA StepOfPhase ==
    ASSUME SeedType, ScriptStep
    PROVE  StatementOfPhase
<1>1. ASSUME SeedLevel PROVE StatementOfPhase
  BY <1>1, SeedLevelMoves DEF StatementOfPhase
<1>2. ASSUME SeedAccount PROVE StatementOfPhase
  BY <1>2, SeedAccountMoves DEF StatementOfPhase
<1>3. ASSUME LookUpSlots PROVE StatementOfPhase
  BY <1>3, LookUpSlotsMoves DEF StatementOfPhase
<1>4. ASSUME SeedSlot PROVE StatementOfPhase
  BY <1>4, SeedSlotMoves DEF StatementOfPhase
<1>5. ASSUME SeedCase PROVE StatementOfPhase
  BY <1>5, SeedCaseMoves DEF StatementOfPhase
<1>6. ASSUME SampleLogs PROVE StatementOfPhase
  BY <1>6, SampleLogsMoves DEF StatementOfPhase
<1>7. ASSUME SeedLogCase PROVE StatementOfPhase
  BY <1>7, SeedLogCaseMoves DEF StatementOfPhase
<1>8. ASSUME DashboardTutor PROVE StatementOfPhase
  BY <1>8, DashboardTutorMoves DEF StatementOfPhase
<1>9. ASSUME DashboardStudent PROVE StatementOfPhase
  BY <1>9, DashboardStudentMoves DEF StatementOfPhase
<1>10. ASSUME WipeClasses PROVE StatementOfPhase
  BY <1>10, WipeClassesMoves DEF StatementOfPhase
<1>11. ASSUME InsertClass PROVE StatementOfPhase
  BY <1>11, InsertClassMoves DEF StatementOfPhase
<1>12. ASSUME InsertClassPart PROVE StatementOfPhase
  BY <1>12, InsertClassPartMoves DEF StatementOfPhase
<1>13. ASSUME WipeNotes PROVE StatementOfPhase
  BY <1>13, WipeNotesMoves DEF StatementOfPhase
<1>14. ASSUME InsertNotes PROVE StatementOfPhase
  BY <1>14, InsertNotesMoves DEF StatementOfPhase
<1>15. ASSUME DemoGrade PROVE StatementOfPhase
  BY <1>15, DemoGradeMoves DEF StatementOfPhase
<1>16. ASSUME DemoTutor PROVE StatementOfPhase
  BY <1>16, DemoTutorMoves DEF StatementOfPhase
<1>17. ASSUME InsertDemoPart PROVE StatementOfPhase
  BY <1>17, InsertDemoPartMoves DEF StatementOfPhase
<1>18. ASSUME FlowGrade PROVE StatementOfPhase
  BY <1>18, FlowGradeMoves DEF StatementOfPhase
<1>19. ASSUME Login PROVE StatementOfPhase
  BY <1>19, LoginMoves DEF StatementOfPhase
<1>20. ASSUME PostFlowPart PROVE StatementOfPhase
  BY <1>20, PostFlowPartMoves DEF StatementOfPhase
<1>21. ASSUME ListTables PROVE StatementOfPhase
  BY <1>21, ListTablesMoves DEF StatementOfPhase
<1>22. ASSUME DropTable PROVE StatementOfPhase
  BY <1>22, DropTableMoves DEF StatementOfPhase
<1>23. ASSUME PushSchema PROVE StatementOfPhase
  BY <1>23, PushSchemaMoves DEF StatementOfPhase
<1>24. ASSUME MissingTable PROVE StatementOfPhase
  BY <1>24 DEF StatementOfPhase
<1> QED
  BY <1>1, <1>2, <1>3, <1>4, <1>5, <1>6, <1>7, <1>8,
     <1>9, <1>10, <1>11, <1>12, <1>13, <1>14, <1>15, <1>16,
     <1>17, <1>18, <1>19, <1>20, <1>21, <1>22, <1>23, <1>24 DEF ScriptStep

(* A step that breaks off, or is taken outside the phases P, ends outside  *)
(* them and completes none of their scripts.                               *)
LEMMA Elsewhere ==
    ASSUME SeedType, ScriptStep, NEW P, NEW S,
           running.phase \notin P \/ MissingTable,
           \A p, q : Follows(p, q) /\ q \in P => p \in P,
           \A script \in S : PhasesOf(script) \subseteq P,
           "none" \notin P, "none" \notin S
    PROVE  running'.phase \notin P /\ finished'.script \notin S
<1>1. Onward /\ RunFits
  BY StepsOnward, ScriptStepKeepsType
<1>2. Nothing.phase = "none" /\ Nothing.script = "none"
  BY DEF Nothing
<1>3. CASE BreaksOff
  BY <1>2, <1>3 DEF BreaksOff
<1>4. CASE running.phase \notin P /\ ~BreaksOff
  <2>1. running.script \notin S
    BY <1>1, <1>4 DEF RunFits
  <2> QED
    BY <1>1, <1>2, <1>4, <2>1 DEF Onward, Completes
<1>5. MissingTable => BreaksOff
  BY MissingTableMoves
<1> QED
  BY <1>3, <1>4, <1>5

LEMMA Catalogue ==
    /\ Tables[1] = "classes" /\ Tables[2] = "curriculums" /\ Tables[3] = "grades"
    /\ Tables[4] = "notifications" /\ Tables[5] = "request_logs"
    /\ Tables[6] = "test_scenarios" /\ Tables[7] = "users"
    /\ Range(Tables) = {"classes", "curriculums", "grades", "notifications",
                        "request_logs", "test_scenarios", "users"}
<1>1. /\ Tables[1] = "classes" /\ Tables[2] = "curriculums" /\ Tables[3] = "grades"
      /\ Tables[4] = "notifications" /\ Tables[5] = "request_logs"
      /\ Tables[6] = "test_scenarios" /\ Tables[7] = "users"
  BY DEF Tables
<1>2. 1 .. 7 = {1, 2, 3, 4, 5, 6, 7}
  OBVIOUS
<1> QED
  BY <1>1, <1>2, Lengths DEF Range

(* A table stays unless it is dropped, and its rows go with it. *)
LEMMA TablesStay ==
    ASSUME SeedType, ScriptStep, NEW table \in tables,
           DropTable => Tables[Item] # table
    PROVE  table \in tables'
<1>1. table \in Range(Tables)
  BY DEF SeedType
<1> QED
  BY <1>1, TablesOnly

(* The number of the run that inserts a row. *)
LEMMA Later ==
    ASSUME SeedType, started' = started \/ started' = started + 1
    PROVE  \A n \in 0 .. started : n \in 0 .. started'
<1>1. started \in Nat
  BY Counts DEF SeedType
<1> QED
  BY <1>1

LEMMA Numbered ==
    ASSUME SeedType
    PROVE  /\ started \in Nat
           /\ ~Idle => running.by = started /\ running.by \in 0 .. started
<1>1. started \in Nat
  BY Counts DEF SeedType
<1>2. ~Idle => running.by = started
  BY DEF SeedType, RunFits
<1> QED
  BY <1>1, <1>2
-----------------------------------------------------------------------------
(* Grades. *)
LEMMA GradesElsewhere ==
    ASSUME SeedType, GradesFit, grades' = grades,
           "grades" \in tables => "grades" \in tables',
           started' = started \/ started' = started + 1,
           running'.phase # "level", finished'.script # "grades"
    PROVE  GradesFit'
<1>1. \A g \in grades : g.by \in 0 .. started'
  BY Later DEF GradesFit
<1> QED
  BY <1>1 DEF GradesFit

LEMMA GradeAdded ==
    ASSUME SeedType, GradesFit, ~Idle, NEW level \in 1 .. NumLevels,
           grades' = IF \E g \in grades : g.level = level THEN grades
                     ELSE grades \union {[level |-> level, by |-> running.by]}
    PROVE  /\ \A g \in grades' : g.by \in 0 .. started /\ g.level \in 1 .. NumLevels
           /\ \A g, h \in grades' : g.level = h.level => g = h
           /\ \A n : HasLevel(n) => HasLevel(n)'
           /\ HasLevel(level)'
<1> DEFINE new == [level |-> level, by |-> running.by]
<1>1. new.level = level /\ new.by = running.by /\ new.by \in 0 .. started
  BY Numbered
<1>2. CASE \E g \in grades : g.level = level
  BY <1>2 DEF GradesFit, HasLevel
<1>3. CASE ~ \E g \in grades : g.level = level
  <2>1. grades' = grades \union {new}
    BY <1>3
  <2> HIDE DEF new
  <2> QED
    BY <1>1, <1>3, <2>1 DEF GradesFit, HasLevel
<1> QED
  BY <1>2, <1>3

LEMMA GradesStep ==
    ASSUME SeedType, GradesFit, ScriptStep PROVE GradesFit'
<1>0. /\ Onward /\ ~Idle /\ started' = started /\ StatementOfPhase
      /\ Nothing.phase = "none" /\ Nothing.script = "none"
  BY StepsOnward, ScriptStepKeepsType, StepOfPhase DEF Nothing
<1>1. CASE SeedLevel
  <2>1. /\ running.phase = "level" /\ TakesItem /\ RunFits
        /\ Item \in 1 .. NumLevels
    BY <1>1, SeedLevelMoves, TheItem, Lists DEF Listed
  <2> PICK item \in 1 .. NumLevels : item = Item
    BY <2>1
  <2>2. "grades" \in tables' \/ grades' = {}
    BY <1>1 DEF SeedLevel, At, PhaseTable
  <2>3. /\ \A g \in grades' : g.by \in 0 .. started' /\ g.level \in 1 .. NumLevels
        /\ \A g, h \in grades' : g.level = h.level => g = h
        /\ \A n : HasLevel(n) => HasLevel(n)'
        /\ HasLevel(item)'
    BY <1>0, <1>1, <2>1, GradeAdded DEF SeedLevel
  <2>4. \A n \in 1 .. NumLevels \ (running.todo \ {Item}) : HasLevel(n)'
    BY <2>1, <2>3 DEF GradesFit
  <2>5. CASE running.todo = {Item}
    <3>1. running'.phase # "level"
      BY <1>0, <2>1, <2>5 DEF TakesItem, Completes
    <3>2. \A n \in 1 .. NumLevels : HasLevel(n)'
      BY <2>4, <2>5
    <3> QED
      BY <2>2, <2>3, <3>1, <3>2 DEF GradesFit
  <2>6. CASE running.todo # {Item}
    <3>1. finished' = Nothing /\ running'.todo = running.todo \ {Item}
      BY <2>1, <2>6 DEF TakesItem, Moves
    <3> QED
      BY <1>0, <2>2, <2>3, <2>4, <3>1 DEF GradesFit
  <2> QED
    BY <2>5, <2>6
<1>2. CASE DemoGrade
  <2>1. "grades" \in tables' \/ grades' = {}
    BY <1>2 DEF DemoGrade, At, PhaseTable
  <2>2. /\ \A g \in grades' : g.by \in 0 .. started' /\ g.level \in 1 .. NumLevels
        /\ \A g, h \in grades' : g.level = h.level => g = h
    BY <1>0, <1>2, Counts, GradeAdded DEF DemoGrade
  <2>3. running'.phase = "demo tutor" /\ finished' = Nothing
    BY <1>2, DemoGradeMoves DEF Moves
  <2> QED
    BY <1>0, <2>1, <2>2, <2>3 DEF GradesFit
<1>3. CASE ~SeedLevel /\ ~DemoGrade /\ ~(DropTable /\ Tables[Item] = "grades")
  <2>1. grades' = grades
    BY <1>0, <1>3, Zenon DEF StatementOfPhase, MissingTable, rows, SeedAccount,
       LookUpSlots, SeedSlot, SeedCase, SampleLogs, SeedLogCase, DashboardTutor,
       DashboardStudent, WipeClasses, InsertClass, InsertClassPart, WipeNotes,
       InsertNotes, DemoTutor, InsertDemoPart, FlowGrade, Login, PostFlowPart,
       ListTables, DropTable, Kept, PushSchema
  <2>2. running.phase # "level" \/ MissingTable
    BY <1>0, <1>3 DEF StatementOfPhase, AllParts
  <2>3. running'.phase # "level" /\ finished'.script # "grades"
    <3> DEFINE P == {"level"}
               S == {"grades"}
    <3>1. \A p, q : Follows(p, q) /\ q \in P => p \in P
      BY DEF Follows
    <3>2. \A script \in S : PhasesOf(script) \subseteq P
      BY Stages
    <3>3. "none" \notin P /\ "none" \notin S /\ (running.phase \notin P \/ MissingTable)
      BY <2>2
    <3>4. running'.phase \notin P /\ finished'.script \notin S
      <4> HIDE DEF P, S
      <4> QED
        BY <3>1, <3>2, <3>3, Elsewhere
    <3> QED
      BY <3>4
  <2>4. "grades" \in tables => "grades" \in tables'
    BY <1>3, TablesStay
  <2> QED
    BY <1>0, <2>1, <2>3, <2>4, GradesElsewhere
<1>4. CASE DropTable /\ Tables[Item] = "grades"
  <2>1. grades' = {}
    BY <1>4 DEF DropTable, Kept
  <2>2. running'.phase \in {"drop", "push"} /\ finished' = Nothing
    BY <1>4, DropTableMoves DEF Moves
  <2> QED
    BY <1>0, <2>1, <2>2 DEF GradesFit
<1> QED
  BY <1>1, <1>2, <1>3, <1>4

LEMMA GradesOtherwise ==
    ASSUME SeedType, GradesFit, SeedType',
           Kill \/ Waits \/ \E script \in Scripts : Begins(script)
    PROVE  GradesFit'
<1>0. Nothing.phase = "none" /\ Nothing.script = "none"
  BY DEF Nothing
<1>1. CASE Kill
  <2>1. grades' = grades /\ tables' = tables /\ started' = started /\ BreaksOff
    BY <1>1, KillKeepsType
  <2> QED
    BY <1>0, <2>1, GradesElsewhere DEF BreaksOff
<1>2. CASE Waits
  <2>1. /\ grades' = grades /\ tables' = tables /\ started' = started
        /\ running' = running /\ (finished' = finished \/ finished' = Nothing)
    BY <1>2 DEF Waits
  <2> QED
    BY <1>0, <2>1 DEF GradesFit, HasLevel
<1>3. CASE \E script \in Scripts : Begins(script)
  <2> PICK script \in Scripts : Begins(script)
    BY <1>3
  <2>1. /\ grades' = grades /\ tables' = tables /\ started' = started + 1
        /\ running'.phase = FirstPhase(script) /\ finished' = Nothing
        /\ running'.todo = ListOf(FirstPhase(script))
    BY DEF Begins
  <2>2. \A g \in grades : g.by \in 0 .. started' /\ g.level \in 1 .. NumLevels
    BY <2>1, Later DEF GradesFit
  <2>3. running'.phase = "level" => 1 .. NumLevels \ running'.todo = {}
    BY <2>1, Lists
  <2> QED
    BY <1>0, <2>1, <2>2, <2>3 DEF GradesFit
<1> QED
  BY <1>1, <1>2, <1>3
-----------------------------------------------------------------------------
(* Scenarios. *)
LEMMA UsableStays ==
    ASSUME logs' = logs, NEW limit PROVE Usable(limit)' = Usable(limit)
BY DEF Usable, Logged

LEMMA ScenariosElsewhere ==
    ASSUME SeedType, ScenariosFit, scenarios' = scenarios,
           "test_scenarios" \in tables => "test_scenarios" \in tables',
           started' = started \/ started' = started + 1,
           running'.phase \notin {"case", "sample", "log case"},
           finished'.script \notin {"test-scenarios", "from-logs"}
    PROVE  ScenariosFit'
<1>1. \A s \in scenarios : s.by \in 0 .. started'
  BY Later DEF ScenariosFit
<1> QED
  BY <1>1 DEF ScenariosFit

LEMMA ScenarioAdded ==
    ASSUME SeedType, ScenariosFit, ~Idle, NEW key, AddScenario(key)
    PROVE  /\ \A s \in scenarios' : s.by \in 0 .. started
           /\ \A s, t \in scenarios' : s.key = t.key => s = t
           /\ \A k : HasKey(k) => HasKey(k)'
           /\ HasKey(key)'
<1> DEFINE new == [key |-> key, by |-> running.by]
<1>1. new.key = key /\ new.by = running.by /\ new.by \in 0 .. started
  BY Numbered
<1>2. CASE \E s \in scenarios : s.key = key
  BY <1>2 DEF ScenariosFit, HasKey, AddScenario
<1>3. CASE ~ \E s \in scenarios : s.key = key
  <2>1. scenarios' = scenarios \union {new}
    BY <1>3 DEF AddScenario
  <2> HIDE DEF new
  <2> QED
    BY <1>1, <1>3, <2>1 DEF ScenariosFit, HasKey
<1> QED
  BY <1>2, <1>3

LEMMA ScenariosStep ==
    ASSUME SeedType, ScenariosFit, ScriptStep PROVE ScenariosFit'
<1>0. /\ Onward /\ ~Idle /\ started' = started /\ StatementOfPhase
      /\ Nothing.phase = "none" /\ Nothing.script = "none"
  BY StepsOnward, ScriptStepKeepsType, StepOfPhase DEF Nothing
<1>1. CASE SeedCase
  <2>1. /\ running.phase = "case" /\ TakesItem /\ RunFits
        /\ Item \in 1 .. NumCases /\ running.script = "test-scenarios"
    BY <1>1, SeedCaseMoves, TheItem, ScriptOfPhase, Lists DEF Listed, RunFits, Runs
  <2> PICK item \in 1 .. NumCases : item = Item
    BY <2>1
  <2>2. "test_scenarios" \in tables' \/ scenarios' = {}
    BY <1>1 DEF SeedCase, At, PhaseTable
  <2>3. /\ \A s \in scenarios' : s.by \in 0 .. started'
        /\ \A s, t \in scenarios' : s.key = t.key => s = t
        /\ \A k : HasKey(k) => HasKey(k)'
        /\ HasKey(<<"case", item>>)'
    BY <1>0, <1>1, <2>1, ScenarioAdded DEF SeedCase
  <2>4. \A n \in 1 .. NumCases \ (running.todo \ {Item}) : HasKey(<<"case", n>>)'
    BY <2>1, <2>3 DEF ScenariosFit
  <2>5. CASE running.todo = {Item}
    <3>1. running'.phase = "none" /\ finished'.script = "test-scenarios"
      BY <1>0, <2>1, <2>5 DEF TakesItem, Completes
    <3>2. \A n \in 1 .. NumCases : HasKey(<<"case", n>>)'
      BY <2>4, <2>5
    <3> QED
      BY <2>2, <2>3, <3>1, <3>2 DEF ScenariosFit
  <2>6. CASE running.todo # {Item}
    <3>1. /\ finished' = Nothing /\ running'.todo = running.todo \ {Item}
          /\ running'.phase = "case"
      BY <2>1, <2>6 DEF TakesItem, Moves
    <3> QED
      BY <1>0, <2>2, <2>3, <2>4, <3>1 DEF ScenariosFit
  <2> QED
    BY <2>5, <2>6
<1>2. CASE SeedLogCase
  <2>1. /\ running.phase = "log case" /\ TakesItem /\ RunFits
        /\ Item \in 1 .. NumSamples /\ running.script = "from-logs"
        /\ logs' = logs
    BY <1>2, SeedLogCaseMoves, TheItem, ScriptOfPhase, Lists DEF Listed, RunFits, Runs
  <2> PICK item \in 1 .. NumSamples : item = Item
    BY <2>1
  <2>2. "test_scenarios" \in tables' \/ scenarios' = {}
    BY <1>2 DEF SeedLogCase, At, PhaseTable
  <2>3. /\ \A s \in scenarios' : s.by \in 0 .. started'
        /\ \A s, t \in scenarios' : s.key = t.key => s = t
        /\ \A k : HasKey(k) => HasKey(k)'
        /\ HasKey(<<"log", item>>)'
    BY <1>0, <1>2, <2>1, ScenarioAdded DEF SeedLogCase
  <2> PICK limit : limit = running.arg
    OBVIOUS
  <2>4. Usable(limit)' = Usable(limit)
    BY <2>1, UsableStays
  <2>5. \A k \in Usable(limit) \ (running.todo \ {Item}) : HasKey(<<"log", k>>)'
    BY <2>1, <2>3 DEF ScenariosFit
  <2>6. CASE running.todo = {Item}
    <3>1. /\ running'.phase = "none" /\ finished'.script = "from-logs"
          /\ finished'.arg = limit
      BY <1>0, <2>1, <2>6 DEF TakesItem, Completes
    <3>2. \A k \in Usable(limit)' : HasKey(<<"log", k>>)'
      BY <2>4, <2>5, <2>6
    <3> QED
      BY <2>2, <2>3, <3>1, <3>2 DEF ScenariosFit
  <2>7. CASE running.todo # {Item}
    <3>1. /\ finished' = Nothing /\ running'.todo = running.todo \ {Item}
          /\ running'.phase = "log case" /\ running'.arg = limit
      BY <2>1, <2>7 DEF TakesItem, Moves
    <3> QED
      BY <1>0, <2>2, <2>3, <2>4, <2>5, <3>1 DEF ScenariosFit
  <2> QED
    BY <2>6, <2>7
<1>3. CASE SampleLogs
  <2> PICK limit : limit = running.arg
    OBVIOUS
  <2> PICK usable : usable = Usable(limit)
    OBVIOUS
  <2>1. /\ scenarios' = scenarios /\ tables' = tables /\ logs' = logs
        /\ running.script = "from-logs"
        /\ IF usable = {} THEN Completes ELSE Moves("log case", usable)
    BY <1>3, SampleLogsMoves DEF SampleLogs, rows, Aside
  <2>2. Usable(limit)' = usable
    BY <2>1, UsableStays
  <2>3. CASE usable = {}
    <3>1. /\ running'.phase = "none" /\ finished'.script = "from-logs"
          /\ finished'.arg = limit
      BY <1>0, <2>1, <2>3 DEF Completes
    <3> QED
      BY <1>0, <2>1, <2>2, <2>3, <3>1 DEF ScenariosFit
  <2>4. CASE usable # {}
    <3>1. /\ finished' = Nothing /\ running'.todo = usable
          /\ running'.phase = "log case" /\ running'.arg = limit
      BY <2>1, <2>4 DEF Moves
    <3> QED
      BY <1>0, <2>1, <2>2, <3>1 DEF ScenariosFit
  <2> QED
    BY <2>3, <2>4
<1>4. CASE /\ ~SeedCase /\ ~SeedLogCase /\ ~SampleLogs
           /\ ~(DropTable /\ Tables[Item] = "test_scenarios")
  <2>1. scenarios' = scenarios
    BY <1>0, <1>4, Zenon DEF StatementOfPhase, MissingTable, rows, SeedLevel,
       SeedAccount, LookUpSlots, SeedSlot, DashboardTutor, DashboardStudent,
       WipeClasses, InsertClass, InsertClassPart, WipeNotes, InsertNotes, DemoGrade,
       DemoTutor, InsertDemoPart, FlowGrade, Login, PostFlowPart, ListTables,
       DropTable, Kept, PushSchema
  <2> DEFINE P == {"case", "sample", "log case"}
             S == {"test-scenarios", "from-logs"}
  <2>2. running.phase \notin P \/ MissingTable
    BY <1>0, <1>4 DEF StatementOfPhase, AllParts
  <2>3. \A p, q : Follows(p, q) /\ q \in P => p \in P
    BY DEF Follows
  <2>4. \A script \in S : PhasesOf(script) \subseteq P
    BY Stages
  <2>5. "none" \notin P /\ "none" \notin S
    OBVIOUS
  <2>6. running'.phase \notin P /\ finished'.script \notin S
    <3> HIDE DEF P, S
    <3> QED
      BY <2>2, <2>3, <2>4, <2>5, Elsewhere
  <2>7. "test_scenarios" \in tables => "test_scenarios" \in tables'
    BY <1>4, TablesStay
  <2> QED
    BY <1>0, <2>1, <2>6, <2>7, ScenariosElsewhere
<1>5. CASE DropTable /\ Tables[Item] = "test_scenarios"
  <2>1. scenarios' = {}
    BY <1>5 DEF DropTable, Kept
  <2>2. running'.phase \in {"drop", "push"} /\ finished' = Nothing
    BY <1>5, DropTableMoves DEF Moves
  <2> QED
    BY <1>0, <2>1, <2>2 DEF ScenariosFit
<1> QED
  BY <1>1, <1>2, <1>3, <1>4, <1>5

LEMMA ScenariosOtherwise ==
    ASSUME SeedType, ScenariosFit, SeedType',
           Kill \/ Waits \/ \E script \in Scripts : Begins(script)
    PROVE  ScenariosFit'
<1>0. Nothing.phase = "none" /\ Nothing.script = "none"
  BY DEF Nothing
<1>1. CASE Kill
  <2>1. scenarios' = scenarios /\ tables' = tables /\ started' = started /\ BreaksOff
    BY <1>1, KillKeepsType
  <2> QED
    BY <1>0, <2>1, ScenariosElsewhere DEF BreaksOff
<1>2. CASE Waits
  <2>1. /\ scenarios' = scenarios /\ tables' = tables /\ started' = started
        /\ running' = Nothing
        /\ (finished' = finished /\ logs' = logs) \/ finished' = Nothing
    BY <1>2 DEF Waits, Idle
  <2>2. CASE finished' = finished /\ logs' = logs
    <3> PICK limit : limit = finished.arg
      OBVIOUS
    <3>1. Usable(limit)' = Usable(limit)
      BY <2>2, UsableStays
    <3> QED
      BY <1>0, <2>1, <2>2, <3>1 DEF ScenariosFit, HasKey
  <2>3. CASE finished' = Nothing
    BY <1>0, <2>1, <2>3 DEF ScenariosFit, HasKey
  <2> QED
    BY <2>1, <2>2, <2>3
<1>3. CASE \E script \in Scripts : Begins(script)
  <2> PICK script \in Scripts : Begins(script)
    BY <1>3
  <2>1. /\ scenarios' = scenarios /\ tables' = tables /\ started' = started + 1
        /\ running'.phase = FirstPhase(script) /\ finished' = Nothing
        /\ running'.todo = ListOf(FirstPhase(script)) /\ logs' = logs
    BY DEF Begins
  <2>2. \A s \in scenarios : s.by \in 0 .. started'
    BY <2>1, Later DEF ScenariosFit
  <2>3. running'.phase = "case" => 1 .. NumCases \ running'.todo = {}
    BY <2>1, Lists
  <2>4. running'.phase # "log case"
    BY <2>1, FirstFits DEF FirstPhases
  <2> QED
    BY <1>0, <2>1, <2>2, <2>3, <2>4 DEF ScenariosFit
<1> QED
  BY <1>1, <1>2, <1>3
-----------------------------------------------------------------------------
(* Users. *)
LEMMA Names ==
    /\ \A m, n : /\ Account(m) # <<"tutor_", n>> /\ Account(m) # <<"dsh.student", n>>
                 /\ Account(m) # <<"tutor of demo", n>>
    /\ \A m, n : /\ <<"slot", m>> # <<"tutor_", n>> /\ <<"slot", m>> # <<"dsh.student", n>>
                 /\ <<"slot", m>> # <<"tutor of demo", n>>
    /\ \A m, n : /\ <<"tutor_", m>> # <<"dsh.student", n>>
                 /\ <<"tutor_", m>> # <<"tutor of demo", n>>
                 /\ <<"dsh.student", m>> # <<"tutor of demo", n>>
    /\ \A m, n : /\ Account(m) = Account(n) => m = n
                 /\ <<"slot", m>> = <<"slot", n>> => m = n
                 /\ <<"tutor_", m>> = <<"tutor_", n>> => m = n
                 /\ <<"dsh.student", m>> = <<"dsh.student", n>> => m = n
  BY DEF Account

LEMMA UsersSame ==
    ASSUME SeedType, UsersFit, users' = users,
           "users" \in tables => "users" \in tables',
           started' = started \/ started' = started + 1
    PROVE  /\ UsersFit'
           /\ \A e : (HasEmail(e) <=> HasEmail(e)') /\ (HasUsername(e) <=> HasUsername(e)')
<1>1. \A u \in users : u.by \in 0 .. started'
  BY Later DEF UsersFit
<1>2. \A e : (HasEmail(e) <=> HasEmail(e)') /\ (HasUsername(e) <=> HasUsername(e)')
  BY DEF HasEmail, HasUsername
<1> QED
  BY <1>1, <1>2 DEF UsersFit

LEMMA UserAdded ==
    ASSUME SeedType, UsersFit, ~Idle, started' = started, "users" \in tables',
           NEW email, NEW name, NEW secret, ~HasEmail(email), ~HasUsername(name),
           users' = users \union {User(email, name, secret, running.by)},
           \A n : /\ name = <<"tutor_", n>> => running.by = n
                  /\ name = <<"dsh.student", n>> => email = name
                  /\ name = <<"tutor of demo", n>> => email = name
    PROVE  /\ UsersFit'
           /\ \A e : HasEmail(e)' <=> HasEmail(e) \/ e = email
           /\ \A e : HasUsername(e)' <=> HasUsername(e) \/ e = name
<1> DEFINE new == User(email, name, secret, running.by)
<1>1. /\ new.email = email /\ new.username = name /\ new.by = running.by
      /\ new.by \in 0 .. started /\ users' = users \union {new}
  BY Numbered DEF User
<1> HIDE DEF new
<1>2. \A u \in users' : u.by \in 0 .. started'
  BY <1>1 DEF UsersFit
<1>3. \A u, v \in users' : u.email = v.email \/ u.username = v.username => u = v
  BY <1>1 DEF UsersFit, HasEmail, HasUsername
<1>4. \A u \in users' : \A n :
          /\ u.username = <<"tutor_", n>> => u.by = n
          /\ u.username = <<"dsh.student", n>> => u.email = u.username
          /\ u.username = <<"tutor of demo", n>> => u.email = u.username
  BY <1>1 DEF UsersFit
<1>5. \A e : HasEmail(e)' <=> HasEmail(e) \/ e = email
  BY <1>1 DEF HasEmail
<1>6. \A e : HasUsername(e)' <=> HasUsername(e) \/ e = name
  BY <1>1 DEF HasUsername
<1> QED
  BY <1>2, <1>3, <1>4, <1>5, <1>6 DEF UsersFit

(* The statements that add a user, each with what it finds beforehand. *)
LEMMA SeedAccountUsers ==
    ASSUME SeedType, UsersFit, SeedAccount, started' = started, ~Idle
    PROVE  /\ UsersFit'
           /\ \A e : (HasEmail(e) => HasEmail(e)') /\ (HasUsername(e) => HasUsername(e)')
           /\ \A n : n = Item => HasEmail(Account(n))' \/ HasUsername(Account(n))'
<1> PICK item : item = Item
  OBVIOUS
<1>1. /\ "users" \in tables /\ tables' = tables
      /\ users' = IF HasEmail(Account(item)) \/ HasUsername(Account(item)) THEN users
                  ELSE users \union {User(Account(item), Account(item), "seed",
                                          running.by)}
  BY DEF SeedAccount, At, PhaseTable
<1>2. CASE HasEmail(Account(item)) \/ HasUsername(Account(item))
  BY <1>1, <1>2, UsersSame
<1>3. CASE ~HasEmail(Account(item)) /\ ~HasUsername(Account(item))
  <2> DEFINE name == Account(item)
  <2>1. \A n : /\ name # <<"tutor_", n>> /\ name # <<"dsh.student", n>>
               /\ name # <<"tutor of demo", n>>
    BY Names
  <2>2. /\ ~HasEmail(name) /\ ~HasUsername(name)
        /\ users' = users \union {User(name, name, "seed", running.by)}
    BY <1>1, <1>3
  <2> HIDE DEF name
  <2>3. /\ UsersFit'
        /\ \A e : HasEmail(e)' <=> HasEmail(e) \/ e = name
        /\ \A e : HasUsername(e)' <=> HasUsername(e) \/ e = name
    BY <1>1, <2>1, <2>2, UserAdded
  <2> QED
    BY <2>3 DEF name
<1> QED
  BY <1>2, <1>3

LEMMA SeedSlotUsers ==
    ASSUME SeedType, UsersFit, UsersDone, SeedSlot, started' = started, ~Idle,
           Item \in running.todo, running.todo \subseteq 1 .. NumSlots
    PROVE  /\ UsersFit'
           /\ \A n \in 1 .. NumSlots :
                 n \in running.todo \ {Item} <=>
                     ~HasEmail(<<"slot", n>>)' /\ ~HasUsername(<<"slot", n>>)'
<1> PICK item : item = Item
  OBVIOUS
<1> DEFINE name == <<"slot", item>>
<1>1. /\ "users" \in tables /\ tables' = tables /\ running.phase = "slot"
      /\ users' = users \union {User(name, name, "bulk", running.by)}
  BY DEF SeedSlot, At, PhaseTable
<1>2. ~HasEmail(name) /\ ~HasUsername(name)
  BY <1>1 DEF UsersDone
<1>3. /\ \A n : name # <<"tutor_", n>> /\ name # <<"dsh.student", n>>
                /\ name # <<"tutor of demo", n>>
      /\ \A n : <<"slot", n>> = name <=> n = item
  BY Names
<1> HIDE DEF name
<1>4. /\ UsersFit'
      /\ \A e : HasEmail(e)' <=> HasEmail(e) \/ e = name
      /\ \A e : HasUsername(e)' <=> HasUsername(e) \/ e = name
  BY <1>1, <1>2, <1>3, UserAdded
<1> QED
  BY <1>1, <1>3, <1>4 DEF UsersDone

LEMMA DashboardTutorUsers ==
    ASSUME SeedType, UsersFit, UsersDone, DashboardTutor, started' = started, ~Idle
    PROVE  UsersFit'
<1> DEFINE name == <<"tutor_", running.by>>
<1> PICK email : email = TutorEmail(running.arg)
  OBVIOUS
<1>1. /\ "users" \in tables /\ tables' = tables /\ running.phase = "tutor"
      /\ users' = IF HasEmail(email) THEN users
                  ELSE users \union {User(email, name, "dashboard", running.by)}
  BY DEF DashboardTutor, At, PhaseTable
<1>2. ~HasUsername(name)
  BY <1>1 DEF UsersDone, UsersFit, HasUsername
<1>3. \A n : /\ name = <<"tutor_", n>> => running.by = n
             /\ name # <<"dsh.student", n>> /\ name # <<"tutor of demo", n>>
  BY Names
<1> HIDE DEF name
<1>4. CASE HasEmail(email)
  BY <1>1, <1>4, UsersSame
<1>5. CASE ~HasEmail(email)
  BY <1>1, <1>2, <1>3, <1>5, UserAdded
<1> QED
  BY <1>4, <1>5

LEMMA DashboardStudentUsers ==
    ASSUME SeedType, UsersFit, DashboardStudent, started' = started, ~Idle
    PROVE  /\ UsersFit'
           /\ \A e : HasEmail(e) => HasEmail(e)'
           /\ \A n : n = Item => HasEmail(<<"dsh.student", n>>)'
<1> PICK item : item = Item
  OBVIOUS
<1> DEFINE name == <<"dsh.student", item>>
<1>1. /\ "users" \in tables /\ tables' = tables
      /\ users' = IF HasEmail(name) THEN users
                  ELSE users \union {User(name, name, "dashboard", running.by)}
  BY DEF DashboardStudent, At, PhaseTable
<1>2. HasUsername(name) => HasEmail(name)
  BY DEF UsersFit, HasUsername, HasEmail
<1>3. \A n : name # <<"tutor_", n>>
  BY Names
<1>4. \A n : n = Item => <<"dsh.student", n>> = name
  OBVIOUS
<1> HIDE DEF name
<1>5. CASE HasEmail(name)
  BY <1>1, <1>4, <1>5, UsersSame
<1>6. CASE ~HasEmail(name)
  <2>1. /\ UsersFit'
        /\ \A e : HasEmail(e)' <=> HasEmail(e) \/ e = name
    BY <1>1, <1>2, <1>3, <1>6, UserAdded
  <2> QED
    BY <1>4, <2>1
<1> QED
  BY <1>5, <1>6

LEMMA DemoTutorUsers ==
    ASSUME SeedType, UsersFit, DemoTutor, started' = started, ~Idle
    PROVE  UsersFit'
<1> DEFINE name == <<"tutor of demo", running.arg>>
<1>1. /\ "users" \in tables /\ tables' = tables
      /\ \/ users' = users
         \/ /\ ~HasEmail(name)
            /\ users' = users \union {User(name, name, "demo", running.by)}
  BY DEF DemoTutor, At, PhaseTable
<1>2. HasUsername(name) => HasEmail(name)
  BY DEF UsersFit, HasUsername, HasEmail
<1>3. \A n : name # <<"tutor_", n>>
  BY Names
<1> HIDE DEF name
<1>4. CASE users' = users
  BY <1>1, <1>4, UsersSame
<1>5. CASE users' # users
  BY <1>1, <1>2, <1>3, <1>5, UserAdded
<1> QED
  BY <1>4, <1>5

(* The phases that are about users, with those that lead to them. *)
UserPhases == PhasesOf("user") \union PhasesOf("users-bulk")
              \union PhasesOf("dashboard") \union PhasesOf("recreate-db")

UserScripts == {"user", "users-bulk", "dashboard", "recreate-db"}

LEMMA UsersElsewhere ==
    ASSUME SeedType, UsersFit, UsersFit', running'.phase \notin UserPhases,
           finished'.script \notin UserScripts
    PROVE  UsersFit' /\ UsersDone' /\ UsersPromised'
<1>1. running'.phase \notin {"tutor", "slot", "account", "student"}
  BY Stages DEF UserPhases
<1>2. running'.phase \notin PhasesOf("dashboard") \ {"tutor", "student"}
  BY DEF UserPhases
<1>3. finished'.script \notin {"user", "users-bulk", "dashboard"}
  BY DEF UserScripts
<1>4. UsersDone'
  BY <1>1, <1>2 DEF UsersDone
<1>5. UsersPromised'
  BY <1>3 DEF UsersPromised
<1> QED
  BY <1>4, <1>5

LEMMA UsersStep ==
    ASSUME SeedType, UsersFit, UsersDone, UsersPromised, ScriptStep
    PROVE  UsersFit' /\ UsersDone' /\ UsersPromised'
<1> DEFINE Goal == UsersFit' /\ UsersDone' /\ UsersPromised'
<1>0. /\ Onward /\ ~Idle /\ started' = started /\ StatementOfPhase
      /\ Nothing.phase = "none" /\ Nothing.script = "none"
  BY StepsOnward, ScriptStepKeepsType, StepOfPhase DEF Nothing
<1>a. finished' = Nothing => UsersPromised'
  BY <1>0 DEF UsersPromised
<1>b. running' = Nothing => UsersDone'
  BY <1>0, Stages DEF UsersDone
<1>1. ASSUME SeedAccount PROVE Goal
  <2>1. /\ running.phase = "account" /\ TakesItem /\ RunFits
        /\ running.todo \subseteq 1 .. NumAccounts
    BY <1>1, SeedAccountMoves, TheItem, Lists DEF Listed
  <2>2. /\ UsersFit'
        /\ \A e : (HasEmail(e) => HasEmail(e)') /\ (HasUsername(e) => HasUsername(e)')
        /\ \A n : n = Item => HasEmail(Account(n))' \/ HasUsername(Account(n))'
    BY <1>0, <1>1, SeedAccountUsers
  <2>3. \A n \in 1 .. NumAccounts \ (running.todo \ {Item}) :
            HasEmail(Account(n))' \/ HasUsername(Account(n))'
    BY <2>1, <2>2 DEF UsersDone
  <2>4. CASE running.todo = {Item}
    <3>1. running' = Nothing /\ finished'.script # "users-bulk" /\ finished'.script # "dashboard"
      BY <2>1, <2>4, Stages DEF TakesItem, Completes, RunFits
    <3>2. \A n \in 1 .. NumAccounts : HasEmail(Account(n))' \/ HasUsername(Account(n))'
      BY <2>3, <2>4
    <3>3. UsersPromised'
      BY <3>1, <3>2 DEF UsersPromised
    <3> QED
      BY <1>b, <2>2, <3>1, <3>3
  <2>5. CASE running.todo # {Item}
    <3>1. /\ running'.phase = "account" /\ running'.todo = running.todo \ {Item}
          /\ finished' = Nothing
      BY <2>1, <2>5 DEF TakesItem, Moves
    <3>2. UsersDone'
      BY <2>3, <3>1, Stages DEF UsersDone
    <3> QED
      BY <1>a, <2>2, <3>1, <3>2
  <2> QED
    BY <2>4, <2>5
<1>2. ASSUME SeedSlot PROVE Goal
  <2>1. /\ running.phase = "slot" /\ TakesItem /\ RunFits
        /\ running.todo \subseteq 1 .. NumSlots
    BY <1>2, SeedSlotMoves, TheItem, Lists DEF Listed
  <2>2. /\ UsersFit'
        /\ \A n \in 1 .. NumSlots :
              n \in running.todo \ {Item} <=>
                  ~HasEmail(<<"slot", n>>)' /\ ~HasUsername(<<"slot", n>>)'
    BY <1>0, <1>2, <2>1, SeedSlotUsers DEF TakesItem
  <2>3. CASE running.todo = {Item}
    <3>1. running' = Nothing /\ finished'.script # "user" /\ finished'.script # "dashboard"
      BY <2>1, <2>3, Stages DEF TakesItem, Completes, RunFits
    <3>2. \A n \in 1 .. NumSlots : HasEmail(<<"slot", n>>)' \/ HasUsername(<<"slot", n>>)'
      BY <2>2, <2>3
    <3>3. UsersPromised'
      BY <3>1, <3>2 DEF UsersPromised
    <3> QED
      BY <1>b, <2>2, <3>1, <3>3
  <2>4. CASE running.todo # {Item}
    <3>1. /\ running'.phase = "slot" /\ running'.todo = running.todo \ {Item}
          /\ finished' = Nothing
      BY <2>1, <2>4 DEF TakesItem, Moves
    <3>2. UsersDone'
      BY <2>2, <3>1, Stages DEF UsersDone
    <3> QED
      BY <1>a, <2>2, <3>1, <3>2
  <2> QED
    BY <2>3, <2>4
<1>3. ASSUME LookUpSlots PROVE Goal
  <2>1. /\ running.script = "users-bulk" /\ users' = users /\ tables' = tables
        /\ IF FreeSlots = {} THEN Completes ELSE Moves("slot", FreeSlots)
    BY <1>3, LookUpSlotsMoves DEF LookUpSlots, rows
  <2>2. /\ UsersFit'
        /\ \A e : (HasEmail(e) <=> HasEmail(e)') /\ (HasUsername(e) <=> HasUsername(e)')
    BY <1>0, <2>1, UsersSame
  <2>3. \A n \in 1 .. NumSlots : n \in FreeSlots <=>
            ~HasEmail(<<"slot", n>>)' /\ ~HasUsername(<<"slot", n>>)'
    BY <2>2 DEF FreeSlots
  <2>4. CASE FreeSlots = {}
    <3>1. running' = Nothing /\ finished'.script = "users-bulk"
      BY <2>1, <2>4 DEF Completes
    <3>2. UsersPromised'
      BY <2>3, <2>4, <3>1 DEF UsersPromised
    <3> QED
      BY <1>b, <2>2, <3>1, <3>2
  <2>5. CASE FreeSlots # {}
    <3>1. running'.phase = "slot" /\ running'.todo = FreeSlots /\ finished' = Nothing
      BY <2>1, <2>5 DEF Moves
    <3>2. UsersDone'
      BY <2>3, <3>1, Stages DEF UsersDone
    <3> QED
      BY <1>a, <2>2, <3>1, <3>2
  <2> QED
    BY <2>4, <2>5
<1>4. ASSUME DashboardTutor PROVE Goal
  <2>1. /\ running'.phase = "student" /\ running'.todo = 1 .. NumStudents
        /\ finished' = Nothing
    BY <1>4, DashboardTutorMoves DEF Moves
  <2>2. UsersDone'
    BY <2>1, Stages DEF UsersDone
  <2> QED
    BY <1>a, <1>0, <1>4, <2>1, <2>2, DashboardTutorUsers
<1>5. ASSUME DashboardStudent PROVE Goal
  <2>1. /\ running.phase = "student" /\ finished' = Nothing
        /\ IF running.todo = {Item} THEN running'.phase = "wipe"
           ELSE running'.phase = "student" /\ running'.todo = running.todo \ {Item}
    BY <1>5, DashboardStudentMoves DEF Moves
  <2>2. /\ UsersFit' /\ \A e : HasEmail(e) => HasEmail(e)'
        /\ \A n : n = Item => HasEmail(<<"dsh.student", n>>)'
    BY <1>0, <1>5, DashboardStudentUsers
  <2>3. \A n \in 1 .. NumStudents \ (running.todo \ {Item}) :
            HasEmail(<<"dsh.student", n>>)'
    BY <2>1, <2>2 DEF UsersDone
  <2>4. running.todo = {Item} => StudentsThere'
    BY <2>3 DEF StudentsThere
  <2>5. UsersDone'
    BY <2>1, <2>3, <2>4 DEF UsersDone
  <2> QED
    BY <1>a, <2>1, <2>2, <2>5
<1>6. ASSUME DemoTutor PROVE Goal
  <2>1. running' = Nothing \/ running'.phase = "demo part"
    BY <1>6, DemoTutorMoves DEF Moves, BreaksOff
  <2>2. finished' = Nothing
    BY <1>6, DemoTutorMoves DEF Moves, BreaksOff
  <2>3. running'.phase \notin UserPhases /\ finished'.script \notin UserScripts
    BY <1>0, <2>1, <2>2, Stages DEF UserPhases, UserScripts
  <2> QED
    BY <1>0, <1>6, <2>3, DemoTutorUsers, UsersElsewhere
<1>7. ASSUME DropTable PROVE Goal
  <2>1. running'.phase \in {"drop", "push"} /\ finished' = Nothing
    BY <1>7, DropTableMoves DEF Moves
  <2>2. UsersDone'
    BY <2>1, Stages DEF UsersDone
  <2>3. CASE Tables[Item] = "users"
    <3>1. users' = {}
      BY <1>7, <2>3 DEF DropTable, Kept
    <3>2. UsersFit'
      BY <3>1 DEF UsersFit
    <3> QED
      BY <1>a, <2>1, <2>2, <3>2
  <2>4. CASE Tables[Item] # "users"
    <3>1. users' = users
      BY <1>7, <2>4 DEF DropTable, Kept
    <3>2. UsersFit'
      BY <1>0, <2>4, <3>1, TablesStay, UsersSame
    <3> QED
      BY <1>a, <2>1, <2>2, <3>2
  <2> QED
    BY <2>3, <2>4
<1>8. ASSUME PushSchema \/ ListTables PROVE Goal
  <2>1. /\ running'.phase = "account" => running'.todo = 1 .. NumAccounts
        /\ running'.phase \in {"account", "push", "drop"} /\ finished' = Nothing
    BY <1>8, PushSchemaMoves, ListTablesMoves DEF Moves
  <2>2. UsersDone'
    BY <2>1, Stages DEF UsersDone
  <2>3. users' = users /\ ("users" \in tables => "users" \in tables')
    BY <1>8, Catalogue DEF PushSchema, ListTables, rows
  <2> QED
    BY <1>0, <1>a, <2>1, <2>2, <2>3, UsersSame
<1>9. ASSUME WipeClasses \/ InsertClass \/ InsertClassPart \/ WipeNotes \/ InsertNotes
      PROVE  Goal
  <2>1. /\ users' = users /\ tables' = tables
        /\ running.phase \in PhasesOf("dashboard") \ {"tutor", "student"}
    <3>1. running.phase \in {"wipe", "class", "wipe notes", "notes"} \union AllParts
      BY <1>9, WipeClassesMoves, InsertClassMoves, InsertClassPartMoves,
         WipeNotesMoves, InsertNotesMoves
    <3>2. users' = users /\ tables' = tables
      BY <1>9, Zenon DEF WipeClasses, InsertClass, InsertClassPart, WipeNotes, InsertNotes
    <3> QED
      BY <3>1, <3>2, Stages DEF AllParts
  <2>2. /\ UsersFit'
        /\ \A e : (HasEmail(e) <=> HasEmail(e)') /\ (HasUsername(e) <=> HasUsername(e)')
    BY <1>0, <2>1, UsersSame
  <2>3. StudentsThere'
    BY <2>1, <2>2 DEF UsersDone, StudentsThere
  <2>4. running.script = "dashboard"
    <3>1. running.phase \in {"wipe", "class", "enrolments", "sessions", "tuitions",
                             "wipe notes", "notes"}
      BY <2>1, Stages
    <3>2. running.script \in Scripts /\ running.phase \in PhasesOf(running.script)
      BY <1>0, Underway
    <3>3. \A phase \in PhasesOf(running.script) :
             phase \in {"wipe", "class", "enrolments", "sessions", "tuitions",
                       "wipe notes", "notes"} => running.script = "dashboard"
      BY <3>2, ScriptOfPhase, Zenon
    <3> QED
      BY <3>1, <3>2, <3>3
  <2>5. UsersPromised'
    BY <1>0, <1>a, <2>3, <2>4 DEF UsersPromised, Onward, BreaksOff, Completes
  <2>6. running'.phase \notin {"slot", "account", "tutor", "student"}
    <3>1. running.phase \notin {"slot", "account", "tutor", "student", "lookup",
                                "push"}
      BY <2>1, Stages
    <3> QED
      BY <1>0, <3>1 DEF Onward, Follows, BreaksOff, Completes
  <2>7. UsersDone'
    BY <2>3, <2>6 DEF UsersDone
  <2> QED
    BY <2>2, <2>5, <2>7
<1>10. CASE /\ ~SeedAccount /\ ~SeedSlot /\ ~LookUpSlots /\ ~DashboardTutor
            /\ ~DashboardStudent /\ ~DemoTutor /\ ~DropTable /\ ~PushSchema
            /\ ~ListTables /\ ~WipeClasses /\ ~InsertClass /\ ~InsertClassPart
            /\ ~WipeNotes /\ ~InsertNotes
  <2>1. users' = users /\ tables' = tables
    BY <1>0, <1>10, Zenon DEF StatementOfPhase, MissingTable, rows, SeedLevel,
       SeedCase, SampleLogs, SeedLogCase, DemoGrade, InsertDemoPart, FlowGrade,
       Login, PostFlowPart
  <2>2. running.phase \notin UserPhases \/ MissingTable
    BY <1>0, <1>10, Stages DEF StatementOfPhase, UserPhases
  <2>3. \A p, q : Follows(p, q) /\ q \in UserPhases => p \in UserPhases
    <3>1. UserPhases = {"account", "lookup", "slot", "tutor", "student", "wipe",
             "class", "enrolments", "sessions", "tuitions", "wipe notes", "notes",
             "list", "drop", "push"}
      BY Stages DEF UserPhases
    <3> QED
      BY <3>1 DEF Follows
  <2>4. \A script \in UserScripts : PhasesOf(script) \subseteq UserPhases
    BY DEF UserPhases, UserScripts
  <2>5. "none" \notin UserPhases /\ "none" \notin UserScripts
    BY Stages DEF UserPhases, UserScripts
  <2>6. running'.phase \notin UserPhases /\ finished'.script \notin UserScripts
    BY <2>2, <2>3, <2>4, <2>5, Elsewhere
  <2>7. UsersFit'
    BY <1>0, <2>1, UsersSame
  <2> QED
    BY <2>6, <2>7, UsersElsewhere
<1> QED
  BY <1>1, <1>2, <1>3, <1>4, <1>5, <1>6, <1>7, <1>8, <1>9, <1>10

LEMMA UsersOtherwise ==
    ASSUME SeedType, UsersFit, UsersDone, UsersPromised, SeedType',
           Kill \/ Waits \/ \E script \in Scripts : Begins(script)
    PROVE  UsersFit' /\ UsersDone' /\ UsersPromised'
<1>0. Nothing.phase = "none" /\ Nothing.script = "none"
  BY DEF Nothing
<1>a. finished' = Nothing => UsersPromised'
  BY <1>0 DEF UsersPromised
<1>b. running' = Nothing => UsersDone'
  BY <1>0, Stages DEF UsersDone
<1>1. CASE Kill
  <2>1. users' = users /\ tables' = tables /\ started' = started /\ BreaksOff
    BY <1>1, KillKeepsType
  <2> QED
    BY <1>a, <1>b, <2>1, UsersSame DEF BreaksOff
<1>2. CASE Waits
  <2>1. /\ users' = users /\ tables' = tables /\ started' = started
        /\ running' = Nothing /\ (finished' = finished \/ finished' = Nothing)
    BY <1>2 DEF Waits, Idle
  <2>2. /\ UsersFit'
        /\ \A e : (HasEmail(e) <=> HasEmail(e)') /\ (HasUsername(e) <=> HasUsername(e)')
    BY <2>1, UsersSame
  <2>3. finished' = finished => UsersPromised'
    BY <2>2 DEF UsersPromised, StudentsThere
  <2> QED
    BY <1>a, <1>b, <2>1, <2>2, <2>3
<1>3. CASE \E script \in Scripts : Begins(script)
  <2> PICK script \in Scripts : Begins(script)
    BY <1>3
  <2>1. /\ users' = users /\ tables' = tables /\ started' = started + 1
        /\ running'.phase = FirstPhase(script) /\ finished' = Nothing
        /\ running'.todo = ListOf(FirstPhase(script)) /\ running'.by = started'
    BY DEF Begins
  <2>2. started \in Nat /\ \A n \in 0 .. started : n # started + 1
    BY Numbered
  <2>3. \A u \in users' : u.by # running'.by
    BY <2>1, <2>2 DEF UsersFit
  <2>4. running'.phase \in FirstPhases
    BY <2>1, FirstFits
  <2>5. running'.phase = "account" => 1 .. NumAccounts \ running'.todo = {}
    BY <2>1, Lists
  <2>6. UsersDone'
    BY <2>3, <2>4, <2>5, Stages DEF UsersDone, FirstPhases
  <2> QED
    BY <1>a, <2>1, <2>6, UsersSame
<1> QED
  BY <1>1, <1>2, <1>3
-----------------------------------------------------------------------------
(* The classes of seed-dashboard. *)
ClassPhases == {"class", "wipe notes", "notes"} \union AllParts

(* What is said of the classes of the script's tutor, by phase. *)
Generation(mine, by, made, open, parts) ==
    /\ {class.num : class \in mine} = made
    /\ \A class \in mine :
          /\ class.by = by
          /\ class.has = IF class.num \in open THEN parts ELSE AllParts

LEMMA GenerationOf ==
    ASSUME ClassesFit
    PROVE  /\ running.phase = "class" =>
                 Generation(Mine(running.arg), running.by,
                            1 .. NumClasses \ running.todo, {}, {})
           /\ running.phase \in {"wipe notes", "notes"} =>
                 Generation(Mine(running.arg), running.by, 1 .. NumClasses, {}, {})
           /\ running.phase \in AllParts => \A item : item = Item =>
                 Generation(Mine(running.arg), running.by,
                            (1 .. NumClasses \ running.todo) \union {item}, {item},
                            PartsBefore(running.phase))
<1>1. CASE running.phase = "class"
  BY <1>1 DEF ClassesFit, ClassesMade, Generation, UnderConstruction, AllParts
<1>2. CASE running.phase \in {"wipe notes", "notes"}
  BY <1>2 DEF ClassesFit, ClassesMade, Generation, UnderConstruction, AllParts
<1>3. CASE running.phase \in AllParts
  BY <1>3 DEF ClassesFit, ClassesMade, Generation, UnderConstruction, AllParts
<1> QED
  BY <1>1, <1>2, <1>3 DEF AllParts

(* Whoever runs, the rows of the classes are in order. *)
ClassesInOrder ==
    /\ classes \subseteq ClassRows
    /\ "classes" \in tables \/ classes = {}
    /\ \A class \in classes : class.by \in 0 .. started
    /\ \A class \in classes : ~Idle /\ class.by = running.by =>
          Seeded(class) /\ class.tutor = running.arg

LEMMA ClassesFrom ==
    ASSUME ClassesInOrder',
           finished'.script = "dashboard" =>
               Generation(Mine(finished.arg)', finished'.by, 1 .. NumClasses, {}, {}),
           running'.phase = "class" =>
               Generation(Mine(running.arg)', running'.by,
                          1 .. NumClasses \ running'.todo, {}, {}),
           running'.phase \in {"wipe notes", "notes"} =>
               Generation(Mine(running.arg)', running'.by, 1 .. NumClasses, {}, {}),
           running'.phase \in AllParts => \E item : item = Item' /\
               Generation(Mine(running.arg)', running'.by,
                          (1 .. NumClasses \ running'.todo) \union {item}, {item},
                          PartsBefore(running'.phase))
    PROVE  ClassesFit'
<1>1. CASE running'.phase = "class"
  BY <1>1 DEF ClassesFit, ClassesInOrder, ClassesMade, Generation, UnderConstruction,
              AllParts
<1>2. CASE running'.phase \in {"wipe notes", "notes"}
  BY <1>2 DEF ClassesFit, ClassesInOrder, ClassesMade, Generation, UnderConstruction,
              AllParts
<1>3. CASE running'.phase \in AllParts
  BY <1>3 DEF ClassesFit, ClassesInOrder, ClassesMade, Generation, UnderConstruction,
              AllParts
<1>4. CASE running'.phase \notin ClassPhases
  BY <1>4 DEF ClassesFit, ClassesInOrder, Generation, ClassPhases
<1> QED
  BY <1>1, <1>2, <1>3, <1>4 DEF ClassPhases

LEMMA OrderKept ==
    ASSUME SeedType, ClassesFit, classes' \subseteq classes, started' = started,
           "classes" \in tables => "classes" \in tables' \/ classes' = {},
           Idle' \/ (~Idle /\ running'.by = running.by /\ running'.arg = running.arg)
    PROVE  ClassesInOrder'
  BY DEF ClassesFit, ClassesInOrder

LEMMA ClassesElsewhere ==
    ASSUME ClassesInOrder', running'.phase \notin ClassPhases,
           finished'.script # "dashboard"
    PROVE  ClassesFit'
<1>1. /\ running'.phase # "class" /\ running'.phase \notin {"wipe notes", "notes"}
      /\ running'.phase \notin AllParts
  BY DEF ClassPhases
<1> QED
  BY <1>1, ClassesFrom

LEMMA WipeClassesFits ==
    ASSUME SeedType, ClassesFit, WipeClasses, started' = started
    PROVE  ClassesFit'
<1>1. /\ running'.phase = "class" /\ running'.todo = 1 .. NumClasses
      /\ finished' = Nothing /\ running'.arg = running.arg /\ running'.by = running.by
      /\ ~Idle
  BY WipeClassesMoves DEF Moves
<1>2. /\ classes' = {class \in classes : ~(Seeded(class) /\ class.tutor = running.arg)}
      /\ tables' = tables
  BY DEF WipeClasses, Wiped
<1>3. Mine(running.arg)' = {}
  BY <1>1, <1>2 DEF Mine
<1>4. Generation(Mine(running.arg)', running'.by, 1 .. NumClasses \ running'.todo, {}, {})
  BY <1>1, <1>3 DEF Generation
<1>5. ClassesInOrder'
  BY <1>1, <1>2, OrderKept
<1>6. /\ finished'.script # "dashboard" /\ running'.phase \notin {"wipe notes", "notes"}
      /\ running'.phase \notin AllParts
  BY <1>1 DEF Nothing, AllParts
<1> QED
  BY <1>4, <1>5, <1>6, ClassesFrom

LEMMA InsertClassFits ==
    ASSUME SeedType, ClassesFit, InsertClass, started' = started
    PROVE  ClassesFit'
<1>1. /\ running.phase = "class" /\ running'.phase = "enrolments"
      /\ running'.todo = running.todo /\ finished' = Nothing /\ ~Idle /\ ~Idle'
      /\ running'.arg = running.arg /\ running'.by = running.by /\ RunFits
  BY InsertClassMoves DEF Moves
<1>2. Item \in running.todo /\ running.todo \subseteq 1 .. NumClasses
  BY <1>1, TheItem, Lists DEF Listed
<1> PICK item \in running.todo : item = Item
  BY <1>2
<1> DEFINE new == [prefix |-> "DSH", year |-> year, tutor |-> running.arg,
                   by |-> running.by, num |-> item, has |-> {}]
<1>3. classes' = classes \union {new} /\ tables' = tables /\ "classes" \in tables
  BY DEF InsertClass, At, PhaseTable
<1>4. /\ new \in ClassRows /\ Seeded(new) /\ new.tutor = running.arg
      /\ new.by = running.by /\ new.num = item /\ new.has = {}
  <2>1. running.arg \in Nat /\ running.by \in Nat /\ year \in Nat /\ item \in Nat
    BY <1>1, <1>2, Counts DEF RunFits, Runs, SeedType
  <2> QED
    BY <2>1 DEF ClassRows, Seeded
<1>5. new.by \in 0 .. started
  BY <1>1, <1>4, Numbered
<1> HIDE DEF new
<1>6. ClassesInOrder'
  BY <1>1, <1>3, <1>4, <1>5 DEF ClassesFit, ClassesInOrder
<1>7. Mine(running.arg)' = Mine(running.arg) \union {new}
  BY <1>1, <1>3, <1>4 DEF Mine
<1>8. Generation(Mine(running.arg), running.by, 1 .. NumClasses \ running.todo, {}, {})
  BY <1>1, GenerationOf
<1>9. PartsBefore("enrolments") = {}
  BY DEF PartsBefore
<1>10. Generation(Mine(running.arg)', running'.by,
                  (1 .. NumClasses \ running'.todo) \union {item}, {item},
                  PartsBefore(running'.phase))
  <2> DEFINE old == Mine(running.arg)
             now == Mine(running.arg)'
             before == 1 .. NumClasses \ running.todo
  <2>1. now = old \union {new} /\ Generation(old, running.by, before, {}, {})
    BY <1>7, <1>8
  <2>2. item \notin before
    OBVIOUS
  <2> HIDE DEF old, now, before
  <2>3. Generation(now, running.by, before \union {item}, {item}, {})
    BY <1>4, <2>1, <2>2 DEF Generation
  <2> QED
    BY <1>1, <1>9, <2>3 DEF now, before
<1>11. Item' = item
  BY <1>1 DEF Item
<1>12. /\ finished'.script # "dashboard" /\ running'.phase \notin {"wipe notes", "notes"}
       /\ running'.phase # "class"
  BY <1>1 DEF Nothing
<1> QED
  BY <1>6, <1>10, <1>11, <1>12, ClassesFrom

(* A class gets one of its parts. *)
Grown(class, by, num, part) ==
    IF class.by = by /\ class.num = num
    THEN [class EXCEPT !.has = @ \union {part}] ELSE class

LEMMA Growing ==
    \A by, num : \A part \in AllParts : \A class \in ClassRows :
        /\ Grown(class, by, num, part) \in ClassRows
        /\ Grown(class, by, num, part).prefix = class.prefix
        /\ Grown(class, by, num, part).tutor = class.tutor
        /\ Grown(class, by, num, part).by = class.by
        /\ Grown(class, by, num, part).num = class.num
        /\ class.by = by /\ class.num = num =>
              Grown(class, by, num, part).has = class.has \union {part}
        /\ class.num # num => Grown(class, by, num, part).has = class.has
  BY DEF Grown, ClassRows

Growth(by, num, part, arg, made) ==
    /\ part \in AllParts /\ classes \subseteq ClassRows
    /\ classes' = {Grown(class, by, num, part) : class \in classes}
    /\ \A class \in classes :
          class.by \in 0 .. started /\ (class.by = by => /\ Seeded(class)
                                                      /\ class.tutor = arg)
    /\ Generation(Mine(arg), by, made, {num}, PartsBefore(part))

HasGrown(by, num, part, arg, made) ==
    /\ classes' \subseteq ClassRows
    /\ \A class \in classes' :
          class.by \in 0 .. started /\ (class.by = by => /\ Seeded(class)
                                                      /\ class.tutor = arg)
    /\ {class.num : class \in Mine(arg)'} = made
    /\ \A class \in Mine(arg)' :
          /\ class.by = by
          /\ class.num = num => class.has = PartsBefore(part) \union {part}
          /\ class.num # num => class.has = AllParts

LEMMA ClassesGrow ==
    ASSUME NEW by, NEW num, NEW part, NEW arg, NEW made,
           Growth(by, num, part, arg, made)
    PROVE  HasGrown(by, num, part, arg, made)
<1>0. /\ part \in AllParts /\ classes \subseteq ClassRows
      /\ classes' = {Grown(class, by, num, part) : class \in classes}
      /\ \A class \in classes :
            class.by \in 0 .. started /\ (class.by = by => /\ Seeded(class)
                                                        /\ class.tutor = arg)
      /\ Generation(Mine(arg), by, made, {num}, PartsBefore(part))
  BY DEF Growth
<1>1. \A class \in classes :
         /\ Grown(class, by, num, part) \in ClassRows
         /\ Grown(class, by, num, part).by = class.by
         /\ Grown(class, by, num, part).tutor = class.tutor
         /\ Seeded(Grown(class, by, num, part)) <=> Seeded(class)
  <2> TAKE class \in classes
  <2>1. class \in ClassRows /\ part \in AllParts
    BY <1>0
  <2>2. Grown(class, by, num, part) \in ClassRows
    BY <2>1, Growing
  <2>3. /\ Grown(class, by, num, part).by = class.by
        /\ Grown(class, by, num, part).tutor = class.tutor
        /\ Grown(class, by, num, part).prefix = class.prefix
    BY <2>1, Growing
  <2> QED
    BY <2>2, <2>3 DEF Seeded
<1>2. Mine(arg)' = {Grown(class, by, num, part) : class \in Mine(arg)}
  BY <1>0, <1>1 DEF Mine
<1>3. Mine(arg) \in SUBSET ClassRows
  BY <1>0 DEF Mine
<1>4. /\ {class.num : class \in Mine(arg)'} = made
      /\ \A class \in Mine(arg)' :
            /\ class.by = by
            /\ class.num = num => class.has = PartsBefore(part) \union {part}
            /\ class.num # num => class.has = AllParts
  <2>1. \A class \in Mine(arg) :
           /\ Grown(class, by, num, part).num = class.num
           /\ Grown(class, by, num, part).by = class.by
           /\ class.by = by /\ class.num = num =>
                 Grown(class, by, num, part).has = class.has \union {part}
           /\ class.num # num => Grown(class, by, num, part).has = class.has
    BY <1>0, <1>3, Growing
  <2>2. /\ {class.num : class \in Mine(arg)} = made
        /\ \A class \in Mine(arg) :
              /\ class.by = by
              /\ class.num = num => class.has = PartsBefore(part)
              /\ class.num # num => class.has = AllParts
    BY <1>0 DEF Generation
  <2>3. \A class \in Mine(arg) :
           /\ Grown(class, by, num, part).num = class.num
           /\ Grown(class, by, num, part).by = by
           /\ class.num = num => Grown(class, by, num, part).has
                                    = PartsBefore(part) \union {part}
           /\ class.num # num => Grown(class, by, num, part).has = AllParts
    BY <2>1, <2>2
  <2>4. {class.num : class \in Mine(arg)'} = {class.num : class \in Mine(arg)}
    BY <1>2, <2>3
  <2> QED
    BY <1>2, <2>2, <2>3, <2>4
<1>5. classes' \subseteq ClassRows
  BY <1>0, <1>1
<1>6. \A class \in classes' :
         class.by \in 0 .. started /\ (class.by = by => /\ Seeded(class)
                                                     /\ class.tutor = arg)
  BY <1>0, <1>1
<1> QED
  BY <1>4, <1>5, <1>6 DEF HasGrown

LEMMA InsertClassPartFits ==
    ASSUME SeedType, ClassesFit, InsertClassPart, started' = started
    PROVE  ClassesFit'
<1>1. /\ running.phase \in AllParts /\ ~Idle /\ RunFits /\ Item \in running.todo
      /\ running.todo \subseteq 1 .. NumClasses
      /\ \/ /\ running.phase = "enrolments" /\ Moves("sessions", running.todo)
         \/ /\ running.phase = "sessions" /\ Moves("tuitions", running.todo)
         \/ /\ running.phase = "tuitions" /\ running.todo # {Item}
            /\ Moves("class", running.todo \ {Item})
         \/ /\ running.phase = "tuitions" /\ running.todo = {Item}
            /\ Moves("wipe notes", {})
  <2>1. running.phase \in AllParts /\ RunFits
    BY InsertClassPartMoves
  <2>2. running.todo \subseteq 1 .. NumClasses
    BY <2>1, TheItem, Lists DEF Listed, AllParts
  <2> QED
    BY <2>2, InsertClassPartMoves DEF AllParts
<1>2. \E item, part, by, arg : /\ item = Item /\ part = running.phase
                              /\ by = running.by /\ arg = running.arg
  OBVIOUS
<1>3. PICK item, part, by, arg : /\ item = Item /\ part = running.phase
                                /\ by = running.by /\ arg = running.arg
  BY <1>2
<1>4. /\ ~Idle' /\ running'.by = by /\ running'.arg = arg /\ finished' = Nothing
  BY <1>1, <1>3 DEF Moves
<1>5. /\ classes' = {Grown(class, by, item, part) : class \in classes}
      /\ tables' = tables /\ "classes" \in tables
  <2>1. running.phase \in {"enrolments", "sessions", "tuitions"}
    BY <1>1 DEF AllParts
  <2> QED
    BY <1>3, <2>1 DEF InsertClassPart, Grown, At, PhaseTable
<1>6. /\ part \in AllParts /\ classes \subseteq ClassRows
      /\ \A class \in classes :
            class.by \in 0 .. started /\ (class.by = by => /\ Seeded(class)
                                                        /\ class.tutor = arg)
  BY <1>1, <1>3 DEF ClassesFit
<1>7. PICK made : made = (1 .. NumClasses \ running.todo) \union {item}
  OBVIOUS
<1>8. Generation(Mine(arg), by, made, {item}, PartsBefore(part))
  <2>1. \A i : i = Item =>
           Generation(Mine(running.arg), running.by,
                      (1 .. NumClasses \ running.todo) \union {i}, {i},
                      PartsBefore(running.phase))
    BY <1>1, GenerationOf
  <2> QED
    BY <1>3, <1>7, <2>1
<1>9. /\ classes' \subseteq ClassRows
      /\ \A class \in classes' :
             class.by \in 0 .. started /\ (class.by = by => /\ Seeded(class)
                                                         /\ class.tutor = arg)
      /\ {class.num : class \in Mine(arg)'} = made
      /\ \A class \in Mine(arg)' :
            /\ class.by = by
            /\ class.num = item => class.has = PartsBefore(part) \union {part}
            /\ class.num # item => class.has = AllParts
  <2>1. Growth(by, item, part, arg, made)
    BY <1>5, <1>6, <1>8 DEF Growth
  <2>2. HasGrown(by, item, part, arg, made)
    BY <2>1, ClassesGrow
  <2> QED
    BY <2>2 DEF HasGrown
<1>10. /\ PartsBefore("enrolments") \union {"enrolments"} = PartsBefore("sessions")
       /\ PartsBefore("sessions") \union {"sessions"} = PartsBefore("tuitions")
       /\ PartsBefore("tuitions") \union {"tuitions"} = AllParts
  BY DEF PartsBefore, AllParts
<1>11. ClassesInOrder'
  BY <1>4, <1>5, <1>9 DEF ClassesInOrder
<1>12. finished'.script # "dashboard"
  BY <1>4 DEF Nothing
<1>13. CASE Moves("sessions", running.todo) \/ Moves("tuitions", running.todo)
  <2>1. /\ PartsBefore(part) \union {part} = PartsBefore(running'.phase)
        /\ running'.phase \in {"sessions", "tuitions"} /\ running'.todo = running.todo
    BY <1>1, <1>3, <1>10, <1>13 DEF Moves
  <2>2. Item' = item
    BY <1>3, <2>1 DEF Item
  <2>3. Generation(Mine(arg)', by, made, {item}, PartsBefore(running'.phase))
    BY <1>9, <2>1 DEF Generation
  <2>4. Generation(Mine(running.arg)', running'.by,
                   (1 .. NumClasses \ running'.todo) \union {item}, {item},
                   PartsBefore(running'.phase))
    BY <1>4, <1>7, <2>1, <2>3 DEF Mine
  <2>5. running'.phase # "class" /\ running'.phase \notin {"wipe notes", "notes"}
    BY <2>1
  <2> QED
    BY <1>11, <1>12, <2>2, <2>4, <2>5, ClassesFrom
<1>14. CASE Moves("class", running.todo \ {Item}) \/
            (running.todo = {Item} /\ Moves("wipe notes", {}))
  <2>1. /\ running.phase = "tuitions" /\ running'.phase \in {"class", "wipe notes"}
        /\ running'.phase = "class" => running'.todo = running.todo \ {item}
        /\ running'.phase = "wipe notes" => running.todo = {item}
        /\ item \in running.todo /\ running.todo \subseteq 1 .. NumClasses
    BY <1>1, <1>3, <1>14 DEF Moves
  <2>2. Generation(Mine(arg)', by, made, {}, {})
    BY <1>3, <1>9, <1>10, <2>1 DEF Generation
  <2>3. /\ running'.phase = "class" => made = 1 .. NumClasses \ running'.todo
        /\ running'.phase = "wipe notes" => made = 1 .. NumClasses
    BY <1>7, <2>1
  <2>4. Mine(running.arg)' = Mine(arg)'
    BY <1>4 DEF Mine
  <2>5. running'.phase \notin AllParts
    BY <2>1 DEF AllParts
  <2>6. /\ running'.phase = "class" =>
              Generation(Mine(running.arg)', running'.by,
                         1 .. NumClasses \ running'.todo, {}, {})
        /\ running'.phase \in {"wipe notes", "notes"} =>
              Generation(Mine(running.arg)', running'.by, 1 .. NumClasses, {}, {})
    BY <1>4, <2>1, <2>2, <2>3, <2>4
  <2> QED
    BY <1>11, <1>12, <2>5, <2>6, ClassesFrom
<1> QED
  BY <1>1, <1>13, <1>14

LEMMA DashboardPhases ==
    ASSUME SeedType, NEW P \in SUBSET PhasesOf("dashboard"), ScriptStep
    PROVE  /\ ~(running.phase \in PhasesOf("dashboard") /\ ~MissingTable) =>
                 running'.phase \notin P /\ finished'.script # "dashboard"
           /\ running.phase \in {"tutor", "student"} =>
                 /\ running'.phase \in {"student", "wipe", "none"}
                 /\ finished'.script # "dashboard"
<1>0. Nothing.phase = "none" /\ Nothing.script = "none"
  BY DEF Nothing
<1>1. ASSUME ~(running.phase \in PhasesOf("dashboard") /\ ~MissingTable)
      PROVE  running'.phase \notin P /\ finished'.script # "dashboard"
  <2> DEFINE D == PhasesOf("dashboard")
             S == {"dashboard"}
  <2>1. running.phase \notin D \/ MissingTable
    BY <1>1
  <2>2. \A p, q : Follows(p, q) /\ q \in D => p \in D
    BY Stages DEF Follows
  <2>3. \A script \in S : PhasesOf(script) \subseteq D
    OBVIOUS
  <2>4. "none" \notin D /\ "none" \notin S
    BY Stages
  <2>5. running'.phase \notin D /\ finished'.script \notin S
    <3> HIDE DEF D, S
    <3> QED
      BY <2>1, <2>2, <2>3, <2>4, Elsewhere
  <2> QED
    BY <2>5
<1>2. ASSUME running.phase \in {"tutor", "student"}
      PROVE  /\ running'.phase \in {"student", "wipe", "none"}
             /\ finished'.script # "dashboard"
  <2>1. StatementOfPhase
    BY StepOfPhase
  <2>2. DashboardTutor \/ DashboardStudent \/ MissingTable
    BY <1>2, <2>1 DEF StatementOfPhase, AllParts
  <2> QED
    BY <1>0, <2>2, DashboardTutorMoves, DashboardStudentMoves, MissingTableMoves
       DEF Moves, BreaksOff
<1> QED
  BY <1>1, <1>2

LEMMA ClassesStep ==
    ASSUME SeedType, ClassesFit, ScriptStep PROVE ClassesFit'
<1>0. /\ Onward /\ ~Idle /\ started' = started /\ StatementOfPhase
      /\ Nothing.phase = "none" /\ Nothing.script = "none"
  BY StepsOnward, ScriptStepKeepsType, StepOfPhase DEF Nothing
<1>1. Idle' \/ (~Idle /\ running'.by = running.by /\ running'.arg = running.arg)
  BY <1>0 DEF Onward, BreaksOff, Completes, Idle, Nothing
<1>2. ASSUME WipeClasses PROVE ClassesFit'
  BY <1>0, <1>2, WipeClassesFits
<1>3. ASSUME InsertClass PROVE ClassesFit'
  BY <1>0, <1>3, InsertClassFits
<1>4. ASSUME InsertClassPart PROVE ClassesFit'
  BY <1>0, <1>4, InsertClassPartFits
<1>5. ASSUME WipeNotes PROVE ClassesFit'
  <2>1. /\ running.phase = "wipe notes" /\ running'.phase = "notes" /\ finished' = Nothing
        /\ running'.arg = running.arg /\ running'.by = running.by
    BY <1>5, WipeNotesMoves DEF Moves
  <2>2. classes' = classes /\ tables' = tables
    BY <1>5 DEF WipeNotes
  <2>3. ClassesInOrder'
    BY <1>0, <1>1, <2>2, OrderKept
  <2>4. Generation(Mine(running.arg), running.by, 1 .. NumClasses, {}, {})
    BY <2>1, GenerationOf
  <2>5. Mine(running.arg)' = Mine(running.arg)
    BY <2>1, <2>2 DEF Mine
  <2>6. Generation(Mine(running.arg)', running'.by, 1 .. NumClasses, {}, {})
    BY <2>1, <2>4, <2>5
  <2>7. /\ running'.phase # "class" /\ running'.phase \notin AllParts
        /\ finished'.script # "dashboard"
    BY <1>0, <2>1 DEF AllParts
  <2> QED
    BY <2>3, <2>6, <2>7, ClassesFrom
<1>6. ASSUME InsertNotes PROVE ClassesFit'
  <2>1. running.phase = "notes" /\ running' = Nothing /\ finished' = running
    BY <1>6, InsertNotesMoves DEF Completes
  <2>2. classes' = classes /\ tables' = tables
    BY <1>6 DEF InsertNotes
  <2>3. ClassesInOrder'
    BY <1>0, <1>1, <2>2, OrderKept
  <2>4. Generation(Mine(running.arg), running.by, 1 .. NumClasses, {}, {})
    BY <2>1, GenerationOf
  <2>5. Mine(finished.arg)' = Mine(running.arg)
    BY <2>1, <2>2 DEF Mine
  <2>6. Generation(Mine(finished.arg)', finished'.by, 1 .. NumClasses, {}, {})
    BY <2>1, <2>4, <2>5
  <2>7. /\ running'.phase # "class" /\ running'.phase \notin AllParts
        /\ running'.phase \notin {"wipe notes", "notes"}
    BY <1>0, <2>1 DEF AllParts
  <2> QED
    BY <2>3, <2>6, <2>7, ClassesFrom
<1>7. CASE /\ ~WipeClasses /\ ~InsertClass /\ ~InsertClassPart /\ ~WipeNotes
           /\ ~InsertNotes
  <2>1. classes' = classes \/ (DropTable /\ classes' = {})
    BY <1>0, <1>7, Zenon DEF StatementOfPhase, MissingTable, rows, SeedLevel,
       SeedAccount, LookUpSlots, SeedSlot, SeedCase, SampleLogs, SeedLogCase,
       DashboardTutor, DashboardStudent, DemoGrade, DemoTutor, InsertDemoPart,
       FlowGrade, Login, PostFlowPart, ListTables, DropTable, Kept, PushSchema
  <2>2. "classes" \in tables => "classes" \in tables' \/ classes' = {}
    <3>1. CASE DropTable /\ Tables[Item] = "classes"
      BY <3>1 DEF DropTable, Kept
    <3>2. CASE ~(DropTable /\ Tables[Item] = "classes")
      BY <3>2, TablesStay
    <3> QED
      BY <3>1, <3>2
  <2>3. ClassesInOrder'
    BY <1>0, <1>1, <2>1, <2>2, OrderKept
  <2>4. ClassPhases \subseteq PhasesOf("dashboard") /\ ClassPhases \cap {"student", "wipe", "none"} = {}
    BY Stages DEF ClassPhases, AllParts
  <2>5. \/ running.phase \notin PhasesOf("dashboard") \/ MissingTable
        \/ running.phase \in {"tutor", "student"}
    BY <1>0, <1>7, Stages DEF StatementOfPhase, AllParts
  <2>6. running'.phase \notin ClassPhases /\ finished'.script # "dashboard"
    BY <2>4, <2>5, DashboardPhases
  <2> QED
    BY <2>3, <2>6, ClassesElsewhere
<1> QED
  BY <1>2, <1>3, <1>4, <1>5, <1>6, <1>7

LEMMA ClassesOtherwise ==
    ASSUME SeedType, ClassesFit, SeedType',
           Kill \/ Waits \/ \E script \in Scripts : Begins(script)
    PROVE  ClassesFit'
<1>0. /\ Nothing.phase = "none" /\ Nothing.script = "none" /\ "none" \notin ClassPhases
  BY DEF Nothing, ClassPhases, AllParts
<1>1. CASE Kill
  <2>1. /\ classes' = classes /\ tables' = tables /\ started' = started
        /\ running' = Nothing /\ finished' = Nothing
    BY <1>1, KillKeepsType DEF BreaksOff
  <2>2. ClassesInOrder'
    BY <2>1, OrderKept DEF Idle, Nothing
  <2> QED
    BY <1>0, <2>1, <2>2, ClassesElsewhere
<1>2. CASE Waits
  <2>1. /\ classes' = classes /\ tables' = tables /\ started' = started
        /\ running' = Nothing /\ (finished' = finished \/ finished' = Nothing)
    BY <1>2 DEF Waits, Idle
  <2>2. ClassesInOrder'
    BY <2>1, OrderKept DEF Idle, Nothing
  <2>3. finished'.script = "dashboard" =>
            Generation(Mine(finished.arg)', finished'.by, 1 .. NumClasses, {}, {})
    BY <1>0, <2>1 DEF ClassesFit, Generation, Mine
  <2>4. running'.phase \notin ClassPhases
    BY <1>0, <2>1
  <2> QED
    BY <2>2, <2>3, <2>4, ClassesFrom DEF ClassPhases
<1>3. CASE \E script \in Scripts : Begins(script)
  <2> PICK script \in Scripts : Begins(script)
    BY <1>3
  <2>1. /\ classes' = classes /\ tables' = tables /\ started' = started + 1
        /\ running'.phase = FirstPhase(script) /\ finished' = Nothing
        /\ running'.by = started'
    BY DEF Begins
  <2>2. started \in Nat /\ \A n \in 0 .. started : n # started + 1
    BY Numbered
  <2>3. \A class \in classes : class.by # running'.by /\ class.by \in 0 .. started'
    <3>1. \A class \in classes : class.by \in 0 .. started
      BY DEF ClassesFit
    <3>2. \A n \in 0 .. started : n \in 0 .. started'
      BY <2>1, Later
    <3> QED
      BY <2>1, <2>2, <3>1, <3>2
  <2>4. ClassesInOrder'
    BY <2>1, <2>3 DEF ClassesFit, ClassesInOrder
  <2>5. FirstPhase(script) \notin ClassPhases
    BY FirstFits DEF FirstPhases, ClassPhases, AllParts
  <2> QED
    BY <1>0, <2>1, <2>4, <2>5, ClassesElsewhere
<1> QED
  BY <1>1, <1>2, <1>3
-----------------------------------------------------------------------------
(* The notifications of seed-dashboard. *)
LEMMA NotesElsewhere ==
    ASSUME SeedType, NotesFit, notes' = notes \/ notes' = {},
           "notifications" \in tables => "notifications" \in tables' \/ notes' = {},
           started' = started \/ started' = started + 1,
           running'.phase # "notes", finished'.script # "dashboard"
    PROVE  NotesFit'
<1>1. \A n \in notes : n.by \in 0 .. started'
  BY Later DEF NotesFit
<1> QED
  BY <1>1 DEF NotesFit

LEMMA NotesStep ==
    ASSUME SeedType, NotesFit, ScriptStep PROVE NotesFit'
<1>0. /\ Onward /\ ~Idle /\ started' = started /\ StatementOfPhase
      /\ Nothing.phase = "none" /\ Nothing.script = "none"
  BY StepsOnward, ScriptStepKeepsType, StepOfPhase DEF Nothing
<1>1. CASE WipeNotes
  <2>1. /\ running'.phase = "notes" /\ finished' = Nothing /\ running'.arg = running.arg
    BY <1>1, WipeNotesMoves DEF Moves
  <2>2. /\ notes' = {n \in notes : n.tutor # running.arg \/ n.title # "[demo]"}
        /\ tables' = tables
    BY <1>1 DEF WipeNotes
  <2>3. DemoNotes(running.arg)' = {}
    BY <2>1, <2>2 DEF DemoNotes
  <2> QED
    BY <1>0, <2>1, <2>2, <2>3 DEF NotesFit
<1>2. CASE InsertNotes
  <2>1. running.phase = "notes" /\ running' = Nothing /\ finished' = running
    BY <1>2, InsertNotesMoves DEF Completes
  <2> DEFINE new == [title |-> "[demo]", tutor |-> running.arg, by |-> running.by]
  <2>2. notes' = notes \union {new} /\ tables' = tables /\ "notifications" \in tables
    BY <1>2 DEF InsertNotes, At, PhaseTable
  <2>3. /\ new.by \in 0 .. started /\ new.tutor = running.arg /\ new.title = "[demo]"
        /\ new = [title |-> "[demo]", tutor |-> finished'.arg, by |-> finished'.by]
    BY <1>0, <2>1, Numbered
  <2> HIDE DEF new
  <2>4. DemoNotes(running.arg) = {}
    BY <2>1 DEF NotesFit
  <2>5. DemoNotes(finished.arg)' = {new}
    BY <2>1, <2>2, <2>3, <2>4 DEF DemoNotes
  <2>6. \A n \in notes' : n.by \in 0 .. started'
    BY <1>0, <2>2, <2>3 DEF NotesFit
  <2> QED
    BY <1>0, <2>1, <2>2, <2>3, <2>5, <2>6 DEF NotesFit
<1>3. CASE ~WipeNotes /\ ~InsertNotes
  <2>1. notes' = notes \/ (DropTable /\ notes' = {})
    BY <1>0, <1>3, Zenon DEF StatementOfPhase, MissingTable, rows, SeedLevel,
       SeedAccount, LookUpSlots, SeedSlot, SeedCase, SampleLogs, SeedLogCase,
       DashboardTutor, DashboardStudent, WipeClasses, InsertClass, InsertClassPart,
       DemoGrade, DemoTutor, InsertDemoPart,
       FlowGrade, Login, PostFlowPart, ListTables, DropTable, Kept, PushSchema
  <2>2. "notifications" \in tables => "notifications" \in tables' \/ notes' = {}
    <3>1. CASE DropTable /\ Tables[Item] = "notifications"
      BY <3>1 DEF DropTable, Kept
    <3>2. CASE ~(DropTable /\ Tables[Item] = "notifications")
      BY <3>2, TablesStay
    <3> QED
      BY <3>1, <3>2
  <2>3. /\ running'.phase # "notes" /\ finished'.script # "dashboard"
    <3>1. CASE running.phase \notin {"wipe notes", "notes"}
      <4>1. running'.phase # "notes"
        BY <1>0, <3>1 DEF Onward, Follows, BreaksOff, Completes
      <4>2. finished'.script # "dashboard"
        <5>1. CASE running.phase \notin PhasesOf("dashboard") \/ MissingTable
          BY <5>1, DashboardPhases
        <5>2. CASE running.phase \in PhasesOf("dashboard") /\ ~MissingTable
          <6>1. \/ DashboardTutor \/ DashboardStudent \/ WipeClasses \/ InsertClass
                \/ InsertClassPart
            BY <1>0, <3>1, <5>2, Stages DEF StatementOfPhase, AllParts
          <6>2. finished' = Nothing
            BY <6>1, DashboardTutorMoves, DashboardStudentMoves, WipeClassesMoves,
               InsertClassMoves, InsertClassPartMoves DEF Moves, AllParts
          <6> QED
            BY <1>0, <6>2
        <5> QED
          BY <5>1, <5>2
      <4> QED
        BY <4>1, <4>2
    <3>2. CASE running.phase \in {"wipe notes", "notes"}
      <4>1. MissingTable
        BY <1>0, <1>3, <3>2 DEF StatementOfPhase, AllParts
      <4> QED
        BY <1>0, <4>1, MissingTableMoves DEF BreaksOff
    <3> QED
      BY <3>1, <3>2
  <2> QED
    BY <1>0, <2>1, <2>2, <2>3, NotesElsewhere
<1> QED
  BY <1>1, <1>2, <1>3

LEMMA NotesOtherwise ==
    ASSUME SeedType, NotesFit, SeedType',
           Kill \/ Waits \/ \E script \in Scripts : Begins(script)
    PROVE  NotesFit'
<1>0. Nothing.phase = "none" /\ Nothing.script = "none"
  BY DEF Nothing
<1>1. CASE Kill
  <2>1. /\ notes' = notes /\ tables' = tables /\ started' = started
        /\ running' = Nothing /\ finished' = Nothing
    BY <1>1, KillKeepsType DEF BreaksOff
  <2> QED
    BY <1>0, <2>1, NotesElsewhere
<1>2. CASE Waits
  <2>1. /\ notes' = notes /\ tables' = tables /\ started' = started
        /\ running' = Nothing /\ (finished' = finished \/ finished' = Nothing)
    BY <1>2 DEF Waits, Idle
  <2> QED
    BY <1>0, <2>1 DEF NotesFit, DemoNotes
<1>3. CASE \E script \in Scripts : Begins(script)
  <2> PICK script \in Scripts : Begins(script)
    BY <1>3
  <2>1. /\ notes' = notes /\ tables' = tables /\ started' = started + 1
        /\ running'.phase = FirstPhase(script) /\ finished' = Nothing
    BY DEF Begins
  <2>2. FirstPhase(script) # "notes"
    BY FirstFits DEF FirstPhases
  <2> QED
    BY <1>0, <2>1, <2>2, NotesElsewhere
<1> QED
  BY <1>1, <1>2, <1>3
-----------------------------------------------------------------------------
(* Courses. *)
CoursePhases == PhasesOf("curriculum-demo") \union PhasesOf("edu-flow")

CourseScripts == {"curriculum-demo", "edu-flow"}

LEMMA CoursesKept ==
    ASSUME SeedType, CoursesFit, courses' = courses, tables \subseteq tables',
           started' = started \/ started' = started + 1
    PROVE  CoursesFit'
<1>1. \A row \in courses : row.by \in 0 .. started'
  BY Later DEF CoursesFit
<1>2. \A s : HasParents(s)' <=> HasParents(s)
  BY DEF HasParents
<1>3. DemoOfOneRun'
  BY DEF CoursesFit, DemoOfOneRun
<1> QED
  BY <1>1, <1>2, <1>3 DEF CoursesFit

LEMMA CoursesElsewhere ==
    ASSUME CoursesFit', running'.phase \notin CoursePhases,
           finished'.script \notin CourseScripts
    PROVE  CoursesFit' /\ CoursesDone' /\ CoursesPromised'
<1>1. /\ running'.phase \notin {"demo grade", "demo tutor", "flow grade", "login"}
      /\ running'.phase # "demo part" /\ running'.phase # "flow part"
  BY Stages DEF CoursePhases
<1>2. finished'.script # "curriculum-demo" /\ finished'.script # "edu-flow"
  BY DEF CourseScripts
<1>3. CoursesDone'
  BY <1>1 DEF CoursesDone
<1>4. CoursesPromised'
  BY <1>2 DEF CoursesPromised
<1> QED
  BY <1>3, <1>4

LEMMA CourseAdded ==
    ASSUME SeedType, CoursesFit, ~Idle, started' = started, tables' = tables,
           NEW row, courses' = courses \union {row}, row.by = running.by,
           TableOf(row.part) \in tables,
           row.kind = "demo" => /\ HasParents(row.suffix)'
                                /\ \A other \in courses :
                                      IsDemo(other, row.suffix) => other.by = row.by
    PROVE  /\ CoursesFit' /\ \A s : HasParents(s) => HasParents(s)'
           /\ PartsOf(row.by)' = PartsOf(row.by) \union {row.part}
<1>1. row.by \in 0 .. started
  BY Numbered
<1>2. \A s : HasParents(s) => HasParents(s)'
  BY DEF HasParents
<1>3. DemoOfOneRun'
  BY DEF CoursesFit, DemoOfOneRun, IsDemo
<1>4. \A c \in courses' : /\ c.by \in 0 .. started' /\ TableOf(c.part) \in tables'
                          /\ c.kind = "demo" => HasParents(c.suffix)'
  BY <1>1, <1>2 DEF CoursesFit
<1>5. PartsOf(row.by)' = PartsOf(row.by) \union {row.part}
  BY DEF PartsOf
<1> QED
  BY <1>2, <1>3, <1>4, <1>5 DEF CoursesFit

(* The first of the parts is the parents, and no part before them is left. *)
LEMMA DemoPartTaken ==
    ASSUME SeedType, CoursesFit, CoursesDone, InsertDemoPart, ~EmailTaken(Part),
           NEW by, NEW arg, by = running.by, arg = running.arg
    PROVE  /\ CoursesFit' /\ PartsOf(by)' = PartsOf(by) \union {DemoParts[Item]}
           /\ HasParents(arg)'
           /\ \A row \in courses' : IsDemo(row, arg) => row.by = by
<1>1. /\ running.phase = "demo part" /\ running.script = "curriculum-demo"
      /\ ~Idle /\ RunFits /\ started' = started
  BY InsertDemoPartMoves
<1>2. /\ Item \in running.todo /\ running.todo \subseteq 1 .. 8
      /\ \A n \in running.todo : Item <= n
  BY <1>1, TheItem, Lists DEF Listed
<1> PICK item \in 1 .. 8 : item = Item
  BY <1>2
<1>3. Part = DemoParts[item]
  BY <1>1 DEF Part
<1>4. PICK new : /\ new = Course("demo", DemoParts[item])
                 /\ courses' = courses \union {new} /\ tables' = tables
                 /\ TableOf(DemoParts[item]) \in tables
  BY <1>3 DEF InsertDemoPart
<1>5. /\ new.kind = "demo" /\ new.suffix = arg /\ new.by = by
      /\ new.part = DemoParts[item]
  BY <1>4 DEF Course
<1>6. /\ HasParents(arg)'
      /\ \A row \in courses : IsDemo(row, arg) => row.by = by
  <2>1. CASE 1 \in running.todo
    <3>1. item = 1
      BY <1>2, <2>1
    <3>2. DemoParts[item] = "parents"
      BY <3>1 DEF DemoParts
    <3>3. ~ \E row \in courses : IsDemo(row, arg) /\ row.part = "parents"
      BY <1>3, <3>2 DEF EmailTaken, IsDemo
    <3>4. \A row \in courses : ~IsDemo(row, arg)
      BY <3>3 DEF CoursesFit, HasParents, IsDemo
    <3>5. new \in courses' /\ IsDemo(new, arg) /\ new.part = "parents"
      BY <1>4, <1>5, <3>2 DEF IsDemo
    <3> QED
      BY <3>4, <3>5 DEF HasParents
  <2>2. CASE 1 \notin running.todo
    BY <1>1, <1>4, <2>2 DEF CoursesDone, HasParents
  <2> QED
    BY <2>1, <2>2
<1>7. /\ CoursesFit' /\ PartsOf(new.by)' = PartsOf(new.by) \union {new.part}
  BY <1>1, <1>4, <1>5, <1>6, CourseAdded
<1> QED
  BY <1>4, <1>5, <1>6, <1>7 DEF IsDemo

LEMMA FlowPartTaken ==
    ASSUME SeedType, CoursesFit, PostFlowPart, NEW by, by = running.by
    PROVE  CoursesFit' /\ PartsOf(by)' = PartsOf(by) \union {FlowParts[Item]}
<1>1. /\ running.phase = "flow part" /\ ~Idle /\ RunFits /\ started' = started
  BY PostFlowPartMoves
<1>2. running.script = "edu-flow"
  BY <1>1, Working, ScriptOfPhase DEF Steps
<1>3. Part = FlowParts[Item]
  BY <1>2 DEF Part
<1>4. PICK new : /\ new = Course("flow", FlowParts[Item])
                 /\ courses' = courses \union {new} /\ tables' = tables
                 /\ TableOf(FlowParts[Item]) \in tables
  BY <1>3 DEF PostFlowPart
<1>5. new.kind = "flow" /\ new.by = by /\ new.part = FlowParts[Item]
  BY <1>4 DEF Course
<1>6. CoursesFit' /\ PartsOf(new.by)' = PartsOf(new.by) \union {new.part}
  BY <1>1, <1>4, <1>5, CourseAdded
<1> QED
  BY <1>5, <1>6

(* The users' table goes last, when no other is left. *)
LEMMA DropTableCourses ==
    ASSUME SeedType, CoursesFit, RecreateFits, DropTable
    PROVE  CoursesFit'
<1>1. /\ running.phase = "drop" /\ Item \in running.todo /\ running.todo \subseteq 1 .. 7
      /\ \A n \in running.todo : Item <= n
      /\ started' = started
  BY DropTableMoves
<1> PICK item \in 1 .. 7 : item = Item
  BY <1>1
<1>2. /\ courses' = {row \in courses : TableOf(row.part) # Tables[item]}
      /\ tables' = tables \ {Tables[item]}
  BY DEF DropTable
<1>3. TableOf("parents") = "users"
  BY DEF TableOf
<1>4. DemoOfOneRun'
  BY <1>2 DEF CoursesFit, DemoOfOneRun
<1>5. CASE Tables[item] = "users"
  <2>1. item = 7
    BY <1>5, Catalogue
  <2>2. \A i \in 1 .. 7 : Tables[i] \in tables => i = 7
    <3>1. \A i \in 1 .. 7 : Tables[i] \in tables => i \in running.todo
      BY <1>1 DEF RecreateFits
    <3> QED
      BY <1>1, <2>1, <3>1
  <2>3. \A row \in courses : TableOf(row.part) = "users"
    <3>1. \A table \in tables : \E i \in 1 .. 7 : Tables[i] = table
      BY Lengths DEF SeedType, Range
    <3>2. \A row \in courses : TableOf(row.part) \in tables
      BY DEF CoursesFit
    <3> QED
      BY <2>2, <3>1, <3>2, Catalogue
  <2>4. courses' = {}
    BY <1>2, <1>5, <2>3
  <2> QED
    BY <1>4, <2>4 DEF CoursesFit
<1>6. CASE Tables[item] # "users"
  <2>1. \A s : HasParents(s) => HasParents(s)'
    BY <1>2, <1>3, <1>6 DEF HasParents
  <2>2. \A row \in courses' : /\ row.by \in 0 .. started' /\ TableOf(row.part) \in tables'
                              /\ row.kind = "demo" => HasParents(row.suffix)'
    BY <1>1, <1>2, <2>1 DEF CoursesFit
  <2> QED
    BY <1>4, <2>2 DEF CoursesFit
<1> QED
  BY <1>5, <1>6

LEMMA CoursesStep ==
    ASSUME SeedType, CoursesFit, CoursesDone, CoursesPromised, RecreateFits, ScriptStep
    PROVE  CoursesFit' /\ CoursesDone' /\ CoursesPromised'
<1> DEFINE Goal == CoursesFit' /\ CoursesDone' /\ CoursesPromised'
<1>0. /\ Onward /\ ~Idle /\ started' = started /\ StatementOfPhase
      /\ Nothing.phase = "none" /\ Nothing.script = "none"
  BY StepsOnward, ScriptStepKeepsType, StepOfPhase DEF Nothing
<1>a. finished' = Nothing => CoursesPromised'
  BY <1>0 DEF CoursesPromised
<1>b. running' = Nothing => CoursesDone'
  BY <1>0 DEF CoursesDone
<1>1. ASSUME InsertDemoPart PROVE Goal
  <2>1. /\ running.phase = "demo part" /\ running.script = "curriculum-demo" /\ RunFits
        /\ IF EmailTaken(Part) THEN BreaksOff ELSE TakesItem
    BY <1>1, InsertDemoPartMoves
  <2>2. CASE EmailTaken(Part)
    <3>1. courses' = courses /\ tables' = tables
      BY <1>1, <2>2 DEF InsertDemoPart
    <3>2. CoursesFit'
      BY <1>0, <3>1, CoursesKept
    <3> QED
      BY <1>a, <1>b, <2>1, <2>2, <3>2 DEF BreaksOff
  <2>3. CASE ~EmailTaken(Part)
    <3>1. PICK by, arg, item : by = running.by /\ arg = running.arg /\ item = Item
      OBVIOUS
    <3>2. /\ TakesItem /\ item \in running.todo /\ running.todo \subseteq 1 .. 8
          /\ item \in 1 .. 8
      BY <2>1, <2>3, <3>1, TheItem, Lists DEF Listed
    <3>3. /\ CoursesFit' /\ PartsOf(by)' = PartsOf(by) \union {DemoParts[item]}
          /\ HasParents(arg)' /\ \A row \in courses' : IsDemo(row, arg) => row.by = by
      BY <1>1, <2>3, <3>1, DemoPartTaken
    <3>4. PartsOf(by) = {DemoParts[i] : i \in 1 .. 8 \ running.todo}
      BY <2>1, <3>1 DEF CoursesDone
    <3>5. PartsOf(by)' = {DemoParts[i] : i \in 1 .. 8 \ (running.todo \ {item})}
      BY <3>2, <3>3, <3>4
    <3>6. CASE running.todo = {Item}
      <4>1. /\ running' = Nothing /\ finished'.script = "curriculum-demo"
            /\ finished'.by = by
        BY <2>1, <3>1, <3>2, <3>6 DEF TakesItem, Completes
      <4>2. PartsOf(by)' = {DemoParts[i] : i \in 1 .. 8}
        BY <3>1, <3>5, <3>6
      <4>3. CoursesPromised'
        BY <4>1, <4>2 DEF CoursesPromised
      <4> QED
        BY <1>b, <3>3, <4>1, <4>3
    <3>7. CASE running.todo # {Item}
      <4>1. /\ running'.phase = "demo part" /\ running'.todo = running.todo \ {item}
            /\ running'.by = by /\ running'.arg = arg /\ finished' = Nothing
        BY <2>1, <3>1, <3>2, <3>7 DEF TakesItem, Moves
      <4>2. CoursesDone'
        BY <3>3, <3>5, <4>1 DEF CoursesDone
      <4> QED
        BY <1>a, <3>3, <4>1, <4>2
    <3> QED
      BY <3>6, <3>7
  <2> QED
    BY <2>2, <2>3
<1>2. ASSUME PostFlowPart PROVE Goal
  <2>1. PICK by, item : by = running.by /\ item = Item
    OBVIOUS
  <2>2. /\ running.phase = "flow part" /\ RunFits /\ running.script = "edu-flow"
        /\ TakesItem /\ item \in running.todo /\ running.todo \subseteq 1 .. 6
        /\ item \in 1 .. 6
    <3>1. running.phase = "flow part" /\ RunFits /\ TakesItem
      BY <1>2, PostFlowPartMoves
    <3>2. running.script = "edu-flow"
      BY <3>1, Working, ScriptOfPhase DEF Steps
    <3> QED
      BY <2>1, <3>1, <3>2, TheItem, Lists DEF Listed
  <2>3. CoursesFit' /\ PartsOf(by)' = PartsOf(by) \union {FlowParts[item]}
    BY <1>2, <2>1, FlowPartTaken
  <2>4. PartsOf(by) = {FlowParts[i] : i \in 1 .. 6 \ running.todo}
    BY <2>1, <2>2 DEF CoursesDone
  <2>5. PartsOf(by)' = {FlowParts[i] : i \in 1 .. 6 \ (running.todo \ {item})}
    BY <2>2, <2>3, <2>4
  <2>6. CASE running.todo = {Item}
    <3>1. running' = Nothing /\ finished'.script = "edu-flow" /\ finished'.by = by
      BY <2>1, <2>2, <2>6 DEF TakesItem, Completes
    <3>2. PartsOf(by)' = {FlowParts[i] : i \in 1 .. 6}
      BY <2>1, <2>5, <2>6
    <3>3. CoursesPromised'
      BY <3>1, <3>2 DEF CoursesPromised
    <3> QED
      BY <1>b, <2>3, <3>1, <3>3
  <2>7. CASE running.todo # {Item}
    <3>1. /\ running'.phase = "flow part" /\ running'.todo = running.todo \ {item}
          /\ running'.by = by /\ finished' = Nothing
      BY <2>1, <2>2, <2>7 DEF TakesItem, Moves
    <3>2. CoursesDone'
      BY <2>3, <2>5, <3>1 DEF CoursesDone
    <3> QED
      BY <1>a, <2>3, <3>1, <3>2
  <2> QED
    BY <2>6, <2>7
<1>3. ASSUME DemoGrade \/ DemoTutor \/ FlowGrade \/ Login PROVE Goal
  <2>1. courses' = courses /\ tables' = tables
    BY <1>3, Zenon DEF DemoGrade, DemoTutor, FlowGrade, Login, rows
  <2>2. CoursesFit'
    BY <1>0, <2>1, CoursesKept
  <2>3. finished' = Nothing
    BY <1>3, DemoGradeMoves, DemoTutorMoves, FlowGradeMoves, LoginMoves
       DEF Moves, BreaksOff
  <2>4. \/ running' = Nothing
        \/ /\ running'.by = running.by
           /\ \/ running'.phase \in {"demo tutor", "login"}
              \/ running'.phase = "demo part" /\ running'.todo = 1 .. 8
              \/ running'.phase = "flow part" /\ running'.todo = 1 .. 6
    BY <1>3, DemoGradeMoves, DemoTutorMoves, FlowGradeMoves, LoginMoves
       DEF Moves, BreaksOff
  <2>5. \A row \in courses : row.by # running.by
    <3>1. running.phase \in {"demo grade", "demo tutor", "flow grade", "login"}
      BY <1>3, DemoGradeMoves, DemoTutorMoves, FlowGradeMoves, LoginMoves
    <3> QED
      BY <3>1 DEF CoursesDone
  <2>6. ASSUME running' # Nothing PROVE CoursesDone'
    <3>1. \A row \in courses' : row.by # running'.by
      BY <2>1, <2>4, <2>5, <2>6
    <3>2. PartsOf(running.by)' = {}
      BY <3>1 DEF PartsOf
    <3>3. 1 \in 1 .. 8 /\ 1 .. 8 \ 1 .. 8 = {} /\ 1 .. 6 \ 1 .. 6 = {}
      OBVIOUS
    <3>4. CASE running'.phase \in {"demo tutor", "login"}
      BY <3>1, <3>4 DEF CoursesDone
    <3>5. CASE running'.phase = "demo part" /\ running'.todo = 1 .. 8
      BY <3>2, <3>3, <3>5 DEF CoursesDone
    <3>6. CASE running'.phase = "flow part" /\ running'.todo = 1 .. 6
      BY <3>2, <3>3, <3>6 DEF CoursesDone
    <3> QED
      BY <2>4, <2>6, <3>4, <3>5, <3>6
  <2> QED
    BY <1>a, <1>b, <2>2, <2>3, <2>6
<1>4. CASE ~InsertDemoPart /\ ~PostFlowPart /\ ~DemoGrade /\ ~DemoTutor
           /\ ~FlowGrade /\ ~Login
  <2>1. running.phase \notin CoursePhases \/ MissingTable
    BY <1>0, <1>4, Stages DEF StatementOfPhase, CoursePhases, AllParts
  <2>2. \A p, q : Follows(p, q) /\ q \in CoursePhases => p \in CoursePhases
    <3>1. CoursePhases = {"demo grade", "demo tutor", "demo part", "flow grade",
                          "login", "flow part"}
      BY Stages DEF CoursePhases
    <3> QED
      BY <3>1 DEF Follows
  <2>3. \A script \in CourseScripts : PhasesOf(script) \subseteq CoursePhases
    BY DEF CoursePhases, CourseScripts
  <2>4. "none" \notin CoursePhases /\ "none" \notin CourseScripts
    BY Stages DEF CoursePhases, CourseScripts
  <2>5. running'.phase \notin CoursePhases /\ finished'.script \notin CourseScripts
    BY <2>1, <2>2, <2>3, <2>4, Elsewhere
  <2>6. CoursesFit'
    <3>1. CASE DropTable
      BY <3>1, DropTableCourses
    <3>2. CASE ~DropTable
      <4>1. courses' = courses
        BY <1>0, <1>4, <3>2, Zenon DEF StatementOfPhase, MissingTable, rows, SeedLevel,
           SeedAccount, LookUpSlots, SeedSlot, SeedCase, SampleLogs, SeedLogCase,
           DashboardTutor, DashboardStudent, WipeClasses, InsertClass,
           InsertClassPart, WipeNotes, InsertNotes, ListTables, PushSchema
      <4>2. tables \subseteq tables'
        BY <3>2, TablesStay
      <4> QED
        BY <1>0, <4>1, <4>2, CoursesKept
    <3> QED
      BY <3>1, <3>2
  <2> QED
    BY <2>5, <2>6, CoursesElsewhere
<1> QED
  BY <1>1, <1>2, <1>3, <1>4

LEMMA CoursesOtherwise ==
    ASSUME SeedType, CoursesFit, CoursesDone, CoursesPromised, SeedType',
           Kill \/ Waits \/ \E script \in Scripts : Begins(script)
    PROVE  CoursesFit' /\ CoursesDone' /\ CoursesPromised'
<1>0. Nothing.phase = "none" /\ Nothing.script = "none"
  BY DEF Nothing
<1>a. finished' = Nothing => CoursesPromised'
  BY <1>0 DEF CoursesPromised
<1>b. running' = Nothing => CoursesDone'
  BY <1>0 DEF CoursesDone
<1>1. CASE Kill
  <2>1. courses' = courses /\ tables' = tables /\ started' = started /\ BreaksOff
    BY <1>1, KillKeepsType
  <2> QED
    BY <1>a, <1>b, <2>1, CoursesKept DEF BreaksOff
<1>2. CASE Waits
  <2>1. /\ courses' = courses /\ tables' = tables /\ started' = started
        /\ running' = Nothing /\ (finished' = finished \/ finished' = Nothing)
    BY <1>2 DEF Waits, Idle
  <2>2. finished' = finished => CoursesPromised'
    BY <2>1 DEF CoursesPromised, PartsOf
  <2> QED
    BY <1>a, <1>b, <2>1, <2>2, CoursesKept
<1>3. CASE \E script \in Scripts : Begins(script)
  <2> PICK script \in Scripts : Begins(script)
    BY <1>3
  <2>1. /\ courses' = courses /\ tables' = tables /\ started' = started + 1
        /\ running'.phase = FirstPhase(script) /\ finished' = Nothing
        /\ running'.by = started'
    BY DEF Begins
  <2>2. started \in Nat /\ \A n \in 0 .. started : n # started + 1
    BY Numbered
  <2>3. \A row \in courses' : row.by # running'.by
    BY <2>1, <2>2 DEF CoursesFit
  <2>4. running'.phase \in FirstPhases
    BY <2>1, FirstFits
  <2>5. CoursesDone'
    BY <2>3, <2>4 DEF CoursesDone, FirstPhases
  <2> QED
    BY <1>a, <2>1, <2>5, CoursesKept
<1> QED
  BY <1>1, <1>2, <1>3
-----------------------------------------------------------------------------
(* recreate-db. *)
NoRows == /\ users = {} /\ grades = {} /\ scenarios = {} /\ classes = {}
          /\ notes = {} /\ courses = {}

LEMMA NothingLeft ==
    ASSUME UsersFit, GradesFit, ScenariosFit, ClassesFit, NotesFit, CoursesFit,
           tables = {}
    PROVE  NoRows
<1>1. \A row \in courses : TableOf(row.part) \in tables
  BY DEF CoursesFit
<1> QED
  BY <1>1 DEF NoRows, UsersFit, GradesFit, ScenariosFit, ClassesFit, NotesFit

LEMMA ListedOnce ==
    \A i, j \in 1 .. 7 : Tables[i] = Tables[j] => i = j
<1>1. 1 .. 7 = {1, 2, 3, 4, 5, 6, 7}
  OBVIOUS
<1> QED
  BY <1>1, Catalogue

LEMMA AccountSeeded ==
    ASSUME SeedType, SeedAccount, NEW by, NEW item, by = running.by, item = Item,
           NEW done, OnlyAccounts(by, done), item \notin done
    PROVE  OnlyAccounts(by, done \union {item})'
<1>1. /\ tables = Range(Tables) /\ users = SeedAccounts(by, done)
      /\ grades = {} /\ scenarios = {} /\ classes = {} /\ notes = {} /\ courses = {}
  BY DEF OnlyAccounts
<1>2. /\ UNCHANGED <<tables, grades, scenarios, classes, notes, courses>>
      /\ users' = IF HasEmail(Account(item)) \/ HasUsername(Account(item)) THEN users
                  ELSE users \union {User(Account(item), Account(item), "seed", by)}
  BY DEF SeedAccount
<1>3. ~HasEmail(Account(item)) /\ ~HasUsername(Account(item))
  <2>1. \A u \in users : \E n \in done : u.email = Account(n) /\ u.username = Account(n)
    BY <1>1 DEF SeedAccounts, User
  <2>2. \A n \in done : Account(n) # Account(item)
    BY Names
  <2> QED
    BY <2>1, <2>2 DEF HasEmail, HasUsername
<1>4. users' = SeedAccounts(by, done \union {item})
  BY <1>1, <1>2, <1>3 DEF SeedAccounts
<1> QED
  BY <1>1, <1>2, <1>4 DEF OnlyAccounts

LEMMA RecreateElsewhere ==
    ASSUME running'.phase \notin {"drop", "push"}, finished'.script # "recreate-db",
           ~(running'.script = "recreate-db" /\ running'.phase = "account")
    PROVE  RecreateFits'
  BY DEF RecreateFits

LEMMA RecreateStep ==
    ASSUME SeedType, UsersFit, GradesFit, ScenariosFit, ClassesFit, NotesFit,
           CoursesFit, RecreateFits, ScriptStep
    PROVE  RecreateFits'
<1>0. /\ Onward /\ ~Idle /\ started' = started /\ StatementOfPhase
      /\ Nothing.phase = "none" /\ Nothing.script = "none"
      /\ finished = Nothing
  BY StepsOnward, ScriptStepKeepsType, StepOfPhase, Underway DEF Nothing
<1>1. ASSUME ListTables PROVE RecreateFits'
  <2>1. tables' = tables /\ IF Left = {} THEN Moves("push", {}) ELSE Moves("drop", Left)
    BY <1>1, ListTablesMoves DEF ListTables
  <2>2. CASE Left = {}
    <3>1. \A table \in tables : \E i \in 1 .. 7 : Tables[i] = table
      BY Lengths DEF SeedType, Range
    <3>2. tables' = {} /\ running'.phase = "push" /\ finished' = Nothing
      BY <2>1, <2>2, <3>1 DEF Left, Moves
    <3> QED
      BY <1>0, <3>2 DEF RecreateFits
  <2>3. CASE Left # {}
    <3>1. running'.phase = "drop" /\ finished' = Nothing /\ running'.todo = Left
      BY <2>1, <2>3 DEF Moves
    <3> QED
      BY <1>0, <2>1, <3>1 DEF RecreateFits, Left
  <2> QED
    BY <2>2, <2>3
<1>2. ASSUME DropTable PROVE RecreateFits'
  <2>1. /\ running.phase = "drop" /\ Item \in running.todo /\ running.todo \subseteq 1 .. 7
        /\ IF running.todo = {Item} THEN Moves("push", {})
           ELSE Moves("drop", running.todo \ {Item})
        /\ tables' = tables \ {Tables[Item]}
    BY <1>2, DropTableMoves DEF DropTable
  <2> PICK item \in 1 .. 7 : item = Item
    BY <2>1
  <2>2. running.todo = {i \in 1 .. 7 : Tables[i] \in tables}
    BY <2>1 DEF RecreateFits
  <2>3. {i \in 1 .. 7 : Tables[i] \in tables'} = running.todo \ {item}
    BY <2>1, <2>2, ListedOnce
  <2>4. CASE running.todo = {Item}
    <3>1. \A table \in tables : \E i \in 1 .. 7 : Tables[i] = table
      BY Lengths DEF SeedType, Range
    <3>2. tables' = {}
      BY <2>1, <2>3, <2>4, <3>1
    <3>3. running'.phase = "push" /\ finished' = Nothing
      BY <2>1, <2>4 DEF Moves
    <3> QED
      BY <1>0, <3>2, <3>3 DEF RecreateFits
  <2>5. CASE running.todo # {Item}
    <3>1. /\ running'.phase = "drop" /\ finished' = Nothing
          /\ running'.todo = running.todo \ {item}
      BY <2>1, <2>5 DEF Moves
    <3> QED
      BY <1>0, <2>3, <3>1 DEF RecreateFits
  <2> QED
    BY <2>4, <2>5
<1>3. ASSUME PushSchema PROVE RecreateFits'
  <2>1. /\ running.phase = "push" /\ running'.phase = "account"
        /\ running'.todo = 1 .. NumAccounts /\ finished' = Nothing
    BY <1>3, PushSchemaMoves DEF Moves
  <2>2. tables' = Range(Tables) /\ UNCHANGED <<users, grades, scenarios, classes,
                                              notes, courses>>
    BY <1>3 DEF PushSchema, rows
  <2>3. NoRows
    BY <2>1, NothingLeft DEF RecreateFits
  <2>4. \A by : users' = SeedAccounts(by, 1 .. NumAccounts \ running'.todo)
    BY <2>1, <2>2, <2>3 DEF NoRows, SeedAccounts
  <2>5. OnlyAccounts(running.by, 1 .. NumAccounts \ running.todo)'
    BY <2>2, <2>3, <2>4 DEF NoRows, OnlyAccounts
  <2> QED
    BY <1>0, <2>1, <2>5 DEF RecreateFits
<1>4. ASSUME SeedAccount PROVE RecreateFits'
  <2>1. /\ running.phase = "account" /\ TakesItem /\ RunFits
        /\ running.todo \subseteq 1 .. NumAccounts
    BY <1>4, SeedAccountMoves, TheItem, Lists DEF Listed
  <2>2. CASE running.script # "recreate-db"
    <3>1. /\ running'.phase \in {"account", "none"} /\ running'.script # "recreate-db"
          /\ finished'.script # "recreate-db"
      BY <1>0, <2>1, <2>2 DEF TakesItem, Completes, Moves
    <3> QED
      BY <3>1, RecreateElsewhere
  <2>3. CASE running.script = "recreate-db"
    <3>1. PICK by, item, done : /\ by = running.by /\ item = Item
                                /\ done = 1 .. NumAccounts \ running.todo
      OBVIOUS
    <3>2. item \in running.todo /\ item \in 1 .. NumAccounts /\ item \notin done
      BY <2>1, <3>1 DEF TakesItem
    <3>3. OnlyAccounts(by, done)
      BY <2>1, <2>3, <3>1 DEF RecreateFits
    <3>4. OnlyAccounts(by, done \union {item})'
      BY <1>4, <3>1, <3>2, <3>3, AccountSeeded
    <3>5. done \union {item} = 1 .. NumAccounts \ (running.todo \ {item})
      BY <3>1, <3>2
    <3>6. CASE running.todo = {Item}
      <4>1. running'.phase = "none" /\ finished'.by = by
        BY <1>0, <2>1, <3>1, <3>6 DEF TakesItem, Completes
      <4>2. done \union {item} = 1 .. NumAccounts
        BY <3>1, <3>5, <3>6
      <4>3. OnlyAccounts(finished.by, 1 .. NumAccounts)'
        BY <3>4, <4>1, <4>2 DEF OnlyAccounts
      <4> QED
        BY <4>1, <4>3 DEF RecreateFits
    <3>7. CASE running.todo # {Item}
      <4>1. /\ running'.phase = "account" /\ running'.todo = running.todo \ {item}
            /\ running'.by = by /\ finished' = Nothing
        BY <2>1, <3>1, <3>7 DEF TakesItem, Moves
      <4>2. OnlyAccounts(running.by, 1 .. NumAccounts \ running.todo)'
        BY <3>4, <3>5, <4>1 DEF OnlyAccounts
      <4> QED
        BY <1>0, <4>1, <4>2 DEF RecreateFits
    <3> QED
      BY <3>6, <3>7
  <2> QED
    BY <2>2, <2>3
<1>5. CASE ~ListTables /\ ~DropTable /\ ~PushSchema /\ ~SeedAccount
  <2> DEFINE P == PhasesOf("recreate-db")
             S == {"recreate-db"}
  <2>1. running.phase \notin P \/ MissingTable
    BY <1>0, <1>5, Stages DEF StatementOfPhase, AllParts
  <2>2. \A p, q : Follows(p, q) /\ q \in P => p \in P
    BY Stages DEF Follows
  <2>3. \A script \in S : PhasesOf(script) \subseteq P
    OBVIOUS
  <2>4. "none" \notin P /\ "none" \notin S
    BY Stages
  <2>5. running'.phase \notin P /\ finished'.script \notin S
    <3> HIDE DEF P, S
    <3> QED
      BY <2>1, <2>2, <2>3, <2>4, Elsewhere
  <2> QED
    BY <2>5, Stages, RecreateElsewhere
<1> QED
  BY <1>1, <1>2, <1>3, <1>4, <1>5

LEMMA RecreateOtherwise ==
    ASSUME SeedType, RecreateFits, SeedType',
           Kill \/ Waits \/ \E script \in Scripts : Begins(script)
    PROVE  RecreateFits'
<1>0. Nothing.phase = "none" /\ Nothing.script = "none"
  BY DEF Nothing
<1>1. CASE Kill
  BY <1>0, <1>1, KillKeepsType, RecreateElsewhere DEF BreaksOff
<1>2. CASE Waits
  <2>1. /\ running' = Nothing /\ (finished' = finished \/ finished' = Nothing)
        /\ UNCHANGED <<tables, users, grades, scenarios, classes, notes, courses>>
    BY <1>2 DEF Waits, Idle
  <2>2. CASE finished' = finished
    <3>1. finished'.script = "recreate-db" => OnlyAccounts(finished.by, 1 .. NumAccounts)'
      BY <2>1, <2>2 DEF RecreateFits, OnlyAccounts
    <3> QED
      BY <1>0, <2>1, <3>1 DEF RecreateFits
  <2>3. CASE finished' = Nothing
    BY <1>0, <2>1, <2>3, RecreateElsewhere
  <2> QED
    BY <2>1, <2>2, <2>3
<1>3. CASE \E script \in Scripts : Begins(script)
  <2> PICK script \in Scripts : Begins(script)
    BY <1>3
  <2>1. /\ running'.phase = FirstPhase(script) /\ running'.script = script
        /\ finished' = Nothing
    BY DEF Begins
  <2>2. /\ FirstPhase(script) \notin {"drop", "push"}
        /\ FirstPhase(script) = "account" => script = "user"
    BY FirstFits DEF FirstPhases
  <2> QED
    BY <1>0, <2>1, <2>2, RecreateElsewhere
<1> QED
  BY <1>1, <1>2, <1>3
-----------------------------------------------------------------------------
LEMMA SeedInit == Init => SeedInv
<1> SUFFICES ASSUME Init PROVE SeedInv
  OBVIOUS
<1>0. /\ running = Nothing /\ finished = Nothing /\ started = 0 /\ kills = 0 /\ year = 1
      /\ tables = Range(Tables) /\ grades = {} /\ scenarios = {} /\ courses = {}
      /\ logs = [k \in 1 .. NumSamples |-> "none"]
      /\ Nothing.phase = "none" /\ Nothing.script = "none" /\ 0 \in 0 .. 0
  BY DEF Init, Nothing
<1>1. SeedType
  BY <1>0, Counts DEF SeedType, Idle
<1>2. "users" \in tables /\ "classes" \in tables /\ "notifications" \in tables
  BY <1>0, Catalogue
<1>3. UsersFit
  <2>1. CASE users = {}
    BY <2>1 DEF UsersFit
  <2>2. CASE users = {User(<<"theirs", 1>>, Account(1), "theirs", 0)}
    <3> DEFINE u == User(<<"theirs", 1>>, Account(1), "theirs", 0)
    <3>1. u.username = Account(1) /\ u.by = 0 /\ users = {u}
      BY <2>2 DEF User
    <3>2. \A n : /\ Account(1) # <<"tutor_", n>> /\ Account(1) # <<"dsh.student", n>>
                 /\ Account(1) # <<"tutor of demo", n>>
      BY Names
    <3> HIDE DEF u
    <3> QED
      BY <1>0, <1>2, <3>1, <3>2 DEF UsersFit
  <2>3. CASE users = {User(Account(1), <<"theirs", 1>>, "theirs", 0)}
    <3> DEFINE u == User(Account(1), <<"theirs", 1>>, "theirs", 0)
    <3>1. /\ u.username = <<"theirs", 1>> /\ u.by = 0 /\ users = {u}
      BY <2>3 DEF User
    <3>2. \A n : /\ <<"theirs", 1>> # <<"tutor_", n>>
                 /\ <<"theirs", 1>> # <<"dsh.student", n>>
                 /\ <<"theirs", 1>> # <<"tutor of demo", n>>
      OBVIOUS
    <3> HIDE DEF u
    <3> QED
      BY <1>0, <1>2, <3>1, <3>2 DEF UsersFit
  <2> QED
    BY <2>1, <2>2, <2>3 DEF Init
<1>4. UsersDone /\ UsersPromised
  BY <1>0, Stages DEF UsersDone, UsersPromised
<1>5. GradesFit /\ ScenariosFit
  BY <1>0 DEF GradesFit, ScenariosFit
<1>6. ClassesFit
  <2>1. classes \subseteq {TheirClass}
    BY DEF Init
  <2>2. TheirClass \in ClassRows /\ TheirClass.by = 0
    BY DEF TheirClass, ClassRows, AllParts
  <2>3. /\ running.phase \notin {"class", "wipe notes", "notes"} \union AllParts
        /\ finished.script # "dashboard" /\ Idle
    BY <1>0 DEF AllParts, Idle
  <2> QED
    BY <1>0, <1>2, <2>1, <2>2, <2>3 DEF ClassesFit
<1>7. NotesFit
  <2>1. notes \subseteq {TheirNote} /\ TheirNote.by = 0
    BY DEF Init, TheirNote
  <2> QED
    BY <1>0, <1>2, <2>1 DEF NotesFit
<1>8. CoursesFit /\ CoursesDone /\ CoursesPromised
  BY <1>0 DEF CoursesFit, DemoOfOneRun, CoursesDone, CoursesPromised
<1>9. RecreateFits
  BY <1>0 DEF RecreateFits
<1> QED
  BY <1>1, <1>3, <1>4, <1>5, <1>6, <1>7, <1>8, <1>9 DEF SeedInv

LEMMA SeedStep == SeedInv /\ [Next]_vars => SeedInv'
<1> SUFFICES ASSUME SeedInv, [Next]_vars PROVE SeedInv'
  OBVIOUS
<1>0. /\ SeedType /\ UsersFit /\ UsersDone /\ UsersPromised /\ GradesFit /\ ScenariosFit
      /\ ClassesFit /\ NotesFit /\ CoursesFit /\ CoursesDone /\ CoursesPromised
      /\ RecreateFits
  BY DEF SeedInv
<1>1. CASE ScriptStep
  <2>1. SeedType'
    BY <1>0, <1>1, ScriptStepKeepsType
  <2>2. UsersFit' /\ UsersDone' /\ UsersPromised'
    BY <1>0, <1>1, UsersStep
  <2>3. GradesFit' /\ ScenariosFit' /\ ClassesFit' /\ NotesFit'
    BY <1>0, <1>1, GradesStep, ScenariosStep, ClassesStep, NotesStep
  <2>4. CoursesFit' /\ CoursesDone' /\ CoursesPromised'
    BY <1>0, <1>1, CoursesStep
  <2>5. RecreateFits'
    BY <1>0, <1>1, RecreateStep
  <2> QED
    BY <2>1, <2>2, <2>3, <2>4, <2>5 DEF SeedInv
<1>2. ASSUME SeedType', Kill \/ Waits \/ \E script \in Scripts : Begins(script)
      PROVE  SeedInv'
  <2>1. UsersFit' /\ UsersDone' /\ UsersPromised'
    BY <1>0, <1>2, UsersOtherwise
  <2>2. GradesFit' /\ ScenariosFit' /\ ClassesFit' /\ NotesFit'
    BY <1>0, <1>2, GradesOtherwise, ScenariosOtherwise, ClassesOtherwise,
       NotesOtherwise
  <2>3. CoursesFit' /\ CoursesDone' /\ CoursesPromised'
    BY <1>0, <1>2, CoursesOtherwise
  <2>4. RecreateFits'
    BY <1>0, <1>2, RecreateOtherwise
  <2> QED
    BY <1>2, <2>1, <2>2, <2>3, <2>4 DEF SeedInv
<1>3. CASE Kill
  BY <1>0, <1>2, <1>3, KillKeepsType
<1>4. CASE NewYear \/ \E k \in 1 .. NumSamples : Traffic(k)
  BY <1>0, <1>2, <1>4, Waiting
<1>5. CASE \E script \in Scripts : Start(script)
  BY <1>0, <1>2, <1>5, Starting
<1>6. CASE UNCHANGED vars
  <2>1. /\ UNCHANGED <<running, finished, started, kills, year, tables, users, grades,
                       scenarios, classes, notes, courses, logs>>
    BY <1>6 DEF vars, rows
  <2>2. SeedType' /\ Idle' = Idle
    BY <1>0, <2>1 DEF SeedType, RunFits, Idle, Nothing
  <2>3. UsersFit' /\ UsersDone' /\ UsersPromised'
    BY <1>0, <2>1 DEF UsersFit, UsersDone, UsersPromised, StudentsThere, HasEmail,
                      HasUsername
  <2>4. GradesFit' /\ ScenariosFit' /\ NotesFit'
    BY <1>0, <2>1 DEF GradesFit, HasLevel, ScenariosFit, HasKey, Usable, Logged,
                      NotesFit, DemoNotes
  <2>5. ClassesFit'
    BY <1>0, <2>1, <2>2 DEF ClassesFit, Mine, ClassesMade, UnderConstruction, Item
  <2>6. CoursesFit' /\ CoursesDone' /\ CoursesPromised'
    BY <1>0, <2>1 DEF CoursesFit, HasParents, DemoOfOneRun, CoursesDone, PartsOf,
                      CoursesPromised
  <2>7. RecreateFits'
    BY <1>0, <2>1 DEF RecreateFits, OnlyAccounts
  <2> QED
    BY <2>2, <2>3, <2>4, <2>5, <2>6, <2>7 DEF SeedInv
<1> QED
  BY <1>1, <1>3, <1>4, <1>5, <1>6 DEF Next, Rest

LEMMA SeedInvariant == Spec => []SeedInv
<1> QED
  BY SeedInit, SeedStep, PTL DEF Spec

(* Every row carries the number of the run that made it and has a table,   *)
(* and the grades have their levels, whatever was dropped or interrupted   *)
(* (scripts/).                                                             *)
THEOREM SeedingTypeCorrect == Spec => []TypeOK
<1>1. SeedInv => TypeOK
  <2> SUFFICES ASSUME SeedInv PROVE TypeOK
    OBVIOUS
  <2>1. /\ running.script \in Scripts \union {"none"} /\ running.todo \subseteq Nat
    BY DEF SeedInv, SeedType, Idle, Nothing, RunFits, Runs
  <2>2. finished.script \in Scripts \union {"none"}
    BY DEF SeedInv, SeedType, Nothing, Runs
  <2>3. \A row \in users \union grades \union scenarios \union classes \union notes
                   \union courses : row.by \in 0 .. started
    BY DEF SeedInv, UsersFit, GradesFit, ScenariosFit, ClassesFit, NotesFit, CoursesFit
  <2>4. /\ "users" \in tables \/ users = {}
        /\ "grades" \in tables \/ grades = {}
        /\ "test_scenarios" \in tables \/ scenarios = {}
        /\ "classes" \in tables \/ classes = {}
        /\ "notifications" \in tables \/ notes = {}
        /\ \A g \in grades : g.level \in 1 .. NumLevels
    BY DEF SeedInv, UsersFit, GradesFit, ScenariosFit, ClassesFit, NotesFit
  <2>5. /\ started \in 0 .. MaxStarts /\ kills \in 0 .. MaxKills /\ year \in 1 .. MaxYear
        /\ tables \subseteq Range(Tables)
        /\ logs \in [1 .. NumSamples -> {"none", "whole", "unusable"}]
    BY DEF SeedInv, SeedType
  <2> QED
    BY <2>1, <2>2, <2>3, <2>4, <2>5 DEF TypeOK
<1> QED
  BY <1>1, SeedInvariant, PTL

(* However the scripts are ordered, interrupted and repeated, none of them *)
(* inserts an email, a username, a grade or a test case a second time      *)
(* (seed-test-scenarios.ts:3).                                             *)
THEOREM NaturalKeysUniqueCorrect == Spec => []NaturalKeysUnique
<1>1. SeedInv => NaturalKeysUnique
  BY DEF SeedInv, UsersFit, GradesFit, ScenariosFit, NaturalKeysUnique
<1> QED
  BY <1>1, SeedInvariant, PTL

(* A script that ends well leaves what it promises, whatever was half done *)
(* before it: whole classes of one generation, every part of the course,   *)
(* nothing but the seed accounts after recreate-db                         *)
(* (seed-dashboard.ts:10-13, recreate-db.ts:3).                            *)
THEOREM FinishedAsPromisedCorrect == Spec => []FinishedAsPromised
<1>1. SeedInv => FinishedAsPromised
  <2> SUFFICES ASSUME SeedInv PROVE FinishedAsPromised
    OBVIOUS
  <2>1. CASE finished.script = "grades"
    <3>1. {g.level : g \in grades} = 1 .. NumLevels
      BY <2>1 DEF SeedInv, GradesFit, HasLevel
    <3> QED
      BY <2>1, <3>1 DEF FinishedAsPromised
  <2>2. CASE finished.script = "user"
    BY <2>2 DEF SeedInv, UsersPromised, FinishedAsPromised
  <2>3. CASE finished.script = "users-bulk"
    BY <2>3 DEF SeedInv, UsersPromised, FinishedAsPromised
  <2>4. CASE finished.script = "test-scenarios"
    <3>1. {<<"case", n>> : n \in Cases} \subseteq {s.key : s \in scenarios}
      BY <2>4 DEF SeedInv, ScenariosFit, HasKey, Cases
    <3> QED
      BY <2>4, <3>1 DEF FinishedAsPromised
  <2>5. CASE finished.script = "from-logs"
    <3>a. \A k \in Usable(finished.arg) : \E s \in scenarios : s.key = <<"log", k>>
      BY <2>5 DEF SeedInv, ScenariosFit, HasKey
    <3>1. {<<"log", k>> : k \in Usable(finished.arg)}
              \subseteq {s.key : s \in scenarios}
      BY <3>a
    <3> QED
      BY <2>5, <3>1 DEF FinishedAsPromised
  <2>6. CASE finished.script = "dashboard"
    <3>1. Range(ClassParts) = AllParts
      <4>1. /\ DOMAIN ClassParts = {1, 2, 3} /\ ClassParts[1] = "enrolments"
            /\ ClassParts[2] = "sessions" /\ ClassParts[3] = "tuitions"
        BY DEF ClassParts
      <4> QED
        BY <4>1 DEF Range, AllParts
    <3>2. /\ {class.num : class \in Mine(finished.arg)} = 1 .. NumClasses
          /\ \A class \in Mine(finished.arg) :
                class.by = finished.by /\ class.has = AllParts
      BY <2>6 DEF SeedInv, ClassesFit
    <3>3. DemoNotes(finished.arg) =
            {[title |-> "[demo]", tutor |-> finished.arg, by |-> finished.by]}
      BY <2>6 DEF SeedInv, NotesFit
    <3>4. StudentsThere
      BY <2>6 DEF SeedInv, UsersPromised
    <3>5. DashboardFresh(finished.arg, finished.by)
      BY <3>1, <3>2, <3>3, <3>4 DEF DashboardFresh, Mine, DemoNotes, StudentsThere
    <3> QED
      BY <2>6, <3>5 DEF FinishedAsPromised
  <2>7. CASE finished.script = "curriculum-demo"
    <3>1. Range(DemoParts) = PartsOf(finished.by)
      BY <2>7, Lengths DEF SeedInv, CoursesPromised, Range
    <3> QED
      BY <2>7, <3>1 DEF FinishedAsPromised, PartsOf
  <2>8. CASE finished.script = "edu-flow"
    <3>1. Range(FlowParts) = PartsOf(finished.by)
      BY <2>8, Lengths DEF SeedInv, CoursesPromised, Range
    <3> QED
      BY <2>8, <3>1 DEF FinishedAsPromised, PartsOf
  <2>9. CASE finished.script = "recreate-db"
    <3>1. OnlySeedAccounts(finished.by)
      BY <2>9 DEF SeedInv, RecreateFits, OnlyAccounts, SeedAccounts, OnlySeedAccounts
    <3> QED
      BY <2>9, <3>1 DEF FinishedAsPromised
  <2>10. CASE finished.script = "none"
    BY <2>10 DEF FinishedAsPromised
  <2>11. finished.script \in Scripts \union {"none"}
    BY DEF SeedInv, SeedType, Nothing, Runs
  <2> QED
    BY <2>1, <2>2, <2>3, <2>4, <2>5, <2>6, <2>7, <2>8, <2>9, <2>10, <2>11 DEF Scripts
<1> QED
  BY <1>1, SeedInvariant, PTL

(* A suffix names the course of one run, also after an interruption        *)
(* (seed-curriculum-demo.ts:11).                                           *)
THEOREM DemoOfOneRunCorrect == Spec => []DemoOfOneRun
<1>1. SeedInv => DemoOfOneRun
  BY DEF SeedInv, CoursesFit
<1> QED
  BY <1>1, SeedInvariant, PTL

(* No script but recreate-db takes a row away that is not its own: the     *)
(* dashboard only what it marked as its own and of the tutor it was        *)
(* started for (seed-dashboard.ts).                                        *)
THEOREM OthersRowsSurviveCorrect == Spec => OthersRowsSurvive
<1> DEFINE Survive ==
        running.script # "recreate-db" =>
          /\ users \subseteq users' /\ grades \subseteq grades'
          /\ scenarios \subseteq scenarios' /\ courses \subseteq courses'
          /\ \A class \in classes \ classes' :
                /\ running.script = "dashboard"
                /\ Seeded(class) /\ class.tutor = running.arg
          /\ \A n \in notes \ notes' :
                running.script = "dashboard" /\ n.title = "[demo]"
<1>1. SeedInv /\ [Next]_vars => [Survive]_vars
  <2> SUFFICES ASSUME SeedInv, [Next]_vars PROVE [Survive]_vars
    OBVIOUS
  <2>0. SeedType /\ ClassesFit
    BY DEF SeedInv
  <2>1. CASE ScriptStep
    <3>0. StatementOfPhase /\ RunFits /\ ~Idle
      BY <2>0, <2>1, StepOfPhase, ScriptStepKeepsType
    <3>1. CASE DropTable
      BY <2>0, <3>1, DropTableMoves
    <3>2. CASE WipeClasses
      <4>1. running.script = "dashboard"
        BY <2>0, <3>2, WipeClassesMoves
      <4>2. /\ classes' = {class \in classes : ~(Seeded(class) /\ class.tutor = running.arg)}
            /\ UNCHANGED <<users, grades, scenarios, notes, courses>>
        BY <3>2 DEF WipeClasses, Wiped
      <4> QED
        BY <4>1, <4>2
    <3>3. CASE InsertClassPart
      <4>1. running.script = "dashboard"
        BY <2>0, <3>3, InsertClassPartMoves
      <4>2. \A class \in classes : class.by = running.by =>
               Seeded(class) /\ class.tutor = running.arg
        BY <2>0, <3>0 DEF ClassesFit
      <4>3. /\ \A class \in classes : class.by # running.by => class \in classes'
            /\ UNCHANGED <<users, grades, scenarios, notes, courses>>
        BY <3>3 DEF InsertClassPart
      <4> QED
        BY <4>1, <4>2, <4>3
    <3>4. CASE WipeNotes
      <4>1. running.script = "dashboard"
        BY <2>0, <3>4, WipeNotesMoves
      <4>2. /\ notes' = {n \in notes : n.tutor # running.arg \/ n.title # "[demo]"}
            /\ UNCHANGED <<users, grades, scenarios, classes, courses>>
        BY <3>4 DEF WipeNotes
      <4> QED
        BY <4>1, <4>2
    <3>5. CASE ~DropTable /\ ~WipeClasses /\ ~InsertClassPart /\ ~WipeNotes
      <4>1. users \subseteq users'
        BY <3>0, <3>5, Zenon DEF StatementOfPhase, MissingTable, rows, SeedLevel, SeedAccount,
           LookUpSlots, SeedSlot, SeedCase, SampleLogs, SeedLogCase, DashboardTutor,
           DashboardStudent, InsertClass, InsertNotes, DemoGrade, DemoTutor,
           InsertDemoPart, FlowGrade, Login, PostFlowPart, ListTables, PushSchema
      <4>2. grades \subseteq grades' /\ courses \subseteq courses'
        BY <3>0, <3>5, Zenon DEF StatementOfPhase, MissingTable, rows, SeedLevel, SeedAccount,
           LookUpSlots, SeedSlot, SeedCase, SampleLogs, SeedLogCase, DashboardTutor,
           DashboardStudent, InsertClass, InsertNotes, DemoGrade, DemoTutor,
           InsertDemoPart, FlowGrade, Login, PostFlowPart, ListTables, PushSchema
      <4>3. scenarios \subseteq scenarios'
        BY <3>0, <3>5, Zenon DEF StatementOfPhase, MissingTable, rows, SeedLevel, SeedAccount,
           LookUpSlots, SeedSlot, SeedCase, SampleLogs, SeedLogCase, DashboardTutor,
           DashboardStudent, InsertClass, InsertNotes, DemoGrade, DemoTutor, AddScenario,
           InsertDemoPart, FlowGrade, Login, PostFlowPart, ListTables, PushSchema
      <4>4. classes \subseteq classes' /\ notes \subseteq notes'
        BY <3>0, <3>5, Zenon DEF StatementOfPhase, MissingTable, rows, SeedLevel, SeedAccount,
           LookUpSlots, SeedSlot, SeedCase, SampleLogs, SeedLogCase, DashboardTutor,
           DashboardStudent, InsertClass, InsertNotes, DemoGrade, DemoTutor,
           InsertDemoPart, FlowGrade, Login, PostFlowPart, ListTables, PushSchema
      <4> QED
        BY <4>1, <4>2, <4>3, <4>4
    <3> QED
      BY <3>1, <3>2, <3>3, <3>4, <3>5
  <2>2. CASE ~ScriptStep
    <3>1. UNCHANGED <<users, grades, scenarios, classes, notes, courses>>
      BY <2>2, Zenon DEF Next, Start, Kill, Traffic, NewYear, Rest, vars, rows
    <3> QED
      BY <3>1
  <2> QED
    BY <2>1, <2>2
<1> QED
  BY <1>1, SeedInvariant, PTL DEF Spec, OthersRowsSurvive
=============================================================================
