---------------------------- MODULE TestScenario ----------------------------
(***************************************************************************)
(* Stored test cases and their runs, features/test-scenario/.  A run reads *)
(* its scenario once, fires the scenario's request at the gateway, waits   *)
(* at most fifteen seconds for the answer and inserts its verdict into     *)
(* test_runs, while other callers edit and delete scenarios.  The gateway  *)
(* and Postgres are external.                                              *)
(***************************************************************************)
EXTENDS Integers, FiniteSets

CONSTANTS
    Scenarios,   \* ids that test_scenarios may give out
    Runs,        \* runs of a behaviour; a run is its correlation id
    Statuses,    \* HTTP statuses
    Categories,  \* a case of category "auth" tests token handling
    Templates,   \* Authorization header of the request template, if any
    MaxEdits,    \* bound: updates in a behaviour
    MaxCrashes   \* bound: crashes of the service

ASSUME ScenarioAssumption ==
    /\ Statuses \subseteq 100 .. 599 /\ Statuses # {}
    /\ "valid" \in Categories /\ Categories \subseteq {"valid", "auth"}
    /\ "plain" \in Templates
    /\ Templates \subseteq {"plain", "placeholder", "literal"}
    /\ IsFiniteSet(Runs)
    /\ MaxEdits \in Nat /\ MaxCrashes \in Nat

VARIABLES
    up,         \* the service runs
    table,      \* table[s]: the row in test_scenarios, Unborn or Deleted
    run,        \* run[r]: where run r stands
    snapshot,   \* snapshot[r]: the row and its id that run r works with
    request,    \* request[r]: the Authorization header it fired
    actual,     \* actual[r]: the status the gateway answered, or NoStatus
    insert,     \* insert[r]: what became of its INSERT
    reply,      \* reply[r]: what the caller of the run was answered
    testRuns,   \* the rows of test_runs
    edits,      \* updates so far
    crashes     \* crashes so far

vars == <<up, table, run, snapshot, request, actual, insert, reply, testRuns,
          edits, crashes>>
-----------------------------------------------------------------------------
Fields == [expected : Statuses, category : Categories, template : Templates]

NoStatus == 0
Blank == [expected |-> NoStatus, category |-> "none", template |-> "none"]
Unborn == [stored |-> FALSE, fields |-> Blank, born |-> FALSE]
Deleted == [stored |-> FALSE, fields |-> Blank, born |-> TRUE]
Row(fields) == [stored |-> TRUE, fields |-> fields, born |-> TRUE]

Stored(s) == table[s].stored

NoSnapshot == [id |-> "none", fields |-> Blank]
Snapshot == [id : Scenarios, fields : Fields]

(* `at` is created_at: how many rows were inserted before. *)
Verdict == [run : Runs, scenario : Scenarios, expected : Statuses,
            actual : Statuses \union {NoStatus}, passed : BOOLEAN, at : Nat]

Executing(r) == run[r] \in {"fetching", "draining", "recording"}

(* Types of the scenarios, the runs and their rows. *)
TypeOK ==
    /\ up \in BOOLEAN
    /\ table \in [Scenarios -> {Unborn, Deleted} \union {Row(f) : f \in Fields}]
    /\ run \in [Runs -> {"idle", "fetching", "draining", "recording", "over",
                         "lost"}]
    /\ snapshot \in [Runs -> Snapshot \union {NoSnapshot}]
    /\ request \in [Runs -> {"none", "absent", "token", "literal"}]
    /\ actual \in [Runs -> Statuses \union {NoStatus}]
    /\ insert \in [Runs -> {"none", "sent", "stored", "refused"}]
    /\ reply \in [Runs -> {"none", "started", "row", "error", "not found"}]
    /\ testRuns \subseteq Verdict
    /\ edits \in 0 .. MaxEdits /\ crashes \in 0 .. MaxCrashes

Init ==
    /\ up = TRUE
    /\ table = [s \in Scenarios |-> Unborn]
    /\ run = [r \in Runs |-> "idle"]
    /\ snapshot = [r \in Runs |-> NoSnapshot]
    /\ request = [r \in Runs |-> "none"]
    /\ actual = [r \in Runs |-> NoStatus]
    /\ insert = [r \in Runs |-> "none"]
    /\ reply = [r \in Runs |-> "none"]
    /\ testRuns = {}
    /\ edits = 0
    /\ crashes = 0
-----------------------------------------------------------------------------
(* TestScenarioRepository.create, .update and .delete: one statement each. *)
Create(s) ==
    /\ up /\ table[s] = Unborn
    /\ \E fields \in Fields : table' = [table EXCEPT ![s] = Row(fields)]
    /\ UNCHANGED <<up, run, snapshot, request, actual, insert, reply, testRuns,
                   edits, crashes>>

(* The columns that the payload names, which are some: drizzle refuses an  *)
(* empty set.  The payload is stored as it comes; no schema is applied.    *)
Update(s) ==
    /\ up /\ Stored(s) /\ edits < MaxEdits
    /\ \E given \in (SUBSET DOMAIN Blank) \ {{}}, asked \in Fields :
          table' = [table EXCEPT ![s] =
              Row([f \in DOMAIN Blank |->
                      IF f \in given THEN asked[f] ELSE table[s].fields[f]])]
    /\ edits' = edits + 1
    /\ UNCHANGED <<up, run, snapshot, request, actual, insert, reply, testRuns,
                   crashes>>

(* Whether the runs of a scenario go with it is decided by the schema      *)
(* package, outside this repository.                                       *)
Delete(s) ==
    /\ up /\ Stored(s)
    /\ table' = [table EXCEPT ![s] = Deleted]
    /\ testRuns' \in {testRuns, {v \in testRuns : v.scenario # s}}
    /\ UNCHANGED <<up, run, snapshot, request, actual, insert, reply, edits,
                   crashes>>
-----------------------------------------------------------------------------
(* The Authorization header: a {{accessToken}} placeholder needs a caller  *)
(* with a token; a template without the header gets the caller's token,    *)
(* except in a case that tests token handling.                             *)
Authorization(fields, hasToken) ==
    CASE fields.template = "literal" -> "literal"
      [] fields.template = "placeholder" /\ hasToken -> "token"
      [] fields.template = "plain" /\ hasToken /\ fields.category # "auth"
            -> "token"
      [] OTHER -> "absent"

(* run and execute up to the fetch.  Without `wait` the caller is answered *)
(* at once.                                                                *)
StartRun(r, s) ==
    /\ up /\ run[r] = "idle" /\ Stored(s)
    /\ run' = [run EXCEPT ![r] = "fetching"]
    /\ snapshot' = [snapshot EXCEPT ![r] = [id |-> s, fields |-> table[s].fields]]
    /\ \E hasToken \in BOOLEAN :
          request' = [request EXCEPT
                         ![r] = Authorization(table[s].fields, hasToken)]
    /\ \E wait \in BOOLEAN :
          reply' = [reply EXCEPT ![r] = IF wait THEN "none" ELSE "started"]
    /\ UNCHANGED <<up, table, actual, insert, testRuns, edits, crashes>>

RunNotFound(r, s) ==
    /\ up /\ run[r] = "idle" /\ ~Stored(s)
    /\ run' = [run EXCEPT ![r] = "over"]
    /\ reply' = [reply EXCEPT ![r] = "not found"]
    /\ UNCHANGED <<up, table, snapshot, request, actual, insert, testRuns,
                   edits, crashes>>

(* The gateway answers, and the body is drained. *)
Respond(r) ==
    /\ up /\ run[r] = "fetching"
    /\ \E status \in Statuses : actual' = [actual EXCEPT ![r] = status]
    /\ run' = [run EXCEPT ![r] = "draining"]
    /\ UNCHANGED <<up, table, snapshot, request, insert, reply, testRuns, edits,
                   crashes>>

(* Faulty variant: only the answer's body is bounded in time. *)
FetchEndsIfAnswered(r) ==
    /\ up /\ run[r] = "draining"
    /\ run' = [run EXCEPT ![r] = "recording"]
    /\ insert' = [insert EXCEPT ![r] = "sent"]
    /\ UNCHANGED <<up, table, snapshot, request, actual, reply, testRuns, edits,
                   crashes>>

(* The body is in, or the request fails, or its fifteen seconds are over;  *)
(* a status that arrived stands.                                           *)
FetchEnds(r) ==
    /\ up /\ run[r] \in {"fetching", "draining"}
    /\ run' = [run EXCEPT ![r] = "recording"]
    /\ insert' = [insert EXCEPT ![r] = "sent"]
    /\ UNCHANGED <<up, table, snapshot, request, actual, reply, testRuns, edits,
                   crashes>>
-----------------------------------------------------------------------------
Inserted == Cardinality({q \in Runs : insert[q] = "stored"})

(* Faulty variant: the expectation is read again for the row. *)
VerdictReread(r) ==
    LET s == snapshot[r].id
    IN  [run |-> r, scenario |-> s,
         expected |-> IF Stored(s) THEN table[s].fields.expected
                                   ELSE snapshot[r].fields.expected,
         actual |-> actual[r],
         passed |-> actual[r] = snapshot[r].fields.expected, at |-> Inserted]

(* Faulty variant: a run that got no status records none to expect. *)
VerdictOfNothing(r) ==
    [run |-> r, scenario |-> snapshot[r].id,
     expected |-> IF actual[r] = NoStatus THEN NoStatus
                                          ELSE snapshot[r].fields.expected,
     actual |-> actual[r],
     passed |-> actual[r] = snapshot[r].fields.expected, at |-> Inserted]

VerdictOf(r) ==
    [run |-> r, scenario |-> snapshot[r].id,
     expected |-> snapshot[r].fields.expected, actual |-> actual[r],
     passed |-> actual[r] = snapshot[r].fields.expected, at |-> Inserted]

(* Postgres executes createRun's INSERT or refuses it, as it must when the *)
(* scenario is gone and the schema package says so.                        *)
InsertRun(r) ==
    /\ insert[r] = "sent"
    /\ \/ /\ insert' = [insert EXCEPT ![r] = "stored"]
          /\ testRuns' = testRuns \union {VerdictOf(r)}
       \/ /\ insert' = [insert EXCEPT ![r] = "refused"]
          /\ UNCHANGED testRuns
    /\ UNCHANGED <<up, table, run, snapshot, request, actual, reply, edits,
                   crashes>>

Conclude(r, answer) ==
    /\ run' = [run EXCEPT ![r] = "over"]
    /\ reply' = [reply EXCEPT ![r] = IF @ = "started" THEN @ ELSE answer]
    /\ UNCHANGED <<up, table, snapshot, request, actual, insert, testRuns,
                   edits, crashes>>

(* Faulty variant: the insert is not awaited. *)
RecordedUnawaited(r) ==
    /\ up /\ run[r] = "recording"
    /\ Conclude(r, "row")

Recorded(r) ==
    /\ up /\ run[r] = "recording" /\ insert[r] = "stored"
    /\ Conclude(r, "row")

(* The insert was refused, or its answer was lost with the connection.  A  *)
(* background run leaves a warning.                                        *)
NotRecorded(r) ==
    /\ up /\ run[r] = "recording"
    /\ Conclude(r, "error")

Crash ==
    /\ up /\ crashes < MaxCrashes
    /\ up' = FALSE
    /\ run' = [r \in Runs |-> IF Executing(r) THEN "lost" ELSE run[r]]
    /\ crashes' = crashes + 1
    /\ UNCHANGED <<table, snapshot, request, actual, insert, reply, testRuns,
                   edits>>

Restart ==
    /\ ~up
    /\ up' = TRUE
    /\ UNCHANGED <<table, run, snapshot, request, actual, insert, reply,
                   testRuns, edits, crashes>>

Next ==
    \/ \E s \in Scenarios : Create(s) \/ Update(s) \/ Delete(s)
    \/ \E r \in Runs, s \in Scenarios : StartRun(r, s) \/ RunNotFound(r, s)
    \/ \E r \in Runs : \/ Respond(r) \/ FetchEnds(r) \/ InsertRun(r)
                       \/ Recorded(r) \/ NotRecorded(r)
    \/ Crash \/ Restart

Spec == Init /\ [][Next]_vars

(* The gateway may never answer; the timeout fires, and Postgres or the    *)
(* broken connection to it answers an insert.                              *)
FairSpec ==
    Spec /\ \A r \in Runs : /\ WF_vars(FetchEnds(r))
                            /\ WF_vars(InsertRun(r))
                            /\ WF_vars(Recorded(r) \/ NotRecorded(r))
-----------------------------------------------------------------------------
(* A recorded verdict agrees with the expectation recorded beside it, also *)
(* when the scenario was edited or deleted while the run was under way,    *)
(* and no run is recorded twice (test-scenario.service.ts execute).        *)
VerdictsConsistent ==
    \A v \in testRuns :
        /\ v.passed <=> v.actual = v.expected
        /\ \A w \in testRuns : w.run = v.run => w = v

(* Why the rows of test_runs can be relied on: a run inserts its verdict   *)
(* once, for a scenario that was born and whose id is not given out again. *)
Working(r) == Executing(r) \/ insert[r] # "none"

RunInv(r) ==
    /\ run[r] = "idle" => insert[r] = "none" /\ reply[r] = "none"
    /\ run[r] \in {"fetching", "draining"} => insert[r] = "none"
    /\ Working(r) => snapshot[r] \in Snapshot /\ table[snapshot[r].id].born
    /\ reply[r] = "row" => insert[r] = "stored"
    /\ insert[r] = "stored" =>
          \/ \E v \in testRuns : v.run = r /\ v.scenario = snapshot[r].id
          \/ ~Stored(snapshot[r].id)

ScenarioInv ==
    /\ TypeOK
    /\ \A r \in Runs : RunInv(r)
    /\ VerdictsConsistent
    /\ \A v \in testRuns :
          insert[v.run] = "stored" /\ v.scenario = snapshot[v.run].id

(* A caller that is handed a verdict finds it in the table, unless the     *)
(* scenario was deleted since (test-scenario.service.ts run, `wait`).      *)
VerdictIsRecorded ==
    \A r \in Runs :
        reply[r] = "row" =>
            \/ \E v \in testRuns : v.run = r
            \/ ~Stored(snapshot[r].id)

(* Every run ends, in the background too, whether or not the gateway ever  *)
(* answers, unless the service dies under it (RUN_TIMEOUT_MS).             *)
RunsEnd == \A r \in Runs : Executing(r) ~> run[r] \in {"over", "lost"}
=============================================================================
