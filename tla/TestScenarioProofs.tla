------------------------- MODULE TestScenarioProofs -------------------------
(***************************************************************************)
(* TestScenario is correct for any number of scenarios, runs, edits and    *)
(* crashes: its state is well formed, recorded verdicts are consistent and *)
(* whoever is handed a verdict finds it in test_runs.  All three follow    *)
(* from ScenarioInv, which every step preserves.                           *)
(***************************************************************************)
EXTENDS TestScenario, FiniteSetTheorems, TLAPS

(* A row of test_scenarios that was stored is Row(f) for its fields. *)
LEMMA StoredRow ==
    ASSUME NEW s \in Scenarios, TypeOK, Stored(s)
    PROVE  /\ table[s] = Row(table[s].fields)
           /\ table[s].fields \in Fields
           /\ table[s].born
<1>1. table[s] \in {Unborn, Deleted} \union {Row(f) : f \in Fields}
  BY DEF TypeOK
<1>2. table[s] # Unborn /\ table[s] # Deleted
  BY DEF Stored, Unborn, Deleted
<1>3. PICK f \in Fields : table[s] = Row(f)
  BY <1>1, <1>2
<1> QED
  BY <1>3 DEF Row

(* created_at is a number. *)
LEMMA InsertedNat ==
    ASSUME TypeOK
    PROVE  Inserted \in Nat
<1>1. IsFiniteSet({q \in Runs : insert[q] = "stored"})
  BY ScenarioAssumption, FS_Subset
<1> QED
  BY <1>1, FS_CardinalityType DEF Inserted

(* What a run inserts is a row of test_runs whose verdict agrees with its  *)
(* expectation.                                                            *)
LEMMA VerdictOfType ==
    ASSUME TypeOK, NEW r \in Runs, snapshot[r] \in Snapshot
    PROVE  /\ VerdictOf(r) \in Verdict
           /\ VerdictOf(r).run = r
           /\ VerdictOf(r).scenario = snapshot[r].id
           /\ VerdictOf(r).passed <=> VerdictOf(r).actual = VerdictOf(r).expected
<1>1. actual[r] \in Statuses \union {NoStatus}
  BY DEF TypeOK
<1>2. snapshot[r].id \in Scenarios /\ snapshot[r].fields.expected \in Statuses
  BY DEF Snapshot, Fields
<1> QED
  BY <1>1, <1>2, InsertedNat DEF VerdictOf, Verdict

(* The initial state is good: nothing exists. *)
LEMMA ScenarioInit == Init => ScenarioInv
<1> SUFFICES ASSUME Init PROVE ScenarioInv
  OBVIOUS
<1>1. TypeOK
  BY ScenarioAssumption DEF Init, TypeOK
<1>2. ASSUME NEW r \in Runs PROVE RunInv(r)
  BY DEF Init, RunInv, Working, Executing
<1> QED
  BY <1>1, <1>2 DEF Init, ScenarioInv, VerdictsConsistent
-----------------------------------------------------------------------------
(* The steps on test_scenarios.  A run keeps its snapshot whatever becomes *)
(* of the row; a deletion may take the runs of that scenario with it.      *)
LEMMA CreateKeeps ==
    ASSUME ScenarioInv, NEW s \in Scenarios, Create(s)
    PROVE  ScenarioInv'
<1>1. PICK fields \in Fields : table' = [table EXCEPT ![s] = Row(fields)]
  BY DEF Create
<1>2. TypeOK'
  BY <1>1 DEF ScenarioInv, TypeOK, Create
<1>3. ASSUME NEW r \in Runs PROVE RunInv(r)'
  <2>1. RunInv(r) /\ table[s] = Unborn /\ snapshot' = snapshot
    BY DEF ScenarioInv, Create
  <2>2. Working(r) => snapshot[r].id \in Scenarios /\ snapshot[r].id # s
    BY <2>1 DEF RunInv, Snapshot, Unborn
  <2>3. Working(r) => table'[snapshot[r].id] = table[snapshot[r].id]
    BY <1>1, <2>2 DEF ScenarioInv, TypeOK
  <2> QED
    BY <2>1, <2>3 DEF RunInv, Working, Executing, Stored, Create
<1> QED
  BY <1>2, <1>3 DEF ScenarioInv, VerdictsConsistent, Create

LEMMA UpdateKeeps ==
    ASSUME ScenarioInv, NEW s \in Scenarios, Update(s)
    PROVE  ScenarioInv'
<1>1. PICK given \in (SUBSET DOMAIN Blank) \ {{}}, asked \in Fields :
          table' = [table EXCEPT ![s] =
              Row([f \in DOMAIN Blank |->
                      IF f \in given THEN asked[f] ELSE table[s].fields[f]])]
  BY DEF Update
<1> DEFINE new == [f \in DOMAIN Blank |->
                      IF f \in given THEN asked[f] ELSE table[s].fields[f]]
<1>2. new \in Fields
  <2>1. table[s].fields \in Fields
    BY StoredRow DEF ScenarioInv, Update
  <2> QED
    BY <2>1 DEF Blank, Fields
<1>3. table' = [table EXCEPT ![s] = Row(new)] /\ edits < MaxEdits
  BY <1>1 DEF Update
<1> HIDE DEF new
<1>4. TypeOK'
  <2>1. edits' \in 0 .. MaxEdits
    <3>1. edits \in 0 .. MaxEdits /\ edits < MaxEdits /\ edits' = edits + 1
      BY DEF Update, ScenarioInv, TypeOK
    <3> QED
      BY <3>1, ScenarioAssumption
  <2>2. table' \in [Scenarios -> {Unborn, Deleted} \union {Row(f) : f \in Fields}]
    BY <1>2, <1>3 DEF ScenarioInv, TypeOK
  <2> QED
    BY <1>1, <2>1, <2>2 DEF Update, ScenarioInv, TypeOK
<1>5. ASSUME NEW r \in Runs PROVE RunInv(r)'
  <2>1. RunInv(r) /\ snapshot' = snapshot
    BY <1>1 DEF ScenarioInv, Update
  <2>2. ASSUME NEW t \in Scenarios
        PROVE  /\ table[t].born => table'[t].born
               /\ Stored(t)' <=> Stored(t)
    <3>1. Stored(s) /\ table \in [Scenarios -> {Unborn, Deleted}
                                        \union {Row(f) : f \in Fields}]
      BY <1>1 DEF ScenarioInv, TypeOK, Update
    <3>2. table'[s].stored /\ table'[s].born
      BY <1>3, <3>1 DEF Row
    <3>3. t # s => table'[t] = table[t]
      BY <1>3, <3>1
    <3> QED
      BY <3>1, <3>2, <3>3 DEF Stored
  <2>3. Working(r) => snapshot[r].id \in Scenarios
    BY <2>1 DEF RunInv, Snapshot
  <2> QED
    BY <1>1, <2>1, <2>2, <2>3 DEF RunInv, Working, Executing, Stored, Update
<1> QED
  BY <1>1, <1>4, <1>5 DEF ScenarioInv, VerdictsConsistent, Update

LEMMA DeleteKeeps ==
    ASSUME ScenarioInv, NEW s \in Scenarios, Delete(s)
    PROVE  ScenarioInv'
<1>1. /\ table' = [table EXCEPT ![s] = Deleted]
      /\ testRuns' \subseteq testRuns
      /\ \A v \in testRuns : v.scenario # s => v \in testRuns'
  BY DEF Delete
<1>2. TypeOK'
  BY <1>1 DEF ScenarioInv, TypeOK, Delete
<1>3. ASSUME NEW r \in Runs PROVE RunInv(r)'
  <2>1. RunInv(r) /\ snapshot' = snapshot /\ insert' = insert
    BY DEF ScenarioInv, Delete
  <2>2. Working(r) => snapshot[r].id \in Scenarios
    BY <2>1 DEF RunInv, Snapshot
  <2>3. Working(r) => table'[snapshot[r].id].born
    BY <1>1, <2>1, <2>2 DEF RunInv, ScenarioInv, TypeOK, Deleted
  <2>4. ASSUME insert[r] = "stored", Stored(snapshot[r].id)'
        PROVE  \E v \in testRuns' : v.run = r /\ v.scenario = snapshot[r].id
    <3>1. Working(r)
      BY <2>4 DEF Working
    <3>2. snapshot[r].id # s
      BY <1>1, <2>1, <2>2, <2>4, <3>1 DEF ScenarioInv, TypeOK, Stored, Deleted
    <3>3. Stored(snapshot[r].id)
      BY <1>1, <2>1, <2>2, <2>4, <3>1, <3>2 DEF ScenarioInv, TypeOK, Stored
    <3> QED
      BY <1>1, <2>1, <2>4, <3>2, <3>3 DEF RunInv
  <2> QED
    BY <2>1, <2>3, <2>4 DEF RunInv, Working, Executing, Stored, Delete
<1>4. VerdictsConsistent'
  BY <1>1 DEF ScenarioInv, VerdictsConsistent
<1> QED
  BY <1>1, <1>2, <1>3, <1>4 DEF ScenarioInv, Delete
-----------------------------------------------------------------------------
(* The steps of a run before its insert is executed. *)
LEMMA StartRunKeeps ==
    ASSUME ScenarioInv, NEW r \in Runs, NEW s \in Scenarios, StartRun(r, s)
    PROVE  ScenarioInv'
<1>1. /\ run[r] = "idle" /\ insert[r] = "none" /\ reply[r] = "none"
      /\ Stored(s)
  BY DEF StartRun, ScenarioInv, RunInv
<1>2. /\ snapshot' = [snapshot EXCEPT ![r] = [id |-> s, fields |-> table[s].fields]]
      /\ run' = [run EXCEPT ![r] = "fetching"]
      /\ reply'[r] \in {"none", "started"}
      /\ \A q \in Runs \ {r} : reply'[q] = reply[q]
      /\ UNCHANGED <<table, insert, testRuns>>
  BY DEF StartRun, ScenarioInv, TypeOK
<1>3. [id |-> s, fields |-> table[s].fields] \in Snapshot
  BY <1>1, StoredRow DEF ScenarioInv, Snapshot
<1>4. TypeOK'
  <2>1. PICK h \in BOOLEAN : request' = [request EXCEPT
            ![r] = Authorization(table[s].fields, h)]
    BY DEF StartRun
  <2>2. Authorization(table[s].fields, h) \in {"absent", "token", "literal"}
    BY DEF Authorization
  <2>3. request' \in [Runs -> {"none", "absent", "token", "literal"}]
    BY <2>1, <2>2 DEF ScenarioInv, TypeOK
  <2>4. reply' \in [Runs -> {"none", "started", "row", "error", "not found"}]
    BY DEF StartRun, ScenarioInv, TypeOK
  <2> QED
    <3>1. /\ snapshot' \in [Runs -> Snapshot \union {NoSnapshot}]
          /\ run' \in [Runs -> {"idle", "fetching", "draining", "recording",
                               "over", "lost"}]
      BY <1>2, <1>3 DEF ScenarioInv, TypeOK
    <3>2. UNCHANGED <<up, actual, edits, crashes>>
      BY DEF StartRun
    <3> QED
      BY <1>2, <2>3, <2>4, <3>1, <3>2 DEF ScenarioInv, TypeOK
<1>5. ASSUME NEW q \in Runs PROVE RunInv(q)'
  <2>1. RunInv(q)
    BY DEF ScenarioInv
  <2>2. CASE q = r
    <3>1. snapshot'[r] \in Snapshot /\ table[snapshot'[r].id].born
      BY <1>1, <1>2, <1>3, StoredRow DEF ScenarioInv, TypeOK
    <3> QED
      BY <1>1, <1>2, <2>2, <3>1 DEF RunInv, Working, ScenarioInv, TypeOK
  <2>3. CASE q # r
    <3>1. snapshot'[q] = snapshot[q] /\ run'[q] = run[q]
      BY <1>2, <2>3 DEF ScenarioInv, TypeOK
    <3> QED
      BY <1>2, <2>1, <2>3, <3>1 DEF RunInv, Working, Executing, Stored
  <2> QED
    BY <2>2, <2>3
<1>6. ASSUME NEW v \in testRuns
      PROVE  insert[v.run] = "stored" /\ v.scenario = snapshot'[v.run].id
  <2>1. v.run \in Runs /\ insert[v.run] = "stored"
        /\ v.scenario = snapshot[v.run].id
    BY DEF ScenarioInv, TypeOK, Verdict
  <2> QED
    BY <1>1, <1>2, <2>1 DEF ScenarioInv, TypeOK
<1> QED
  BY <1>2, <1>4, <1>5, <1>6 DEF ScenarioInv, VerdictsConsistent

(* The steps that only move a run along. *)
Moved(r) ==
    /\ run'[r] = "idle" => run[r] = "idle" /\ reply'[r] = reply[r]
    /\ Executing(r)' => Executing(r)
    /\ run'[r] \in {"fetching", "draining"} =>
          run[r] \in {"fetching", "draining"}
    /\ reply'[r] = "row" => insert[r] = "stored"

LEMMA MoveKeeps ==
    ASSUME ScenarioInv, TypeOK',
           UNCHANGED <<table, snapshot, insert, testRuns>>,
           \A r \in Runs : Moved(r)
    PROVE  ScenarioInv'
<1>1. ASSUME NEW r \in Runs PROVE RunInv(r)'
  <2>1. RunInv(r)
    BY DEF ScenarioInv
  <2> QED
    BY <2>1 DEF RunInv, Working, Stored, Moved
<1> QED
  BY <1>1 DEF ScenarioInv, VerdictsConsistent

LEMMA RunNotFoundKeeps ==
    ASSUME ScenarioInv, NEW r \in Runs, NEW s \in Scenarios, RunNotFound(r, s)
    PROVE  ScenarioInv'
<1>1. TypeOK'
  BY DEF RunNotFound, ScenarioInv, TypeOK
<1>2. ASSUME NEW q \in Runs PROVE Moved(q)
  <2>1. RunInv(q) /\ run \in [Runs -> {"idle", "fetching", "draining",
                      "recording", "over", "lost"}]
        /\ reply \in [Runs -> {"none", "started", "row", "error", "not found"}]
    BY DEF ScenarioInv, TypeOK
  <2> QED
    BY <2>1 DEF RunNotFound, Moved, RunInv, Executing
<1>3. UNCHANGED <<table, snapshot, insert, testRuns>>
  BY DEF RunNotFound
<1> QED
  BY <1>1, <1>2, <1>3, MoveKeeps

LEMMA RespondKeeps ==
    ASSUME ScenarioInv, NEW r \in Runs, Respond(r)
    PROVE  ScenarioInv'
<1>1. TypeOK'
  BY DEF Respond, ScenarioInv, TypeOK
<1>2. ASSUME NEW q \in Runs PROVE Moved(q)
  <2>1. RunInv(q) /\ run \in [Runs -> {"idle", "fetching", "draining",
                      "recording", "over", "lost"}]
        /\ reply \in [Runs -> {"none", "started", "row", "error", "not found"}]
    BY DEF ScenarioInv, TypeOK
  <2> QED
    BY <2>1 DEF Respond, Moved, RunInv, Executing
<1>3. UNCHANGED <<table, snapshot, insert, testRuns>>
  BY DEF Respond
<1> QED
  BY <1>1, <1>2, <1>3, MoveKeeps

LEMMA ConcludeKeeps ==
    ASSUME ScenarioInv, NEW r \in Runs, NEW answer \in {"row", "error"},
           Executing(r), answer = "row" => insert[r] = "stored",
           Conclude(r, answer)
    PROVE  ScenarioInv'
<1>1. TypeOK'
  BY DEF Conclude, ScenarioInv, TypeOK
<1>2. ASSUME NEW q \in Runs PROVE Moved(q)
  <2>1. RunInv(q) /\ run \in [Runs -> {"idle", "fetching", "draining",
                      "recording", "over", "lost"}]
        /\ reply \in [Runs -> {"none", "started", "row", "error", "not found"}]
    BY DEF ScenarioInv, TypeOK
  <2> QED
    BY <2>1 DEF Conclude, Moved, RunInv, Executing
<1>3. UNCHANGED <<table, snapshot, insert, testRuns>>
  BY DEF Conclude
<1> QED
  BY <1>1, <1>2, <1>3, MoveKeeps

LEMMA CrashKeeps ==
    ASSUME ScenarioInv, Crash
    PROVE  ScenarioInv'
<1>1. TypeOK'
  <2>1. crashes' \in 0 .. MaxCrashes
    <3>1. crashes \in 0 .. MaxCrashes /\ crashes < MaxCrashes
          /\ crashes' = crashes + 1
      BY DEF Crash, ScenarioInv, TypeOK
    <3> QED
      BY <3>1, ScenarioAssumption
  <2>2. up' = FALSE /\ run' \in [Runs -> {"idle", "fetching", "draining",
                                       "recording", "over", "lost"}]
    BY DEF Crash, ScenarioInv, TypeOK
  <2> QED
    BY <2>1, <2>2 DEF Crash, ScenarioInv, TypeOK
<1>2. ASSUME NEW q \in Runs PROVE Moved(q)
  <2>1. RunInv(q) /\ run \in [Runs -> {"idle", "fetching", "draining",
                      "recording", "over", "lost"}]
        /\ reply \in [Runs -> {"none", "started", "row", "error", "not found"}]
    BY DEF ScenarioInv, TypeOK
  <2> QED
    BY <2>1 DEF Crash, Moved, RunInv, Executing
<1>3. UNCHANGED <<table, snapshot, insert, testRuns>>
  BY DEF Crash
<1> QED
  BY <1>1, <1>2, <1>3, MoveKeeps

LEMMA FetchEndsKeeps ==
    ASSUME ScenarioInv, NEW r \in Runs, FetchEnds(r)
    PROVE  ScenarioInv'
<1>1. TypeOK'
  BY DEF FetchEnds, ScenarioInv, TypeOK
<1>2. ASSUME NEW q \in Runs PROVE RunInv(q)'
  <2>1. RunInv(q)
    BY DEF ScenarioInv
  <2>2. insert[r] = "none" /\ Executing(r)
    BY DEF FetchEnds, ScenarioInv, RunInv, Executing
  <2> QED
    BY <2>1, <2>2 DEF FetchEnds, RunInv, Working, Executing, Stored,
                      ScenarioInv, TypeOK
<1>3. ASSUME NEW v \in testRuns
      PROVE  insert'[v.run] = "stored"
  <2>1. v.run \in Runs /\ insert[v.run] = "stored"
    BY DEF ScenarioInv, TypeOK, Verdict
  <2>2. insert[r] = "none"
    BY DEF FetchEnds, ScenarioInv, RunInv
  <2> QED
    BY <2>1, <2>2 DEF FetchEnds, ScenarioInv, TypeOK
<1> QED
  BY <1>1, <1>2, <1>3 DEF FetchEnds, ScenarioInv, VerdictsConsistent
-----------------------------------------------------------------------------
(* The step that matters: a run's only insert is executed or refused. *)
LEMMA InsertRunKeeps ==
    ASSUME ScenarioInv, NEW r \in Runs, InsertRun(r)
    PROVE  ScenarioInv'
<1>1. insert[r] = "sent" /\ UNCHANGED <<up, table, run, snapshot, request,
                                       actual, reply, edits, crashes>>
  BY DEF InsertRun
<1>2. snapshot[r] \in Snapshot
  BY <1>1 DEF ScenarioInv, RunInv, Working
<1>3. ASSUME NEW v \in testRuns PROVE v.run \in Runs /\ v.run # r
  BY <1>1 DEF ScenarioInv, TypeOK, Verdict
<1>4. CASE /\ insert' = [insert EXCEPT ![r] = "stored"]
           /\ testRuns' = testRuns \union {VerdictOf(r)}
  <2>1. /\ VerdictOf(r) \in Verdict
        /\ VerdictOf(r).run = r
        /\ VerdictOf(r).scenario = snapshot[r].id
        /\ VerdictOf(r).passed <=> VerdictOf(r).actual = VerdictOf(r).expected
    BY <1>2, VerdictOfType DEF ScenarioInv
  <2> DEFINE new == VerdictOf(r)
  <2> HIDE DEF new
  <2>2. TypeOK'
    BY <1>1, <1>4, <2>1 DEF ScenarioInv, TypeOK
  <2>3. ASSUME NEW q \in Runs PROVE RunInv(q)'
    <3>1. RunInv(q)
      BY DEF ScenarioInv
    <3>2. CASE q = r
      BY <1>1, <1>4, <2>1, <3>1, <3>2
         DEF RunInv, Working, Executing, ScenarioInv, TypeOK
    <3>3. CASE q # r
      <4>1. insert'[q] = insert[q]
        BY <1>4, <3>3 DEF ScenarioInv, TypeOK
      <4> QED
        BY <1>1, <1>4, <3>1, <4>1 DEF RunInv, Working, Executing, Stored
    <3> QED
      BY <3>2, <3>3
  <2>4. VerdictsConsistent'
    BY <1>3, <1>4, <2>1 DEF ScenarioInv, VerdictsConsistent
  <2>5. ASSUME NEW v \in testRuns'
        PROVE  insert'[v.run] = "stored" /\ v.scenario = snapshot'[v.run].id
    BY <1>1, <1>3, <1>4, <2>1 DEF ScenarioInv, TypeOK
  <2> QED
    BY <2>2, <2>3, <2>4, <2>5 DEF ScenarioInv
<1>5. CASE /\ insert' = [insert EXCEPT ![r] = "refused"]
           /\ UNCHANGED testRuns
  <2>1. TypeOK'
    BY <1>1, <1>5 DEF ScenarioInv, TypeOK
  <2>2. ASSUME NEW q \in Runs PROVE RunInv(q)'
    <3>1. RunInv(q) /\ (q # r => insert'[q] = insert[q])
          /\ insert'[r] = "refused"
      BY <1>5 DEF ScenarioInv, TypeOK
    <3> QED
      BY <1>1, <1>5, <3>1 DEF RunInv, Working, Executing, Stored
  <2>3. ASSUME NEW v \in testRuns PROVE insert'[v.run] = "stored"
    BY <1>3, <1>5 DEF ScenarioInv, TypeOK
  <2> QED
    BY <1>1, <1>5, <2>1, <2>2, <2>3 DEF ScenarioInv, VerdictsConsistent
<1> QED
  BY <1>4, <1>5 DEF InsertRun
-----------------------------------------------------------------------------
LEMMA ScenarioStep == ScenarioInv /\ [Next]_vars => ScenarioInv'
<1> SUFFICES ASSUME ScenarioInv, [Next]_vars PROVE ScenarioInv'
  OBVIOUS
<1>1. ASSUME NEW s \in Scenarios, Create(s) \/ Update(s) \/ Delete(s)
      PROVE  ScenarioInv'
  BY <1>1, CreateKeeps, UpdateKeeps, DeleteKeeps
<1>2. ASSUME NEW r \in Runs, NEW s \in Scenarios,
             StartRun(r, s) \/ RunNotFound(r, s)
      PROVE  ScenarioInv'
  BY <1>2, StartRunKeeps, RunNotFoundKeeps
<1>3. ASSUME NEW r \in Runs, Respond(r) \/ FetchEnds(r) \/ InsertRun(r)
      PROVE  ScenarioInv'
  BY <1>3, RespondKeeps, FetchEndsKeeps, InsertRunKeeps
<1>4. ASSUME NEW r \in Runs, Recorded(r) \/ NotRecorded(r)
      PROVE  ScenarioInv'
  <2>1. Executing(r)
    BY <1>4 DEF Recorded, NotRecorded, Executing
  <2> QED
    BY <1>4, <2>1, ConcludeKeeps DEF Recorded, NotRecorded
<1>5. ASSUME Restart PROVE ScenarioInv'
  BY <1>5 DEF Restart, ScenarioInv, TypeOK, RunInv, Working, Executing, Stored,
              VerdictsConsistent
<1>6. CASE UNCHANGED vars
  BY <1>6 DEF vars, ScenarioInv, TypeOK, RunInv, Working, Executing, Stored,
              VerdictsConsistent
<1> QED
  BY <1>1, <1>2, <1>3, <1>4, <1>5, <1>6, CrashKeeps DEF Next

LEMMA ScenarioInvariant == Spec => []ScenarioInv
BY ScenarioInit, ScenarioStep, PTL DEF Spec

(* The state of scenarios and runs is well formed, above all every row of  *)
(* test_runs holds a verdict on an expectation its scenario once had, for  *)
(* any number of runs, edits and crashes (test-scenario.service.ts).       *)
THEOREM ScenarioTypeCorrect == Spec => []TypeOK
<1>1. ScenarioInv => TypeOK
  BY DEF ScenarioInv
<1> QED
  BY <1>1, ScenarioInvariant, PTL

(* A recorded verdict agrees with the expectation beside it, and a run is  *)
(* recorded once, whatever is edited, deleted, lost or refused meanwhile   *)
(* (test-scenario.service.ts execute).                                     *)
THEOREM VerdictsConsistentCorrect == Spec => []VerdictsConsistent
<1>1. ScenarioInv => VerdictsConsistent
  BY DEF ScenarioInv
<1> QED
  BY <1>1, ScenarioInvariant, PTL

(* Whoever is handed a verdict finds it in test_runs unless the scenario   *)
(* was deleted since (test-scenario.service.ts run).                       *)
THEOREM VerdictIsRecordedCorrect == Spec => []VerdictIsRecorded
<1>1. ScenarioInv => VerdictIsRecorded
  BY DEF ScenarioInv, RunInv, VerdictIsRecorded
<1> QED
  BY <1>1, ScenarioInvariant, PTL
=============================================================================
