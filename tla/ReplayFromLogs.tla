--------------------------- MODULE ReplayFromLogs ---------------------------
(***************************************************************************)
(* TestScenario with scripts/seed-test-scenarios-from-logs.ts, which makes *)
(* a scenario of a logged request, straight in the database.  An observer  *)
(* remembers the rows that are still as the script made them.              *)
(***************************************************************************)
EXTENDS TestScenario

VARIABLE fromLogs   \* the scenarios that the script made

ReplayInit == Init /\ fromLogs = {}

(* 404 and the other errors have categories that a run treats alike. *)
categoryFor(status) == IF status \in {401, 403} THEN "auth" ELSE "valid"

(* The log stores no headers: every request that was not public gets a     *)
(* header with a place for a token.                                        *)
SeedFromLog(s) ==
    /\ table[s] = Unborn
    /\ \E status \in Statuses, isPublic \in BOOLEAN :
          table' = [table EXCEPT ![s] =
              Row([expected |-> status, category |-> categoryFor(status),
                   template |-> IF isPublic THEN "plain" ELSE "placeholder"])]
    /\ fromLogs' = fromLogs \union {s}
    /\ UNCHANGED <<up, run, snapshot, request, actual, insert, reply, testRuns,
                   edits, crashes>>

ReplayNext ==
    \/ \E s \in Scenarios : SeedFromLog(s)
    \/ /\ Next
       /\ fromLogs' = {s \in fromLogs : table'[s] = table[s]}

ReplaySpec == ReplayInit /\ [][ReplayNext]_<<vars, fromLogs>>

(* test-scenario.service.ts, of the header of a run: a template "built     *)
(* from `request_logs` ... has no authorization header" and "auth-category *)
(* cases test token handling itself (missing/invalid token) and stay       *)
(* untouched": an auth case made of a logged request is fired without the  *)
(* token of whoever runs it.                                               *)
AuthCasesUntouched ==
    [][\A r \in Runs :
          LET s == snapshot'[r].id
          IN  /\ run[r] = "idle" /\ run'[r] = "fetching"
              /\ s \in fromLogs /\ table[s].fields.category = "auth"
              => request'[r] = "absent"]_<<vars, fromLogs>>
=============================================================================
