--------------------------- MODULE RequestJournal ---------------------------
(***************************************************************************)
(* What the request log promises, apart from how it is kept: an entry is   *)
(* recorded at most once and only after it was reported, recorded entries  *)
(* stay, and a viewer is shown an entry only once it is recorded.          *)
(* Recording is best effort: nothing forces a reported entry into the      *)
(* journal, or a recorded one onto a screen.                               *)
(***************************************************************************)
EXTENDS SequencesExt

CONSTANTS Entries, Viewers

VARIABLES
    reported,   \* the entries handed to the log so far
    journal,    \* the recorded entries, oldest first
    shown       \* shown[v]: what viewer v received since it connected

journalVars == <<reported, journal, shown>>

Init ==
    /\ reported = {}
    /\ journal = <<>>
    /\ shown = [v \in Viewers |-> <<>>]

Report(e) ==
    /\ e \notin reported
    /\ reported' = reported \union {e}
    /\ UNCHANGED <<journal, shown>>

Record(e) ==
    /\ e \in reported \ ToSet(journal)
    /\ journal' = Append(journal, e)
    /\ UNCHANGED <<reported, shown>>

(* An entry reaches every viewer that is watching, none of them twice. *)
Show(e, watching) ==
    /\ e \in ToSet(journal)
    /\ \A v \in watching : e \notin ToSet(shown[v])
    /\ shown' = [v \in Viewers |-> IF v \in watching THEN Append(shown[v], e)
                                                     ELSE shown[v]]
    /\ UNCHANGED <<reported, journal>>

Part(leaving) ==
    /\ shown' = [v \in Viewers |-> IF v \in leaving THEN <<>> ELSE shown[v]]
    /\ UNCHANGED <<reported, journal>>

Next ==
    \/ \E e \in Entries : Report(e) \/ Record(e)
    \/ \E e \in Entries, watching \in SUBSET Viewers : Show(e, watching)
    \/ \E leaving \in SUBSET Viewers : Part(leaving)

Spec == Init /\ [][Next]_journalVars
=============================================================================
