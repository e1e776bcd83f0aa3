---------------------------- MODULE NoticeBoard ----------------------------
(***************************************************************************)
(* What the notification service promises: a board of notices on which     *)
(* every call takes effect at one moment, between being asked and being    *)
(* answered, and learns what was true at that moment.  An id is never      *)
(* used again.                                                             *)
(***************************************************************************)
EXTENDS Naturals

CONSTANTS NoteIds, Callers

VARIABLES
    board,    \* the notices on the board, and whether they were read
    born,     \* the ids used so far
    outcome   \* outcome[c]: what call c will be told

boardVars == <<board, born, outcome>>

BoardInit ==
    /\ \E S \in SUBSET NoteIds : board \in [S -> BOOLEAN] /\ born = S
    /\ outcome = [c \in Callers |-> "open"]

Told(c, what) ==
    /\ outcome[c] = "open"
    /\ outcome' = [outcome EXCEPT ![c] = what]

Post(c, n) ==
    /\ n \notin born
    /\ Told(c, "created") \/ Told(c, "error")
    /\ board' = [k \in DOMAIN board \union {n} |->
                    IF k = n THEN FALSE ELSE board[k]]
    /\ born' = born \union {n}

(* A notice that is gone was on the board once, or the answer says so. *)
Mark(c, n) ==
    /\ \/ /\ n \in DOMAIN board
          /\ Told(c, "read") \/ Told(c, "error")
          /\ board' = [board EXCEPT ![n] = TRUE]
       \/ /\ n \in born \ DOMAIN board
          /\ Told(c, "null")
          /\ UNCHANGED board
    /\ UNCHANGED born

MarkAll(c) ==
    /\ Told(c, "all read") \/ Told(c, "error")
    /\ \E S \in SUBSET DOMAIN board :
          board' = [k \in DOMAIN board |-> board[k] \/ k \in S]
    /\ UNCHANGED born

TakeDown(c, n) ==
    /\ n \in born
    /\ Told(c, "deleted") \/ Told(c, "error")
    /\ board' = [k \in DOMAIN board \ {n} |-> board[k]]
    /\ UNCHANGED born

Look(c, n) ==
    /\ IF n \in DOMAIN board THEN Told(c, "seen") ELSE Told(c, "not found")
    /\ UNCHANGED <<board, born>>

Refuse(c) ==
    /\ Told(c, "bad request") \/ Told(c, "error")
    /\ UNCHANGED <<board, born>>

BoardNext ==
    \E c \in Callers :
        \/ \E n \in NoteIds :
              Post(c, n) \/ Mark(c, n) \/ TakeDown(c, n) \/ Look(c, n)
        \/ MarkAll(c) \/ Refuse(c)

BoardSpec == BoardInit /\ [][BoardNext]_boardVars
=============================================================================
