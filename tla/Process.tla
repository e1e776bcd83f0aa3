------------------------------ MODULE Process ------------------------------
(***************************************************************************)
(* What a process of the service promises its parts: it is down, or it     *)
(* consumes its queue, or it listens for HTTP requests, too.  It consumes  *)
(* only when it is whole; Bootstrap is the way there.                      *)
(***************************************************************************)
VARIABLE phase
-----------------------------------------------------------------------------
ProcessInit == phase = "down"

Consuming == phase \in {"consuming", "listening"}
Listening == phase = "listening"

Consume == phase = "down" /\ phase' = "consuming"
Listen == phase = "consuming" /\ phase' = "listening"
Die == phase # "down" /\ phase' = "down"

ProcessNext == Consume \/ Listen \/ Die

ProcessSpec == ProcessInit /\ [][ProcessNext]_phase
=============================================================================
