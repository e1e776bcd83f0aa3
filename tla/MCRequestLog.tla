---------------------------- MODULE MCRequestLog ----------------------------
(* The request log on small instances. *)
EXTENDS RequestLog, TLC

Interchangeable ==
    Permutations(Messages) \union Permutations(Flows)
        \union Permutations(Admins) \union Permutations(Viewers \ Admins)
=============================================================================
