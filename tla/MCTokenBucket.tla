--------------------------- MODULE MCTokenBucket ---------------------------
(* Instances of the rate limiter for TLC. *)
EXTENDS TokenBucketWindow, TLC

Interchangeable == Permutations(Requests) \union Permutations(Servers)
=============================================================================
