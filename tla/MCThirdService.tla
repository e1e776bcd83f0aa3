--------------------------- MODULE MCThirdService ---------------------------
(* ThirdService on a small instance.  Model values of one kind are used    *)
(* alike everywhere, so they may be permuted.                              *)
EXTENDS ThirdService, TLC

Symmetry ==
    Permutations(Callers) \union Permutations(People) \union
    Permutations(Files) \union Permutations(Requests)
=============================================================================
