---------------------------- MODULE MCTokenBucket ----------------------------
(* Small buckets for TLC: the goroutines are interchangeable. *)
EXTENDS TokenBucket, TLC

CONSTANTS t1, t2
Symmetry == Permutations(Threads)
=============================================================================
