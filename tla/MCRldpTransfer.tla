--------------------------- MODULE MCRldpTransfer ---------------------------
(* Instances of RldpTransfer for TLC. *)
EXTENDS RldpTransfer, TLC

GoroutineSymmetry == Permutations(Goroutines)
=============================================================================
