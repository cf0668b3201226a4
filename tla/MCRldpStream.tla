---------------------------- MODULE MCRldpStream ----------------------------
(* Model-checking instance of RldpStream. *)
EXTENDS RldpStream

CONSTANTS w1, w2, m1, m2, s1, s2
=============================================================================
