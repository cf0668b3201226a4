---------------------------- MODULE MCTwoStepFec ----------------------------
(* Model values for TLC: a broadcast of two parts.                         *)
EXTENDS TwoStepFec

MCParts == [id : {"a"}, seqno : {1, 2}]
MCNeed == [i \in {"a"} |-> 2]
=============================================================================
