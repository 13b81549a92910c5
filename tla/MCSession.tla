----------------------------- MODULE MCSession -----------------------------
(* A small instance of Session for TLC: two processes that share one file, *)
(* of which the second also opens a name that does not exist and gives it  *)
(* to its buffer.                                                          *)
EXTENDS Session

CONSTANTS p1, p2

OneHost == [p \in Proc |-> "here"]
Shared == [p \in Proc |-> {"f1"}]
SecondName == [p \in Proc |-> IF p = p2 THEN {"f2"} ELSE {}]

(* Bound: once a process without its lock has saved the file, no property   *)
(* tells its texts apart, and a run with one modification less does.        *)
FewerIfBold == bold["f1"] => edits < MaxEdits
=============================================================================
