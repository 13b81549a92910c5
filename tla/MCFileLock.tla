----------------------------- MODULE MCFileLock -----------------------------
(* Small instances of FileLock for TLC: processes on one host, where a dead*)
(* owner is noticed, and on two, where it cannot be.                       *)
EXTENDS FileLock

CONSTANTS p1, p2, p3

OneHost == [p \in Proc |-> "here"]
TwoHosts == [p \in Proc |-> IF p = p3 THEN "there" ELSE "here"]
=============================================================================
