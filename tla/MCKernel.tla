------------------------------- MODULE MCKernel -------------------------------
(* Small instances of OsKernel for TLC.                                      *)
EXTENDS OsKernel, TLC

CONSTANTS q1, q2

CapOne == [q \in Queues |-> 1]
CapTwo == [q \in Queues |-> IF q = q1 THEN 2 ELSE 1]

(* The threads other than the idle thread are interchangeable.               *)
ThreadSymmetry == Permutations(Threads \ {Idle})
===============================================================================
