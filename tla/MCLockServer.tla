---------------------------- MODULE MCLockServer ----------------------------
EXTENDS LockServer, TLC

\* The processes, named by their callers: one, as in lock_tester; one with three callers
\* and one with the others.
OneProcess   == [k \in Callers |-> Callers]
TwoProcesses ==
  LET S == CHOOSE T \in SUBSET Callers : Cardinality(T) = 3
  IN  [k \in Callers |-> IF k \in S THEN S ELSE Callers \ S]

\* The callers are interchangeable (safety runs only).
Symmetry == Permutations(Callers)
=============================================================================
