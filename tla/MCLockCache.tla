---------------------------- MODULE MCLockCache -----------------------------
EXTENDS LockCache, TLC

CONSTANTS c1, c2, c3, t1, t2, t3, t4, t5

\* The client of each thread: two clients with two threads each; three clients with one
\* each; three clients with two, two and one.
TwoByTwo   == t1 :> c1 @@ t2 :> c1 @@ t3 :> c2 @@ t4 :> c2
ThreeByOne == t1 :> c1 @@ t2 :> c2 @@ t3 :> c3
Mixed      == TwoByTwo @@ t5 :> c3
=============================================================================
