-------------------------------- MODULE Lock --------------------------------
(***************************************************************************)
(* What the lock service promises to the threads that call acquire and     *)
(* release: one lock, at most one thread inside at a time.                 *)
(***************************************************************************)
CONSTANT Threads     \* every thread of every client process

VARIABLE holders     \* the threads whose acquire has returned and that have
                     \* not yet called release

Init == holders = {}

Acquire(t) ==
  /\ holders = {}
  /\ holders' = {t}

Release(t) ==
  /\ t \in holders
  /\ holders' = holders \ {t}

Next == \E t \in Threads : Acquire(t) \/ Release(t)

Spec == Init /\ [][Next]_holders
=============================================================================
