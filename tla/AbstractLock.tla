---------------------------- MODULE AbstractLock ----------------------------
(***************************************************************************)
(* What a mutual-exclusion lock promises, with nothing said about how: at  *)
(* most one thread holds it, it is taken only when nobody holds it, and    *)
(* only its holder gives it back.                                          *)
(***************************************************************************)
CONSTANT Thread

VARIABLE holders        \* the threads that hold the lock: none or one

Init == holders = {}

Acquire(t) == holders = {} /\ holders' = {t}

Release(t) == t \in holders /\ holders' = holders \ {t}

Next == \E t \in Thread : Acquire(t) \/ Release(t)

Spec == Init /\ [][Next]_holders
=============================================================================
