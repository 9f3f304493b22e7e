------------------------------- MODULE Guarded ------------------------------
(***************************************************************************)
(* What RwLock.aura, Semaphore.aura, Atomic.aura and Condvar.aura of       *)
(* aura/core/aura/lang/concurrent/ have in common: a call takes the        *)
(* object's guard (spinAcquire, a copy of the lock of SpinLock), works on  *)
(* the object's words, and releases the guard (spinRelease).  A call that  *)
(* finds the words not as it needs them releases the guard and goes round  *)
(* again.                                                                  *)
(*                                                                         *)
(* A class adds its words, what each of its methods does under the guard   *)
(* (the look at the words and the change of them are steps of their own),  *)
(* and the steps it takes outside.                                         *)
(***************************************************************************)
EXTENDS Integers, FiniteSets

CONSTANT Thread

ASSUME GuardedAssumption == IsFiniteSet(Thread)

VARIABLES
    word, at,       \* the guard
    call,           \* call[t]: the method t is in, or "none"
    pc              \* pc[t]: where t is in it

guardVars == <<word, at, call, pc>>

Guard == INSTANCE SpinLock

(***************************************************************************)
(* "idle"  in no method                                                    *)
(* "enter" in spinAcquire, or holding the guard before the method's work   *)
(* "work"  the words were as needed, about to change them                  *)
(* "exit"  the work is done, about to release the guard                    *)
(* "again" the words were not as needed, about to release the guard        *)
(***************************************************************************)
GuardInit ==
    /\ Guard!Init
    /\ call = [t \in Thread |-> "none"]
    /\ pc = [t \in Thread |-> "idle"]

Goto(t, place) == pc' = [pc EXCEPT ![t] = place]

Idle(t) == pc[t] = "idle"

Call(t, method) ==
    /\ Idle(t)
    /\ call' = [call EXCEPT ![t] = method]
    /\ Goto(t, "enter")
    /\ Guard!CallLock(t)

\* spinAcquire's loop.
Spin(t) ==
    /\ Guard!ProbeLock(t) \/ Guard!UndoLock(t)
    /\ UNCHANGED <<call, pc>>

\* t is in `method` and has its guard: it looks at the words.
Holding(t, method) == call[t] = method /\ pc[t] = "enter" /\ at[t] = "held"

\* And it has found them as it needs them.
Working(t, method) == call[t] = method /\ pc[t] = "work"

Then(t, place) == Goto(t, place) /\ UNCHANGED <<word, at, call>>

Return(t) ==
    /\ Goto(t, "idle")
    /\ call' = [call EXCEPT ![t] = "none"]

\* spinRelease and return.
Leave(t) ==
    /\ pc[t] = "exit"
    /\ Guard!Unlock(t)
    /\ Return(t)

\* spinRelease, back to the head of the loop.
Again(t) ==
    /\ pc[t] = "again"
    /\ Guard!Unlock(t)
    /\ Goto(t, "enter")
    /\ UNCHANGED call

\* spinAcquire once more.
Retry(t) ==
    /\ pc[t] = "enter"
    /\ Guard!CallLock(t)
    /\ UNCHANGED <<call, pc>>

\* What goes on by itself inside a call, whichever it is.
Around(t) == Spin(t) \/ Leave(t) \/ Again(t) \/ Retry(t)

GuardTypeOK(method, place) ==
    /\ word \in 0 .. Cardinality(Thread)
    /\ at \in [Thread -> Guard!Place]
    /\ call \in [Thread -> method \cup {"none"}]
    /\ pc \in [Thread -> place \cup {"idle", "enter", "work", "exit", "again"}]
=============================================================================
