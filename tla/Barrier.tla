------------------------------- MODULE Barrier ------------------------------
(***************************************************************************)
(* aura/core/aura/lang/concurrent/Barrier.aura: a reusable barrier of four *)
(* words, a guard (a SpinLock), the arrivals still missing, a generation   *)
(* counter and the number of participants.  The words `remaining` and      *)
(* `generation` are written only under the guard; waiting threads read     *)
(* `generation` without it, so the write that opens the barrier is a step  *)
(* of its own, before the guard is released.                               *)
(***************************************************************************)
EXTENDS Integers, FiniteSets

CONSTANTS
    Thread,
    Total,          \* `count` of Barrier.new, kept in the word `total`
    MaxGeneration   \* bound: no thread calls `wait` in a later generation

ASSUME BarrierAssumption ==
    /\ IsFiniteSet(Thread)
    /\ Total \in Nat \ {0}
    /\ MaxGeneration \in Nat

VARIABLES
    word, at,       \* the guard
    remaining,
    generation,
    pc,             \* pc[t]: where t is in `wait`
    gen,            \* gen[t]: the local `gen` of t's last `wait`
    arrivals,       \* history: decrements of `remaining` so far
    passed          \* history: passed[t], 1 + the last generation t left

vars == <<word, at, remaining, generation, pc, gen, arrivals, passed>>
data == <<remaining, generation, pc, gen, arrivals, passed>>

Guard == INSTANCE SpinLock

(***************************************************************************)
(* "idle"   outside `wait`                                                 *)
(* "arrive" in spinAcquire, or holding the guard before the decrement      *)
(* "open"   the last arriver, about to reset and to bump the generation    *)
(* "last"   the last arriver, about to release the guard and return 0      *)
(* "leave"  not the last, about to release the guard                       *)
(* "spin"   in the loop that rereads `generation`                          *)
(***************************************************************************)
Phase == {"idle", "arrive", "open", "last", "leave", "spin"}

Init ==
    /\ Guard!Init
    /\ remaining = Total
    /\ generation = 0
    /\ pc = [t \in Thread |-> "idle"]
    /\ gen = [t \in Thread |-> 0]
    /\ arrivals = 0
    /\ passed = [t \in Thread |-> 0]

Goto(t, phase) == pc' = [pc EXCEPT ![t] = phase]

Return(t) ==
    /\ Goto(t, "idle")
    /\ passed' = [passed EXCEPT ![t] = gen[t] + 1]

-----------------------------------------------------------------------------
Call(t) ==
    /\ pc[t] = "idle"
    /\ generation < MaxGeneration
    /\ Guard!CallLock(t)
    /\ Goto(t, "arrive")
    /\ UNCHANGED <<remaining, generation, gen, arrivals, passed>>

\* spinAcquire's loop.
Spin(t) ==
    /\ Guard!ProbeLock(t) \/ Guard!UndoLock(t)
    /\ UNCHANGED data

\* Slip: the arrival is counted before the guard is held.
ArriveUnguarded(t) ==
    /\ pc[t] = "arrive"
    /\ gen' = [gen EXCEPT ![t] = generation]
    /\ remaining' = remaining - 1
    /\ arrivals' = arrivals + 1
    /\ Goto(t, IF remaining - 1 = 0 THEN "open" ELSE "leave")
    /\ UNCHANGED <<word, at, generation, passed>>

\* Under the guard: read the generation, count the arrival.
Arrive(t) ==
    /\ pc[t] = "arrive" /\ at[t] = "held"
    /\ gen' = [gen EXCEPT ![t] = generation]
    /\ remaining' = remaining - 1
    /\ arrivals' = arrivals + 1
    /\ Goto(t, IF remaining - 1 = 0 THEN "open" ELSE "leave")
    /\ UNCHANGED <<word, at, generation, passed>>

\* The last arriver resets the count, then lets the others go.
Open(t) ==
    /\ pc[t] = "open"
    /\ remaining' = Total
    /\ generation' = gen[t] + 1
    /\ Goto(t, "last")
    /\ UNCHANGED <<word, at, gen, arrivals, passed>>

ReleaseLast(t) ==
    /\ pc[t] = "last"
    /\ Guard!Unlock(t)
    /\ Return(t)
    /\ UNCHANGED <<remaining, generation, gen, arrivals>>

\* Slip: every arriver returns, the last or not.
ReleaseAndGo(t) ==
    /\ pc[t] = "leave"
    /\ Guard!Unlock(t)
    /\ Return(t)
    /\ UNCHANGED <<remaining, generation, gen, arrivals>>

Release(t) ==
    /\ pc[t] = "leave"
    /\ Guard!Unlock(t)
    /\ Goto(t, "spin")
    /\ UNCHANGED <<remaining, generation, gen, arrivals, passed>>

\* Slip: the waiter watches the count return to Total, not the generation.
PassOnCount(t) ==
    /\ pc[t] = "spin"
    /\ remaining = Total
    /\ Return(t)
    /\ UNCHANGED <<word, at, remaining, generation, gen, arrivals>>

\* The unguarded reread of `generation` that ends the loop.
Pass(t) ==
    /\ pc[t] = "spin"
    /\ generation # gen[t]
    /\ Return(t)
    /\ UNCHANGED <<word, at, remaining, generation, gen, arrivals>>

-----------------------------------------------------------------------------
Inside(t) ==
    \/ Spin(t)
    \/ Arrive(t)
    \/ Open(t)
    \/ ReleaseLast(t)
    \/ Release(t)
    \/ Pass(t)

Next == \E t \in Thread : Call(t) \/ Inside(t)

Spec == Init /\ [][Next]_vars

\* Every thread that is inside `wait` keeps running.
FairSpec == Spec /\ \A t \in Thread : WF_vars(Inside(t))

-----------------------------------------------------------------------------
TypeOK ==
    /\ word \in 0 .. Cardinality(Thread)
    /\ at \in [Thread -> Guard!Place]
    /\ remaining \in 0 .. Total
    /\ generation \in Nat
    /\ pc \in [Thread -> Phase]
    /\ gen \in [Thread -> Nat]
    /\ arrivals \in Nat
    /\ passed \in [Thread -> Nat]

\* The threads that have arrived in the generation the barrier is in.
Arrived == {t \in Thread : pc[t] \in {"open", "leave", "spin"} /\ gen[t] = generation}

\* The count of missing arrivals is right for the generation in force: a
\* thread that is late in leaving an earlier round is not counted in the
\* next one, and one that has run ahead is.
CountMatches == Cardinality(Arrived) = Total - remaining

\* No thread is through its (g+1)-th round before Total arrivals were made
\* in each of the rounds up to it (Barrier.aura:42: a thread waits until all
\* have arrived, then all are released).
NoEarlyRelease == \A t \in Thread : passed[t] * Total <= arrivals

\* The arrivals are exactly the full rounds and the current, partial one.
RoundsAreFull == arrivals = generation * Total + (Total - remaining)

\* A thread waiting for a round that has been opened leaves it, even if the
\* others have run ahead into later rounds meanwhile.
OpenedRoundIsLeft ==
    \A t \in Thread : (pc[t] = "spin" /\ gen[t] < generation) ~> (pc[t] = "idle")

\* The guard embedded in the barrier is used as a lock: acquired before and
\* released after, by the thread that holds it.
GuardDiscipline == Guard!Abstract!Spec
=============================================================================
