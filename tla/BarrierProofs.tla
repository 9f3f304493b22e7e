---------------------------- MODULE BarrierProofs ---------------------------
(***************************************************************************)
(* For every finite set of threads and every count: the barrier's guard is *)
(* used as a lock, its words stay consistent, and no thread is released    *)
(* from a round before the round is full.                                  *)
(*                                                                         *)
(* The guard is reasoned about once, in SpinLockProofs: every step of the  *)
(* barrier is a step of the spin lock or leaves it alone, so the lock's    *)
(* invariant and its refinement hold of the barrier's two lock variables.  *)
(* The barrier's own invariant says where a thread can be with and without *)
(* the guard, and that the words only the guard's holder writes are fixed  *)
(* while somebody holds it.                                                *)
(***************************************************************************)
EXTENDS Barrier, FiniteSetTheorems, TLAPS

Proved == INSTANCE SpinLockProofs

-----------------------------------------------------------------------------
\* The guard.

\* The spin lock's assumption, from the barrier's.
LEMMA FiniteThreads == Proved!ThreadAssumption
  BY BarrierAssumption DEF Proved!ThreadAssumption, BarrierAssumption,
     IsFiniteSet, Proved!IsFiniteSet

\* A step of the barrier is a step of its guard or leaves it alone.
LEMMA NextGuard == [Next]_vars => [Proved!Next]_<<word, at>>
<1> SUFFICES ASSUME [Next]_vars PROVE [Proved!Next]_<<word, at>>
  OBVIOUS
<1>1. CASE UNCHANGED vars
  BY <1>1 DEF vars
<1>2. ASSUME NEW t \in Thread, Call(t) \/ Inside(t)
      PROVE  [Proved!Next]_<<word, at>>
  <2>1. \/ Guard!CallLock(t)
        \/ Guard!ProbeLock(t)
        \/ Guard!UndoLock(t)
        \/ Guard!Unlock(t)
        \/ UNCHANGED <<word, at>>
    BY <1>2 DEF Call, Inside, Spin, Arrive, Open, ReleaseLast, Release, Pass
  <2>2. QED
    BY <2>1 DEF Guard!CallLock, Guard!ProbeLock, Guard!UndoLock,
       Guard!Unlock, Guard!Probe, Guard!FetchAdd, Guard!Goto,
       Proved!CallLock, Proved!ProbeLock, Proved!UndoLock,
       Proved!Unlock, Proved!Probe, Proved!FetchAdd, Proved!Goto, Proved!Next
<1>3. QED
  BY <1>1, <1>2 DEF Next

\* So the guard inside the barrier runs by the spin lock's specification.
LEMMA GuardSpec == Spec => Proved!Spec
<1>1. Init => Proved!Init
  BY DEF Init, Guard!Init, Proved!Init
<1>2. QED
  BY <1>1, NextGuard, PTL DEF Spec, Proved!Spec, Proved!vars

\* Whatever the barrier does, its guard behaves as an abstract lock.
THEOREM GuardIsLock == Spec => GuardDiscipline
<1>1. Proved!Spec => Proved!ImplementsLock
  BY FiniteThreads, Proved!Refinement
<1>2. Proved!Abstract!Init <=> Guard!Abstract!Init
  BY DEF Proved!Abstract!Init, Guard!Abstract!Init, Proved!Holders, Guard!Holders
<1>3. [Proved!Abstract!Next]_(Proved!Holders) <=> [Guard!Abstract!Next]_(Guard!Holders)
  BY DEF Proved!Abstract!Next, Guard!Abstract!Next, Proved!Holders, Guard!Holders,
     Proved!Abstract!Acquire, Guard!Abstract!Acquire,
     Proved!Abstract!Release, Guard!Abstract!Release
<1>4. QED
  BY <1>1, <1>2, <1>3, GuardSpec, PTL
     DEF GuardDiscipline, Proved!ImplementsLock, Proved!Abstract!Spec, Guard!Abstract!Spec

\* At most one thread holds the guard.
GuardHeld ==
    /\ word \in 0 .. Cardinality(Thread)
    /\ at \in [Thread -> Guard!Place]
    /\ \A t, u \in Thread : at[t] = "held" /\ at[u] = "held" => t = u

\* At most one thread is between spinAcquire and the release of the guard.
\* This is the spin lock's exclusion theorem, read for the barrier's word.
LEMMA GuardInvariance == Spec => []GuardHeld
<1>1. Proved!TypeOK /\ Proved!MutualExclusion => GuardHeld
  BY DEF Proved!TypeOK, Proved!MutualExclusion, Proved!Holders, Proved!Place,
     GuardHeld, Guard!Place, Cardinality, Proved!Cardinality
<1>2. Proved!Spec => []Proved!TypeOK /\ []Proved!MutualExclusion
  BY FiniteThreads, Proved!TypeCorrect, Proved!Exclusion
<1>3. QED
  BY <1>1, <1>2, GuardSpec, PTL

-----------------------------------------------------------------------------
\* The barrier's inductive invariant.

Typed ==
    /\ remaining \in 0 .. Total
    /\ generation \in Nat
    /\ pc \in [Thread -> Phase]
    /\ gen \in [Thread -> Nat]
    /\ arrivals \in Nat
    /\ passed \in [Thread -> Nat]

\* What holding the guard has to do with the place in `wait`.
GuardPlaces ==
    \A t \in Thread :
        /\ pc[t] \in {"idle", "spin"} => at[t] = "out"
        /\ pc[t] = "arrive" => at[t] \in {"lock", "lockUndo", "held"}
        /\ pc[t] \in {"open", "last", "leave"} => at[t] = "held"

\* The local `gen` against the word it was read from.
Generations ==
    \A t \in Thread :
        /\ gen[t] <= generation
        /\ pc[t] \in {"open", "leave"} => gen[t] = generation
        /\ pc[t] = "last" => gen[t] + 1 = generation

\* Nobody is missing exactly while the last arriver is about to reset.
FullIsOpening == remaining = 0 <=> \E t \in Thread : pc[t] = "open"

IInv ==
    /\ Typed
    /\ GuardPlaces
    /\ Generations
    /\ FullIsOpening
    /\ CountMatches
    /\ RoundsAreFull
    /\ NoEarlyRelease

\* Arithmetic of the rounds.
LEMMA NextRound ==
    ASSUME NEW g \in Nat
    PROVE  (g + 1) * Total = g * Total + Total
  BY BarrierAssumption DEF BarrierAssumption

\* More finished rounds account for at least as many arrivals.
LEMMA RoundsMonotone ==
    ASSUME NEW g \in Nat, NEW h \in Nat, g <= h
    PROVE  g * Total <= h * Total
<1>1. PICK d \in Nat : h = g + d
  <2>1. h - g \in Nat /\ h = g + (h - g)
    OBVIOUS
  <2>2. QED
    BY <2>1
<1>2. Total \in Nat /\ d * Total \in Nat /\ g * Total \in Nat
  BY BarrierAssumption DEF BarrierAssumption
<1>3. (g + d) * Total = g * Total + d * Total
  BY <1>2
<1>4. QED
  BY <1>1, <1>2, <1>3

\* A set of threads is finite, and so is what a step adds to or takes from it.
LEMMA ArrivedFinite == IsFiniteSet(Arrived) /\ Cardinality(Arrived) \in Nat
<1>1. Arrived \in SUBSET Thread
  BY DEF Arrived
<1>2. IsFiniteSet(Thread)
  BY BarrierAssumption DEF BarrierAssumption
<1>3. QED
  BY <1>1, <1>2, FS_Subset, FS_CardinalityType

\* A new barrier satisfies the inductive invariant.
LEMMA InvInit == Init => IInv
<1> SUFFICES ASSUME Init PROVE IInv
  OBVIOUS
<1> USE BarrierAssumption DEF BarrierAssumption, Init
<1>1. Typed
  BY DEF Typed, Phase
<1>2. GuardPlaces /\ Generations /\ FullIsOpening
  BY DEF GuardPlaces, Generations, FullIsOpening, Guard!Init
<1>3. CountMatches
  <2>1. Arrived = {}
    BY DEF Arrived
  <2>2. QED
    BY <2>1, FS_EmptySet DEF CountMatches
<1>4. RoundsAreFull /\ NoEarlyRelease
  BY DEF RoundsAreFull, NoEarlyRelease
<1>5. QED
  BY <1>1, <1>2, <1>3, <1>4 DEF IInv

\* Steps that move one thread between places where it has not arrived, or
\* from one where it has to another, and touch nothing else of the barrier.
LEMMA CallStep ==
    ASSUME IInv, GuardHeld, NEW t \in Thread, Call(t)
    PROVE  IInv'
<1> USE DEF IInv, Call
<1>1. at[t] = "out" /\ at' = [at EXCEPT ![t] = "lock"]
  BY DEF Guard!CallLock, Guard!Goto
<1>2. Typed'
  BY DEF Typed, Goto, Phase
<1>3. GuardPlaces'
  BY <1>1 DEF GuardPlaces, Goto, Typed, GuardHeld
<1>4. Generations' /\ FullIsOpening'
  BY DEF Generations, FullIsOpening, Goto, Typed
<1>5. Arrived' = Arrived
  BY DEF Arrived, Goto, Typed
<1>6. QED
  BY <1>2, <1>3, <1>4, <1>5 DEF CountMatches, RoundsAreFull, NoEarlyRelease

\* Taking the guard, or failing to (Barrier.spinAcquire), keeps the invariant.
LEMMA SpinStep ==
    ASSUME IInv, GuardHeld, NEW t \in Thread, Spin(t)
    PROVE  IInv'
<1> USE DEF IInv, Spin, data
<1>1. \/ at[t] = "lock" /\ at' = [at EXCEPT ![t] = "held"]
      \/ at[t] = "lock" /\ at' = [at EXCEPT ![t] = "lockUndo"]
      \/ at[t] = "lockUndo" /\ at' = [at EXCEPT ![t] = "lock"]
  BY DEF Guard!ProbeLock, Guard!Probe, Guard!UndoLock, Guard!Goto
<1>2. GuardPlaces'
  BY <1>1 DEF GuardPlaces, Typed, Phase, GuardHeld
<1>3. Arrived' = Arrived
  BY DEF Arrived
<1>4. QED
  BY <1>2, <1>3 DEF Typed, Generations, FullIsOpening, CountMatches,
     RoundsAreFull, NoEarlyRelease

\* The decrement: under the guard nobody else is opening, so someone is
\* still missing, and now one fewer.
LEMMA ArriveStep ==
    ASSUME IInv, GuardHeld, NEW t \in Thread, Arrive(t)
    PROVE  IInv'
<1> USE DEF IInv, Arrive
<1>1. remaining # 0
  BY DEF FullIsOpening, GuardPlaces, GuardHeld
<1>2. Typed'
  BY <1>1, BarrierAssumption DEF Typed, Goto, Phase, BarrierAssumption
<1>3. GuardPlaces'
  BY DEF GuardPlaces, Goto, Typed
<1>4. Generations'
  BY DEF Generations, Goto, Typed
<1>5. FullIsOpening'
  BY <1>1 DEF FullIsOpening, Goto, Typed
<1>6. CountMatches'
  <2>1. Arrived' = Arrived \cup {t} /\ t \notin Arrived
    BY DEF Arrived, Goto, Typed
  <2>2. Cardinality(Arrived') = Cardinality(Arrived) + 1
    BY <2>1, ArrivedFinite, FS_AddElement
  <2>3. QED
    BY <2>2, ArrivedFinite, BarrierAssumption
       DEF CountMatches, Typed, BarrierAssumption
<1>7. RoundsAreFull' /\ NoEarlyRelease'
  <2>1. generation * Total \in Nat /\ \A u \in Thread : passed[u] * Total \in Nat
    BY BarrierAssumption DEF Typed, BarrierAssumption
  <2>2. QED
    BY <2>1, BarrierAssumption
       DEF RoundsAreFull, NoEarlyRelease, Typed, BarrierAssumption
<1>8. QED
  BY <1>2, <1>3, <1>4, <1>5, <1>6, <1>7

\* The opening: the round is full, the next one starts empty.
LEMMA OpenStep ==
    ASSUME IInv, GuardHeld, NEW t \in Thread, Open(t)
    PROVE  IInv'
<1> USE DEF IInv, Open
<1>1. gen[t] = generation /\ remaining = 0 /\ generation' = generation + 1
  BY DEF Generations, FullIsOpening
<1>2. \A u \in Thread : pc[u] \in {"open", "last", "leave"} => u = t
  BY DEF GuardPlaces, GuardHeld
<1>3. Typed'
  BY <1>1, BarrierAssumption DEF Typed, Goto, Phase, BarrierAssumption
<1>4. GuardPlaces'
  BY DEF GuardPlaces, Goto, Typed
<1>5. Generations'
  BY <1>1, <1>2 DEF Generations, Goto, Typed
<1>6. FullIsOpening'
  BY <1>2, BarrierAssumption DEF FullIsOpening, Goto, Typed, BarrierAssumption
<1>7. CountMatches'
  <2>1. Arrived' = {}
    BY <1>1, <1>2 DEF Arrived, Goto, Typed, Generations
  <2>2. QED
    BY <2>1, FS_EmptySet, BarrierAssumption DEF CountMatches, BarrierAssumption
<1>8. RoundsAreFull'
  <2>1. (generation + 1) * Total = generation * Total + Total
    BY NextRound DEF Typed
  <2>2. generation * Total \in Nat /\ Total \in Nat
    BY BarrierAssumption DEF Typed, BarrierAssumption
  <2>3. QED
    BY <1>1, <2>1, <2>2 DEF RoundsAreFull, Typed
<1>9. NoEarlyRelease'
  BY DEF NoEarlyRelease
<1>10. QED
  BY <1>3, <1>4, <1>5, <1>6, <1>7, <1>8, <1>9

\* A thread leaves a round that is over: its arrivals have all been made.
LEMMA ReturnEarly ==
    ASSUME IInv, NEW t \in Thread, gen[t] + 1 <= generation, Return(t),
           UNCHANGED <<remaining, generation, arrivals>>
    PROVE  NoEarlyRelease'
<1> USE DEF IInv
<1>1. (gen[t] + 1) * Total <= generation * Total
  BY RoundsMonotone DEF Typed
<1>2. generation * Total <= arrivals
  <2>1. generation * Total \in Nat /\ Total - remaining >= 0
    BY BarrierAssumption DEF Typed, BarrierAssumption
  <2>2. QED
    BY <2>1, BarrierAssumption DEF RoundsAreFull, Typed, BarrierAssumption
<1>3. /\ (gen[t] + 1) * Total \in Nat
      /\ generation * Total \in Nat
      /\ arrivals \in Nat
  BY BarrierAssumption DEF Typed, BarrierAssumption
<1>4. (gen[t] + 1) * Total <= arrivals
  BY <1>1, <1>2, <1>3
<1>5. QED
  BY <1>4 DEF NoEarlyRelease, Return, Typed

\* The last arriver's release of the guard and return keep the invariant.
LEMMA ReleaseLastStep ==
    ASSUME IInv, GuardHeld, NEW t \in Thread, ReleaseLast(t)
    PROVE  IInv'
<1> USE DEF IInv, ReleaseLast, Return
<1>1. at[t] = "held" /\ at' = [at EXCEPT ![t] = "out"]
  BY DEF Guard!Unlock, Guard!Goto
<1>2. Typed'
  BY DEF Typed, Goto, Phase
<1>3. GuardPlaces'
  BY <1>1 DEF GuardPlaces, Goto, Typed, GuardHeld
<1>4. Generations' /\ FullIsOpening'
  BY DEF Generations, FullIsOpening, Goto, Typed
<1>5. Arrived' = Arrived
  BY DEF Arrived, Goto, Typed
<1>6. gen[t] + 1 <= generation
  BY DEF Generations, Typed
<1>7. NoEarlyRelease'
  BY <1>6, ReturnEarly
<1>8. QED
  BY <1>2, <1>3, <1>4, <1>5, <1>7 DEF CountMatches, RoundsAreFull

\* Any other arriver's release of the guard keeps the invariant.
LEMMA ReleaseStep ==
    ASSUME IInv, GuardHeld, NEW t \in Thread, Release(t)
    PROVE  IInv'
<1> USE DEF IInv, Release
<1>1. at[t] = "held" /\ at' = [at EXCEPT ![t] = "out"]
  BY DEF Guard!Unlock, Guard!Goto
<1>2. Typed'
  BY DEF Typed, Goto, Phase
<1>3. GuardPlaces'
  BY <1>1 DEF GuardPlaces, Goto, Typed, GuardHeld
<1>4. Generations' /\ FullIsOpening'
  BY DEF Generations, FullIsOpening, Goto, Typed
<1>5. Arrived' = Arrived
  BY DEF Arrived, Goto, Typed
<1>6. QED
  BY <1>2, <1>3, <1>4, <1>5 DEF CountMatches, RoundsAreFull, NoEarlyRelease

\* A look at the generation, and the return when it has moved on, keep it.
LEMMA PassStep ==
    ASSUME IInv, NEW t \in Thread, Pass(t)
    PROVE  IInv'
<1> USE DEF IInv, Pass, Return
<1>1. Typed'
  BY DEF Typed, Goto, Phase
<1>2. GuardPlaces'
  BY DEF GuardPlaces, Goto, Typed
<1>3. Generations' /\ FullIsOpening'
  BY DEF Generations, FullIsOpening, Goto, Typed
<1>4. Arrived' = Arrived
  BY DEF Arrived, Goto, Typed
<1>5. gen[t] + 1 <= generation
  BY DEF Generations, Typed
<1>6. NoEarlyRelease'
  BY <1>5, ReturnEarly
<1>7. QED
  BY <1>1, <1>2, <1>3, <1>4, <1>6 DEF CountMatches, RoundsAreFull

\* Every step of Barrier.wait keeps the invariant while the guard excludes.
LEMMA InvNext == IInv /\ GuardHeld /\ [Next]_vars => IInv'
<1> SUFFICES ASSUME IInv, GuardHeld, [Next]_vars PROVE IInv'
  OBVIOUS
<1>1. ASSUME NEW t \in Thread, Call(t) \/ Inside(t) PROVE IInv'
  BY <1>1, CallStep, SpinStep, ArriveStep, OpenStep, ReleaseLastStep,
     ReleaseStep, PassStep DEF Inside
<1>2. CASE UNCHANGED vars
  BY <1>2 DEF vars, IInv, Typed, GuardPlaces, Generations, FullIsOpening,
     CountMatches, Arrived, RoundsAreFull, NoEarlyRelease
<1>3. QED
  BY <1>1, <1>2 DEF Next

\* The inductive invariant holds in every reachable state.
LEMMA Invariance == Spec => []IInv
  BY InvInit, InvNext, GuardInvariance, PTL DEF Spec

-----------------------------------------------------------------------------
\* The words and the threads' locals stay in range; in particular `remaining`
\* is never negative, so the test for 0 is met once in every round.
THEOREM TypeCorrect == Spec => []TypeOK
<1>1. IInv /\ GuardHeld => TypeOK
  BY DEF IInv, Typed, GuardHeld, TypeOK
<1>2. QED
  BY <1>1, Invariance, GuardInvariance, PTL

\* `remaining` is right for the round in force, however late the stragglers
\* of earlier rounds are.
THEOREM CountsArrivals == Spec => []CountMatches
<1>1. IInv => CountMatches
  BY DEF IInv
<1>2. QED
  BY <1>1, Invariance, PTL

\* Every finished round had exactly Total arrivals.
THEOREM FullRounds == Spec => []RoundsAreFull
<1>1. IInv => RoundsAreFull
  BY DEF IInv
<1>2. QED
  BY <1>1, Invariance, PTL

\* The barrier is a barrier: nobody is released before everybody has arrived,
\* in any round, for any number of threads.
THEOREM ReleasedTogether == Spec => []NoEarlyRelease
<1>1. IInv => NoEarlyRelease
  BY DEF IInv
<1>2. QED
  BY <1>1, Invariance, PTL
=============================================================================
