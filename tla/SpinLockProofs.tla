--------------------------- MODULE SpinLockProofs ---------------------------
(***************************************************************************)
(* For every finite set of threads: the type invariant of SpinLock, its    *)
(* accounting of the word, mutual exclusion, and the refinement of the     *)
(* abstract lock.                                                          *)
(*                                                                         *)
(* Mutual exclusion is not inductive alone: a probe must be unable to win  *)
(* while somebody holds the lock, which is a fact about the word.  The     *)
(* strengthening is WordCounts: a word of 0 says that nobody is counted,   *)
(* so in particular that nobody holds the lock.                            *)
(***************************************************************************)
EXTENDS SpinLock, FiniteSetTheorems, TLAPS

Placed == at \in [Thread -> Place]

IInv == Placed /\ WordCounts /\ MutualExclusion

-----------------------------------------------------------------------------
\* How a thread's move changes the set the word counts.

\* Any set of threads is finite, so its cardinality is a number.
LEMMA CountedFinite ==
    /\ IsFiniteSet(Counted)
    /\ Cardinality(Counted) \in Nat
    /\ Cardinality(Counted) <= Cardinality(Thread)
    /\ Cardinality(Counted) = 0 <=> Counted = {}
<1>1. Counted \in SUBSET Thread
  BY DEF Counted
<1>2. IsFiniteSet(Counted) /\ Cardinality(Counted) <= Cardinality(Thread)
  BY <1>1, ThreadAssumption, FS_Subset
<1>3. Cardinality(Counted) \in Nat
  BY <1>2, FS_CardinalityType
<1>4. QED
  BY <1>2, <1>3, FS_EmptySet

\* A thread that was not counted and moves to a counted place adds one.
LEMMA CountUp ==
    ASSUME Placed, NEW t \in Thread, NEW p \in {"held", "lockUndo", "tryUndo"},
           at[t] \in {"out", "lock"}, at' = [at EXCEPT ![t] = p]
    PROVE  Cardinality(Counted)' = Cardinality(Counted) + 1
<1>1. Counted' = Counted \cup {t}
  BY DEF Counted, Placed
<1>2. t \notin Counted
  BY DEF Counted
<1>3. QED
  BY <1>1, <1>2, CountedFinite, FS_AddElement

\* A counted thread that moves to a place that is not counted removes one.
LEMMA CountDown ==
    ASSUME Placed, NEW t \in Thread, NEW p \in {"out", "lock"},
           at[t] \in {"held", "lockUndo", "tryUndo"}, at' = [at EXCEPT ![t] = p]
    PROVE  Cardinality(Counted)' = Cardinality(Counted) - 1
<1>1. Counted' = Counted \ {t}
  BY DEF Counted, Placed
<1>2. t \in Counted
  BY DEF Counted
<1>3. QED
  BY <1>1, <1>2, CountedFinite, FS_RemoveElement

-----------------------------------------------------------------------------
\* A new lock satisfies the inductive invariant.
LEMMA InvInit == Init => IInv
<1> SUFFICES ASSUME Init PROVE IInv
  OBVIOUS
<1>1. Placed
  BY DEF Init, Placed, Place
<1>2. Counted = {}
  BY DEF Init, Counted
<1>3. WordCounts
  BY <1>2, FS_EmptySet DEF Init, WordCounts
<1>4. MutualExclusion
  BY DEF Init, MutualExclusion, Holders
<1>5. QED
  BY <1>1, <1>3, <1>4 DEF IInv

\* The step both `lock` and `tryLock` take: it wins only on a word of 0, and
\* then nobody is counted.
LEMMA ProbeStep ==
    ASSUME IInv, NEW t \in Thread, NEW failed \in {"lockUndo", "tryUndo"},
           at[t] \in {"out", "lock"}, Probe(t, failed)
    PROVE  IInv'
<1> USE DEF IInv
<1>1. word' = word + 1
  BY DEF Probe, FetchAdd
<1>2. CASE word = 0 /\ Goto(t, "held")
  <2>1. Placed'
    BY <1>2 DEF Goto, Placed, Place
  <2>2. WordCounts'
    BY <1>1, <1>2, CountUp DEF WordCounts, Goto
  <2>3. Holders = {}
    BY <1>2, CountedFinite DEF WordCounts, Counted, Holders
  <2>4. MutualExclusion'
    BY <1>2, <2>3 DEF MutualExclusion, Holders, Goto, Placed
  <2>5. QED
    BY <2>1, <2>2, <2>4
<1>3. CASE word # 0 /\ Goto(t, failed)
  <2>1. Placed'
    BY <1>3 DEF Goto, Placed, Place
  <2>2. WordCounts'
    BY <1>1, <1>3, CountUp DEF WordCounts, Goto
  <2>3. MutualExclusion'
    BY <1>3 DEF MutualExclusion, Holders, Goto, Placed
  <2>4. QED
    BY <2>1, <2>2, <2>3
<1>4. QED
  BY <1>2, <1>3 DEF Probe

\* The step every undo and every unlock takes.
LEMMA TakeBackStep ==
    ASSUME IInv, NEW t \in Thread, NEW p \in {"out", "lock"},
           at[t] \in {"held", "lockUndo", "tryUndo"}, FetchAdd(-1), Goto(t, p)
    PROVE  IInv'
<1> USE DEF IInv
<1>1. Placed'
  BY DEF Goto, Placed, Place
<1>2. WordCounts'
  BY CountDown, CountedFinite DEF WordCounts, Goto, FetchAdd
<1>3. MutualExclusion'
  BY DEF MutualExclusion, Holders, Goto, Placed
<1>4. QED
  BY <1>1, <1>2, <1>3

\* Every step of lock, tryLock and unlock keeps the inductive invariant.
LEMMA InvNext == IInv /\ [Next]_vars => IInv'
<1> SUFFICES ASSUME IInv, [Next]_vars PROVE IInv'
  OBVIOUS
<1>1. ASSUME NEW t \in Thread, CallLock(t) PROVE IInv'
  <2>1. Placed' /\ Counted' = Counted /\ Holders' = Holders
    BY <1>1 DEF CallLock, Goto, IInv, Placed, Place, Counted, Holders
  <2>2. QED
    BY <1>1, <2>1 DEF CallLock, IInv, WordCounts, MutualExclusion
<1>2. ASSUME NEW t \in Thread, ProbeLock(t) PROVE IInv'
  BY <1>2, ProbeStep DEF ProbeLock
<1>3. ASSUME NEW t \in Thread, UndoLock(t) PROVE IInv'
  BY <1>3, TakeBackStep DEF UndoLock
<1>4. ASSUME NEW t \in Thread, TryLock(t) PROVE IInv'
  BY <1>4, ProbeStep DEF TryLock
<1>5. ASSUME NEW t \in Thread, UndoTry(t) PROVE IInv'
  BY <1>5, TakeBackStep DEF UndoTry
<1>6. ASSUME NEW t \in Thread, Unlock(t) PROVE IInv'
  BY <1>6, TakeBackStep DEF Unlock
<1>7. CASE UNCHANGED vars
  BY <1>7 DEF vars, IInv, Placed, WordCounts, Counted, MutualExclusion, Holders
<1>8. QED
  BY <1>1, <1>2, <1>3, <1>4, <1>5, <1>6, <1>7 DEF Next

\* The inductive invariant holds in every reachable state.
LEMMA Invariance == Spec => []IInv
  BY InvInit, InvNext, PTL DEF Spec

-----------------------------------------------------------------------------
\* The word stays between 0 and the number of threads: no probe sequence
\* drives it below 0 or anywhere near the 64-bit limit.
THEOREM TypeCorrect == Spec => []TypeOK
<1>1. IInv => TypeOK
  BY CountedFinite DEF IInv, Placed, WordCounts, TypeOK
<1>2. QED
  BY <1>1, Invariance, PTL

\* The word is at all times the holder plus the probes in flight.
THEOREM WordAccounting == Spec => []WordCounts
<1>1. IInv => WordCounts
  BY DEF IInv
<1>2. QED
  BY <1>1, Invariance, PTL

\* At most one thread holds the lock, whatever the interleaving of probes,
\* undos, tryLocks and unlocks.
THEOREM Exclusion == Spec => []MutualExclusion
<1>1. IInv => MutualExclusion
  BY DEF IInv
<1>2. QED
  BY <1>1, Invariance, PTL

-----------------------------------------------------------------------------
\* Every step of the spin lock is a step of the abstract lock or leaves its
\* holders alone.
LEMMA StepRefines == IInv /\ [Next]_vars => [Abstract!Next]_Holders
<1> SUFFICES ASSUME IInv, [Next]_vars PROVE [Abstract!Next]_Holders
  OBVIOUS
<1> USE DEF IInv
<1>1. ASSUME NEW t \in Thread, NEW failed \in {"lockUndo", "tryUndo"},
             at[t] \in {"out", "lock"}, Probe(t, failed)
      PROVE  [Abstract!Next]_Holders
  <2>1. CASE word = 0 /\ Goto(t, "held")
    <3>1. Holders = {}
      BY <2>1, CountedFinite DEF WordCounts, Counted, Holders
    <3>2. Holders' = {t}
      BY <2>1, <3>1 DEF Goto, Holders, Placed
    <3>3. QED
      BY <3>1, <3>2 DEF Abstract!Next, Abstract!Acquire
  <2>2. CASE word # 0 /\ Goto(t, failed)
    BY <1>1, <2>2 DEF Goto, Holders, Placed
  <2>3. QED
    BY <1>1, <2>1, <2>2 DEF Probe
<1>2. ASSUME NEW t \in Thread, CallLock(t) PROVE UNCHANGED Holders
  BY <1>2 DEF CallLock, Goto, Holders, Placed
<1>3. ASSUME NEW t \in Thread, ProbeLock(t) PROVE [Abstract!Next]_Holders
  BY <1>1, <1>3 DEF ProbeLock
<1>4. ASSUME NEW t \in Thread, UndoLock(t) PROVE UNCHANGED Holders
  BY <1>4 DEF UndoLock, Goto, Holders, Placed
<1>5. ASSUME NEW t \in Thread, TryLock(t) PROVE [Abstract!Next]_Holders
  BY <1>1, <1>5 DEF TryLock
<1>6. ASSUME NEW t \in Thread, UndoTry(t) PROVE UNCHANGED Holders
  BY <1>6 DEF UndoTry, Goto, Holders, Placed
<1>7. ASSUME NEW t \in Thread, Unlock(t) PROVE [Abstract!Next]_Holders
  <2>1. t \in Holders /\ Holders' = Holders \ {t}
    BY <1>7 DEF Unlock, Goto, Holders, Placed
  <2>2. QED
    BY <2>1 DEF Abstract!Next, Abstract!Release
<1>8. CASE UNCHANGED vars
  BY <1>8 DEF vars, Holders
<1>9. QED
  BY <1>2, <1>3, <1>4, <1>5, <1>6, <1>7, <1>8 DEF Next

\* The spin lock implements the abstract lock: a client that only calls
\* lock, tryLock and unlock cannot tell them apart.
THEOREM Refinement == Spec => ImplementsLock
<1>1. Init => Abstract!Init
  BY DEF Init, Abstract!Init, Holders
<1>2. QED
  BY <1>1, StepRefines, Invariance, PTL DEF Spec, ImplementsLock, Abstract!Spec
=============================================================================
