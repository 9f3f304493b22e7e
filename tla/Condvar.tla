------------------------------- MODULE Condvar ------------------------------
(***************************************************************************)
(* Condvar.aura: a guard and a generation counter, used with a Mutex of    *)
(* its own, which is another SpinLock.  signal and broadcast (which is     *)
(* signal) increment the counter under the guard; wait reads it under the  *)
(* guard, releases the mutex, and spins, without the guard, until it reads *)
(* something else.                                                         *)
(*                                                                         *)
(* The client keeps to lines 22-31: it waits holding the mutex, which it   *)
(* otherwise locks and unlocks as it likes.  It signals with or without.   *)
(***************************************************************************)
EXTENDS Guarded

CONSTANT MaxSignals         \* bound: calls of signal in a behaviour

ASSUME CondvarAssumption == MaxSignals \in Nat

VARIABLES
    mword, mat,     \* the mutex
    generation,
    observed,       \* observed[t]: the local of t's last wait
    signals,        \* the number of signals called
    signalled       \* history: a signal was made since t gave up the mutex

cvWords == <<mword, mat, generation, observed, signals, signalled>>
cvVars == <<guardVars, cvWords>>
cvData == <<generation, observed, signals, signalled>>

Mutex == INSTANCE SpinLock WITH word <- mword, at <- mat

(***************************************************************************)
(* In wait, after the guard has been released:                             *)
(* "unlock" about to unlock the mutex                                      *)
(* "spin"   rereading the generation                                       *)
(* "relock" in Mutex.lock                                                  *)
(***************************************************************************)
CvPlace == {"unlock", "spin", "relock"}

CvInit ==
    /\ GuardInit
    /\ Mutex!Init
    /\ generation = 0
    /\ observed = [t \in Thread |-> 0]
    /\ signals = 0
    /\ signalled = [t \in Thread |-> FALSE]

\* The client locks and unlocks.
CvLock(t) ==
    /\ Idle(t) /\ Mutex!CallLock(t)
    /\ UNCHANGED <<guardVars, cvData>>

CvUnlock(t) ==
    /\ Idle(t) /\ Mutex!Unlock(t)
    /\ UNCHANGED <<guardVars, cvData>>

\* Mutex.lock's loop, the client's or that of wait.
CvMutexSpin(t) ==
    /\ Mutex!ProbeLock(t) \/ Mutex!UndoLock(t)
    /\ UNCHANGED <<guardVars, cvData>>

CvCall(t) ==
    \/ /\ mat[t] = "held"
       /\ Call(t, "wait")
       /\ UNCHANGED cvWords
    \/ /\ mat[t] \in {"out", "held"}
       /\ signals < MaxSignals /\ signals' = signals + 1
       /\ Call(t, "signal")
       /\ UNCHANGED <<mword, mat, generation, observed, signalled>>

Observe(t) ==
    /\ Holding(t, "wait")
    /\ observed' = [observed EXCEPT ![t] = generation]
    /\ signalled' = [signalled EXCEPT ![t] = FALSE]
    /\ Then(t, "exit")
    /\ UNCHANGED <<mword, mat, generation, signals>>

\* The threads that have given up the mutex in a wait.
Waiting == {t \in Thread : pc[t] = "spin"}

\* Slip: the generation is a flag that a signal toggles.
ToggleFlag(t) ==
    /\ Holding(t, "signal")
    /\ generation' = 1 - generation
    /\ signalled' = [u \in Thread |-> signalled[u] \/ u \in Waiting]
    /\ Then(t, "exit")
    /\ UNCHANGED <<mword, mat, observed, signals>>

Signal(t) ==
    /\ Holding(t, "signal")
    /\ generation' = generation + 1
    /\ signalled' = [u \in Thread |-> signalled[u] \/ u \in Waiting]
    /\ Then(t, "exit")
    /\ UNCHANGED <<mword, mat, observed, signals>>

\* spinRelease: the end of signal, the middle of wait.
CvLeave(t) ==
    /\ pc[t] = "exit"
    /\ Guard!Unlock(t)
    /\ \/ call[t] = "signal" /\ Return(t)
       \/ call[t] = "wait" /\ Goto(t, "unlock") /\ UNCHANGED call
    /\ UNCHANGED cvWords

WaitUnlock(t) ==
    /\ pc[t] = "unlock"
    /\ Mutex!Unlock(t)
    /\ Then(t, "spin")
    /\ UNCHANGED cvData

\* The unguarded reread that ends the loop, and the call of Mutex.lock.
WaitPass(t) ==
    /\ pc[t] = "spin" /\ generation # observed[t]
    /\ Mutex!CallLock(t)
    /\ Then(t, "relock")
    /\ UNCHANGED cvData

WaitReturn(t) ==
    /\ pc[t] = "relock" /\ mat[t] = "held"
    /\ Return(t)
    /\ UNCHANGED <<word, at, cvWords>>

-----------------------------------------------------------------------------
CvInside(t) ==
    \/ Spin(t) /\ UNCHANGED cvWords
    \/ CvMutexSpin(t)
    \/ Observe(t)
    \/ Signal(t)
    \/ CvLeave(t)
    \/ WaitUnlock(t)
    \/ WaitPass(t)
    \/ WaitReturn(t)

CvNext == \E t \in Thread : CvLock(t) \/ CvUnlock(t) \/ CvCall(t) \/ CvInside(t)

CvSpec == CvInit /\ [][CvNext]_cvVars

-----------------------------------------------------------------------------
CvTypeOK ==
    /\ GuardTypeOK({"wait", "signal"}, CvPlace)
    /\ mword \in 0 .. Cardinality(Thread)
    /\ mat \in [Thread -> Mutex!Place]
    /\ generation \in Nat
    /\ observed \in [Thread -> Nat]
    /\ signals \in 0 .. MaxSignals
    /\ signalled \in [Thread -> BOOLEAN]

\* A wait that a signal came for after it gave up the mutex stops spinning:
\* the generation it compares with was read before, under the guard, and no
\* later signal brings that value back.
SignalWakes ==
    \A t \in Thread : (t \in Waiting /\ signalled[t]) ~> t \notin Waiting
=============================================================================
