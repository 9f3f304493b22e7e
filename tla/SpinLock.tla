------------------------------ MODULE SpinLock ------------------------------
(***************************************************************************)
(* The spin lock of the Aura standard library, one atomic instruction per  *)
(* step.  aura/core/aura/lang/concurrent/Mutex.aura is this lock;          *)
(* RwLock, Semaphore, Barrier, Condvar and Atomic carry a copy of it       *)
(* (spinAcquire / spinRelease) as the guard of their own words.            *)
(*                                                                         *)
(* The lock is one 64-bit word.  A thread takes it by fetch_add(1) and has *)
(* it only when the OLD value was 0; a thread that read anything else      *)
(* takes its 1 back with fetch_add(-1) and, in `lock`, tries again.  A     *)
(* failed probe is therefore visible to every other thread until it is     *)
(* undone, which is what makes the word more than a boolean.               *)
(***************************************************************************)
EXTENDS Integers, FiniteSets

CONSTANT Thread

ASSUME ThreadAssumption == IsFiniteSet(Thread)

VARIABLES
    word,       \* the lock word at lock_id
    at          \* at[t]: where thread t is in its current call

vars == <<word, at>>

(***************************************************************************)
(* "out"      not in a call and not holding the lock                       *)
(* "lock"     in `lock`, about to probe                                    *)
(* "lockUndo" in `lock`, its probe failed and is still counted             *)
(* "tryUndo"  in `tryLock`, its probe failed and is still counted          *)
(* "held"     holds the lock                                               *)
(***************************************************************************)
Place == {"out", "lock", "lockUndo", "tryUndo", "held"}

Holders == {t \in Thread : at[t] = "held"}

\* The threads whose 1 is in the word.
Counted == {t \in Thread : at[t] \in {"held", "lockUndo", "tryUndo"}}

Init ==
    /\ word = 0
    /\ at = [t \in Thread |-> "out"]

Goto(t, place) == at' = [at EXCEPT ![t] = place]

\* atomicAdd(word, delta): the old value is what the next test reads.
FetchAdd(delta) == word' = word + delta

-----------------------------------------------------------------------------
\* `lock`

CallLock(t) ==
    /\ at[t] = "out"
    /\ Goto(t, "lock")
    /\ UNCHANGED word

\* Slip: a probe that takes the lock on the old value 1 too.
ProbeOffByOne(t, failed) ==
    /\ FetchAdd(1)
    /\ \/ word \in 0 .. 1 /\ Goto(t, "held")
       \/ word > 1 /\ Goto(t, failed)

\* The fetch_add(1) of a probe: it wins iff the old value was 0.
Probe(t, failed) ==
    /\ FetchAdd(1)
    /\ \/ word = 0 /\ Goto(t, "held")
       \/ word # 0 /\ Goto(t, failed)

ProbeLock(t) == at[t] = "lock" /\ Probe(t, "lockUndo")

UndoLock(t) ==
    /\ at[t] = "lockUndo"
    /\ FetchAdd(-1)
    /\ Goto(t, "lock")

-----------------------------------------------------------------------------
\* `tryLock` and `unlock`

TryLock(t) == at[t] = "out" /\ Probe(t, "tryUndo")

\* Slip: tryLock returns false without taking its probe back.
UndoTryForgotten(t) ==
    /\ at[t] = "tryUndo"
    /\ UNCHANGED word
    /\ Goto(t, "out")

\* Slip: the failed probe is taken back twice.
UndoTryTwice(t) ==
    /\ at[t] = "tryUndo"
    /\ FetchAdd(-2)
    /\ Goto(t, "out")

\* Undo and return false.
UndoTry(t) ==
    /\ at[t] = "tryUndo"
    /\ FetchAdd(-1)
    /\ Goto(t, "out")

\* Slip: the release is a compare-and-swap of 1 to 0, which a probe in
\* flight makes fail.
UnlockIfAlone(t) ==
    /\ at[t] = "held"
    /\ word' = IF word = 1 THEN 0 ELSE word
    /\ Goto(t, "out")

Unlock(t) ==
    /\ at[t] = "held"
    /\ FetchAdd(-1)
    /\ Goto(t, "out")

-----------------------------------------------------------------------------
\* What a thread does once it is inside a call; the calls themselves, and
\* the decision to unlock, are the client's.
Inside(t) == ProbeLock(t) \/ UndoLock(t) \/ UndoTry(t)

Next ==
    \E t \in Thread :
        \/ CallLock(t)
        \/ ProbeLock(t)
        \/ UndoLock(t)
        \/ TryLock(t)
        \/ UndoTry(t)
        \/ Unlock(t)

Spec == Init /\ [][Next]_vars

\* Every thread is an OS thread the scheduler keeps running.
FairSpec == Spec /\ \A t \in Thread : WF_vars(Inside(t))

-----------------------------------------------------------------------------
\* The word is never negative and never above the number of threads, far
\* from the 64-bit range.
TypeOK ==
    /\ word \in 0 .. Cardinality(Thread)
    /\ at \in [Thread -> Place]

\* The word counts exactly the holder and the failed probes not yet taken
\* back: no probe is lost and none is taken back twice.  This is what lets
\* the word return to 0, without which the lock is never free again.
WordCounts == word = Cardinality(Counted)

\* At most one thread is between a successful lock or tryLock and its unlock.
MutualExclusion == \A t, u \in Holders : t = u

\* The lock implements the abstract one: failed probes, undos and retries
\* are invisible, a successful probe is the acquisition.
Abstract == INSTANCE AbstractLock WITH holders <- Holders

ImplementsLock == Abstract!Spec

\* Obstruction freedom: a thread in `lock` gets it, however many probes were
\* in flight before, as soon as every other thread stays out.  Nothing more
\* can be promised: two threads whose probes keep overlapping see each
\* other's 1 for ever, although nobody holds the lock.
ObstructionFree ==
    \A t \in Thread :
        <>[](\A u \in Thread \ {t} : at[u] = "out")
            => []<>(at[t] \in {"out", "held"})
=============================================================================
