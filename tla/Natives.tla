------------------------------- MODULE Natives ------------------------------
(***************************************************************************)
(* seed/compiler/src/vm/concurrent_native.rs: the mutex, readers-writer    *)
(* lock, condition variable, barrier and semaphore a compiled program      *)
(* calls as native functions.  Each kind has a registry, a vector of       *)
(* objects behind a lock.  A native of the first four kinds holds the lock *)
(* of its registry for the whole call, also while it sleeps in the object; *)
(* one of the semaphore's takes the object out and lets the registry go.   *)
(*                                                                         *)
(* There is one object of each of the first four kinds, which is not       *)
(* destroyed; semaphores come and go, so that their slots are reused.      *)
(* What a native does to its object happens under the registry's lock (a   *)
(* semaphore's: under the lock of its count) and is one step.              *)
(***************************************************************************)
EXTENDS Integers, Sequences, FiniteSets

CONSTANTS
    Thread,
    Count,          \* the argument of Barrier.new
    Permits,        \* the arguments Semaphore.new is called with
    MaxSemaphores,  \* bound: calls of Semaphore.new
    Programs,       \* the sets of methods a program calls
    MaxCalls        \* bound: calls in a behaviour

ASSUME NativesAssumption ==
    /\ IsFiniteSet(Thread)
    /\ Count \in Int
    /\ Permits \subseteq Int
    /\ MaxSemaphores \in Nat
    /\ MaxCalls \in Nat

VARIABLES
    registry,       \* registry[k]: the thread that has the lock of k's registry
    locked,         \* RawMutex.locked
    readers, writers, \* RawRwLock
    remaining,      \* RawBarrier.remaining
    count,          \* the semaphores made: count[o] of RawSemaphore o
    slots,          \* SEMAPHORE_REGISTRY: slots[h] is a semaphore, or 0
    call,           \* call[t]: the native t is in, or "none"
    place,          \* place[t]: where t is in it
    on,             \* on[t]: the semaphore's handle, then the semaphore
    holds,          \* history: holds[t], what t has locked
    program, calls  \* the methods called, the number of calls made

objects == <<locked, readers, writers, remaining>>
semaphores == <<count, slots>>
position == <<call, place, on>>
nativeVars == <<registry, objects, semaphores, position, holds, program, calls>>

Nobody == "nobody"
Kind == {"mutex", "rwlock", "condvar", "barrier"}

Method == [mutex   |-> {"lock", "tryLock", "unlock"},
           rwlock  |-> {"readLock", "readUnlock", "writeLock", "writeUnlock"},
           condvar |-> {"wait", "signal", "broadcast"},
           barrier |-> {"await"}]

SemaphoreMethod == {"acquire", "tryAcquire", "release"}

NativeInit ==
    /\ registry = [k \in Kind \cup {"semaphore"} |-> Nobody]
    /\ locked = FALSE
    /\ readers = 0 /\ writers = 0
    /\ remaining = Count
    /\ count = <<>> /\ slots = <<>>
    /\ call = [t \in Thread |-> "none"]
    /\ place = [t \in Thread |-> "idle"]
    /\ on = [t \in Thread |-> 0]
    /\ holds = [t \in Thread |-> "nothing"]
    /\ program \in Programs
    /\ calls = 0

-----------------------------------------------------------------------------
(***************************************************************************)
(* "call"    the native is about to take its registry's lock               *)
(* "inside"  it has it (a semaphore's: it has the semaphore)               *)
(* "asleep"  it sleeps on the object's condition variable                  *)
(* "awake"   it was woken, and looks again                                 *)
(***************************************************************************)
At(t, m, where) == call[t] = m /\ place[t] = where

NativeGoto(t, where) == place' = [place EXCEPT ![t] = where] /\ UNCHANGED <<call, on>>

\* A thread unlocks what it holds, waits holding the mutex, and otherwise
\* calls a native when it holds nothing, or holds the mutex.
Allowed(t) ==
    CASE holds[t] = "nothing" -> {"lock", "tryLock", "readLock", "writeLock", "signal",
                                  "broadcast", "await"} \cup SemaphoreMethod
      [] holds[t] = "mutex"   -> {"unlock", "wait", "signal", "broadcast", "release"}
      [] holds[t] = "read"    -> {"readUnlock", "release"}
      [] holds[t] = "write"   -> {"writeUnlock", "release"}

Call(t) ==
    /\ place[t] = "idle"
    /\ calls < MaxCalls /\ calls' = calls + 1
    /\ \E m \in program \cap Allowed(t) :
          /\ call' = [call EXCEPT ![t] = m]
          /\ IF m \in SemaphoreMethod
             THEN \E h \in DOMAIN slots : on' = [on EXCEPT ![t] = h]
             ELSE UNCHANGED on
    /\ place' = [place EXCEPT ![t] = "call"]
    /\ UNCHANGED <<registry, objects, semaphores, holds, program>>

\* The lock of the registry, for the first four kinds.
Enter(t) ==
    /\ place[t] = "call"
    /\ \E k \in Kind :
          /\ call[t] \in Method[k]
          /\ registry[k] = Nobody
          /\ registry' = [registry EXCEPT ![k] = t]
    /\ NativeGoto(t, "inside")
    /\ UNCHANGED <<objects, semaphores, holds, program, calls>>

\* t returns, and so gives back every registry it has; it wakes the
\* sleepers among `woken`.
ReturnWaking(t, woken) ==
    /\ registry' = [k \in DOMAIN registry |->
                       IF registry[k] = t THEN Nobody ELSE registry[k]]
    /\ call' = [call EXCEPT ![t] = "none"]
    /\ on' = [on EXCEPT ![t] = 0]
    /\ place' = [u \in Thread |->
                    IF u = t THEN "idle"
                    ELSE IF u \in woken /\ place[u] = "asleep" THEN "awake"
                    ELSE place[u]]
    /\ UNCHANGED <<program, calls>>

Return(t) == ReturnWaking(t, {})

\* t sleeps on the object and keeps the registry's lock.
Sleep(t) == NativeGoto(t, "asleep") /\ UNCHANGED <<registry, holds, program, calls>>

In(ms) == {t \in Thread : call[t] \in ms}

Looks(t, m) == At(t, m, "inside") \/ At(t, m, "awake")

Now(t, what) == holds' = [holds EXCEPT ![t] = what]

\* A condition variable may wake a sleeper for no reason.
NativeWake(t) ==
    /\ place[t] = "asleep"
    /\ NativeGoto(t, "awake")
    /\ UNCHANGED <<registry, objects, semaphores, holds, program, calls>>

-----------------------------------------------------------------------------
\* Mutex

\* compare_exchange_weak: it can also fail for no reason, and the thread
\* then sleeps although the mutex is free.
MutexLock(t) ==
    /\ Looks(t, "lock")
    /\ \/ /\ ~locked /\ locked' = TRUE
          /\ Now(t, "mutex") /\ Return(t)
       \/ Sleep(t) /\ UNCHANGED locked
    /\ UNCHANGED <<readers, writers, remaining, semaphores>>

MutexTryLock(t) ==
    /\ Looks(t, "tryLock")
    /\ IF locked THEN UNCHANGED <<locked, holds>> ELSE locked' = TRUE /\ Now(t, "mutex")
    /\ Return(t)
    /\ UNCHANGED <<readers, writers, remaining, semaphores>>

MutexUnlock(t) ==
    /\ Looks(t, "unlock")
    /\ locked' = FALSE
    /\ Now(t, "nothing")
    /\ ReturnWaking(t, In({"lock"}))
    /\ UNCHANGED <<readers, writers, remaining, semaphores>>

-----------------------------------------------------------------------------
\* RwLock: two counters, looked at and changed one after the other; nothing
\* but the registry's lock keeps two threads apart.

ReadLock(t) ==
    /\ Looks(t, "readLock")
    /\ \/ /\ writers = 0 /\ readers' = readers + 1
          /\ Now(t, "read") /\ Return(t)
       \/ /\ writers # 0 /\ Sleep(t) /\ UNCHANGED readers
    /\ UNCHANGED <<locked, writers, remaining, semaphores>>

ReadUnlock(t) ==
    /\ Looks(t, "readUnlock")
    /\ readers' = readers - 1
    /\ Now(t, "nothing")
    /\ ReturnWaking(t, IF readers = 1 THEN In({"readLock", "writeLock"}) ELSE {})
    /\ UNCHANGED <<locked, writers, remaining, semaphores>>

\* Slip: the writer does not look at the readers.
WriteLockOverReaders(t) ==
    /\ Looks(t, "writeLock")
    /\ \/ /\ writers = 0 /\ writers' = 1
          /\ Now(t, "write") /\ Return(t)
       \/ /\ writers # 0 /\ Sleep(t) /\ UNCHANGED writers
    /\ UNCHANGED <<locked, readers, remaining, semaphores>>

WriteLock(t) ==
    /\ Looks(t, "writeLock")
    /\ \/ /\ readers = 0 /\ writers = 0 /\ writers' = 1
          /\ Now(t, "write") /\ Return(t)
       \/ /\ (readers # 0 \/ writers # 0) /\ Sleep(t) /\ UNCHANGED writers
    /\ UNCHANGED <<locked, readers, remaining, semaphores>>

WriteUnlock(t) ==
    /\ Looks(t, "writeUnlock")
    /\ writers' = 0
    /\ Now(t, "nothing")
    /\ ReturnWaking(t, In({"readLock", "writeLock"}))
    /\ UNCHANGED <<locked, readers, remaining, semaphores>>

-----------------------------------------------------------------------------
\* Condvar: wait sleeps with two registries, its own and the mutexes'; it
\* does not release the mutex it is given.

CondvarWait(t) ==
    /\ At(t, "wait", "inside")
    /\ registry["mutex"] = Nobody
    /\ registry' = [registry EXCEPT !["mutex"] = t]
    /\ NativeGoto(t, "asleep")
    /\ UNCHANGED <<objects, semaphores, holds, program, calls>>

CondvarWake(t) ==
    /\ At(t, "wait", "awake")
    /\ Return(t)
    /\ UNCHANGED <<objects, semaphores, holds>>

\* notify_one and notify_all.
CondvarSignal(t) ==
    /\ \/ /\ Looks(t, "signal")
          /\ LET waiting == {u \in In({"wait"}) : place[u] = "asleep"} IN
             IF waiting = {} THEN Return(t)
             ELSE \E u \in waiting : ReturnWaking(t, {u})
       \/ Looks(t, "broadcast") /\ ReturnWaking(t, In({"wait"}))
    /\ UNCHANGED <<objects, semaphores, holds>>

-----------------------------------------------------------------------------
\* Barrier: `remaining` goes down and is never set back.

BarrierArrive(t) ==
    /\ At(t, "await", "inside")
    /\ remaining' = remaining - 1
    /\ \/ remaining = 1 /\ ReturnWaking(t, In({"await"})) /\ UNCHANGED holds
       \/ remaining # 1 /\ Sleep(t)
    /\ UNCHANGED <<locked, readers, writers, semaphores>>

BarrierWake(t) ==
    /\ At(t, "await", "awake")
    /\ \/ remaining = 0 /\ Return(t) /\ UNCHANGED holds
       \/ remaining # 0 /\ Sleep(t)
    /\ UNCHANGED <<objects, semaphores>>

-----------------------------------------------------------------------------
\* Semaphore

\* The first slot that is empty, or a new one at the end.
FreeSlot ==
    LET empty == {h \in DOMAIN slots : slots[h] = 0} IN
    IF empty = {} THEN Len(slots) + 1
    ELSE CHOOSE h \in empty : \A i \in empty : h <= i

SemaphoreNew ==
    /\ registry["semaphore"] = Nobody
    /\ "release" \in program /\ Len(count) < MaxSemaphores
    /\ \E p \in Permits : count' = Append(count, IF p < 0 THEN 0 ELSE p)
    /\ slots' = [h \in DOMAIN slots \cup {FreeSlot} |->
                    IF h = FreeSlot THEN Len(count) + 1 ELSE slots[h]]
    /\ UNCHANGED <<registry, objects, position, holds, program, calls>>

\* The semaphore leaves the registry; calls that have it go on with it.
SemaphoreDestroy ==
    /\ registry["semaphore"] = Nobody
    /\ \E h \in DOMAIN slots : slots[h] # 0 /\ slots' = [slots EXCEPT ![h] = 0]
    /\ UNCHANGED <<registry, objects, count, position, holds, program, calls>>

\* Slip: acquire keeps the registry, as the other kinds do.
GetAndKeep(t) ==
    /\ place[t] = "call" /\ call[t] \in SemaphoreMethod
    /\ registry["semaphore"] = Nobody
    /\ IF slots[on[t]] = 0
       THEN Return(t)
       ELSE /\ registry' = [registry EXCEPT !["semaphore"] = t]
            /\ on' = [on EXCEPT ![t] = slots[on[t]]]
            /\ place' = [place EXCEPT ![t] = "inside"]
            /\ UNCHANGED <<call, program, calls>>
    /\ UNCHANGED <<objects, semaphores, holds>>

\* semaphore_get: the lock of the registry is taken and given back; the call
\* of a handle that was destroyed returns.
Get(t) ==
    /\ place[t] = "call" /\ call[t] \in SemaphoreMethod
    /\ registry["semaphore"] = Nobody
    /\ IF slots[on[t]] = 0
       THEN Return(t)
       ELSE /\ on' = [on EXCEPT ![t] = slots[on[t]]]
            /\ place' = [place EXCEPT ![t] = "inside"]
            /\ UNCHANGED <<registry, call, program, calls>>
    /\ UNCHANGED <<objects, semaphores, holds>>

\* acquire and try_acquire with a permit there.
SemaphoreTake(t) ==
    /\ Looks(t, "acquire") \/ Looks(t, "tryAcquire")
    /\ count[on[t]] > 0
    /\ count' = [count EXCEPT ![on[t]] = @ - 1]
    /\ Return(t)
    /\ UNCHANGED <<objects, slots, holds>>

\* And with none: the one sleeps and the other returns false.
SemaphoreNone(t) ==
    /\ \/ Looks(t, "acquire") /\ count[on[t]] <= 0 /\ Sleep(t)
       \/ Looks(t, "tryAcquire") /\ count[on[t]] <= 0 /\ Return(t) /\ UNCHANGED holds
    /\ UNCHANGED <<objects, semaphores>>

Acquiring(o, where) == {u \in Thread : At(u, "acquire", where) /\ on[u] = o}

\* Slip: only a release that finds no permits wakes anybody.
ReleaseFirst(t) ==
    /\ Looks(t, "release")
    /\ count' = [count EXCEPT ![on[t]] = @ + 1]
    /\ IF Acquiring(on[t], "asleep") = {} \/ count[on[t]] > 0 THEN Return(t)
       ELSE \E u \in Acquiring(on[t], "asleep") : ReturnWaking(t, {u})
    /\ UNCHANGED <<objects, slots, holds>>

SemaphoreRelease(t) ==
    /\ Looks(t, "release")
    /\ count' = [count EXCEPT ![on[t]] = @ + 1]
    /\ IF Acquiring(on[t], "asleep") = {} THEN Return(t)
       ELSE \E u \in Acquiring(on[t], "asleep") : ReturnWaking(t, {u})
    /\ UNCHANGED <<objects, slots, holds>>

-----------------------------------------------------------------------------
\* What thread t does next inside its call.
NativeInside(t) ==
    \/ Enter(t)
    \/ MutexLock(t) \/ MutexTryLock(t) \/ MutexUnlock(t)
    \/ ReadLock(t) \/ ReadUnlock(t) \/ WriteLock(t) \/ WriteUnlock(t)
    \/ CondvarWait(t) \/ CondvarWake(t) \/ CondvarSignal(t)
    \/ BarrierArrive(t) \/ BarrierWake(t)
    \/ Get(t) \/ SemaphoreTake(t) \/ SemaphoreNone(t) \/ SemaphoreRelease(t)

NativeNext ==
    \/ SemaphoreNew
    \/ SemaphoreDestroy
    \/ \E t \in Thread : Call(t) \/ NativeWake(t) \/ NativeInside(t)

NativeSpec == NativeInit /\ [][NativeNext]_nativeVars

\* A thread that can take its next step takes it; nothing makes a condition
\* variable wake anybody for no reason.
NativeFairSpec ==
    NativeSpec /\ \A t \in Thread : WF_nativeVars(NativeInside(t))

-----------------------------------------------------------------------------
Methods == (UNION {Method[k] : k \in Kind}) \cup SemaphoreMethod

NativeTypeOK ==
    /\ registry \in [Kind \cup {"semaphore"} -> Thread \cup {Nobody}]
    /\ locked \in BOOLEAN
    /\ readers \in 0 .. Cardinality(Thread)
    /\ writers \in {0, 1}
    /\ remaining \in Int
    /\ count \in Seq(Nat)
    /\ slots \in Seq(0 .. Len(count))
    /\ call \in [Thread -> Methods \cup {"none"}]
    /\ place \in [Thread -> {"idle", "call", "inside", "asleep", "awake"}]
    /\ on \in [Thread -> 0 .. Len(count)]
    /\ holds \in [Thread -> {"nothing", "mutex", "read", "write"}]

Holders(what) == {t \in Thread : holds[t] = what}

\* The mutex and the readers-writer lock exclude, and their words say who
\* has them, although the readers-writer lock tests its two counters and
\* changes them without a lock of its own.
NativeExclusion ==
    /\ Cardinality(Holders("mutex")) = IF locked THEN 1 ELSE 0
    /\ Cardinality(Holders("write")) = writers
    /\ Cardinality(Holders("read")) = readers
    /\ Holders("write") = {} \/ Holders("read") = {}

\* Whoever sleeps on a semaphore sleeps rightly: for every permit that is
\* free a woken thread is on its way to it.  A semaphore that was destroyed
\* meanwhile, or whose slot another one has now, makes no difference.
SemNoLostWakeup ==
    \A o \in DOMAIN count :
        Acquiring(o, "asleep") # {} => count[o] <= Cardinality(Acquiring(o, "awake"))

\* A release of a semaphore returns, whatever the other threads are blocked
\* in (concurrent_native.rs:277: the registry's lock is let go before one
\* waits, or those who wait would never be woken).
SemReleaseReturns ==
    \A t \in Thread : (call[t] = "release") ~> (call[t] = "none")

\* tests/concurrent/barrier_semaphore.aura:83-94: three threads meet at a
\* barrier of three, and all return.  False of the code: the first sleeps
\* with the lock of the registry the others need.
BarrierOpens ==
    Cardinality(In({"await"})) = Count ~> In({"await"}) = {}
=============================================================================
