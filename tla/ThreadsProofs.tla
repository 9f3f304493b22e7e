---------------------------- MODULE ThreadsProofs ---------------------------
(***************************************************************************)
(* Theorems about what the VM builds on the threads of the operating       *)
(* system: the thread pool, the native locks, and futures and promises.    *)
(***************************************************************************)
EXTENDS MCThreads, FiniteSetTheorems, SequenceTheorems,
        WellFoundedInduction, TLAPS

(***************************************************************************)
(* The thread pool: tasks start in the order they were submitted, and what *)
(* shutdown promises about the queue.                                      *)
(*                                                                         *)
(* The promise rests on a worker that the flag caught before its look at   *)
(* the queue (a looker).  It goes on looking until it finds the queue      *)
(* empty, and then every task submitted before has been started (Looking); *)
(* and who has started a task ends only after it (NoTaskDropped).          *)
(***************************************************************************)
PoolTypes ==
    /\ queue \in Seq(Nat) /\ started \in Seq(Nat)
    /\ submitted \in 0 .. MaxTasks
    /\ shutdown \in BOOLEAN /\ owner \in Owner
    /\ at \in [Worker -> Place] /\ task \in [Worker -> 0 .. submitted]
    /\ \A w \in Worker : at[w] = "run" => task[w] # 0
    /\ finished \subseteq 1 .. submitted /\ panicked \subseteq 1 .. submitted
    /\ late.tasks \in 0 .. submitted /\ late.lookers \subseteq Worker

\* A task that was started is over, or somebody is at it.
NoTaskDropped ==
    \A k \in 1 .. Len(started) :
        k \in finished \cup panicked \/ \E w \in Worker : at[w] = "run" /\ task[w] = k

\* A looker is still to look, or ended with a task that panicked, unless all
\* the tasks that were there when the flag was set have been started.
Looking ==
    \A w \in late.lookers :
        \/ at[w] \in {"look", "wait", "run"}
        \/ at[w] = "gone" /\ task[w] \in panicked
        \/ late.tasks <= Len(started)

\* The joins of shutdown are over.
AllGone == owner = "closed" => \A w \in Worker : at[w] = "gone"

PoolInv == PoolTypes /\ StartedInOrder /\ NoTaskDropped /\ Looking /\ AllGone

-----------------------------------------------------------------------------
\* What is taken from the front of the one sequence goes to the end of the other.
LEMMA TakeFromFront ==
    ASSUME NEW S, NEW s \in Seq(S), NEW q \in Seq(S), q # <<>>
    PROVE  /\ Append(s, Head(q)) \o Tail(q) = s \o q
           /\ Head(q) = (s \o q)[Len(s) + 1]
           /\ Head(q) \in S /\ Tail(q) \in Seq(S)
           /\ Append(s, Head(q)) \in Seq(S)
           /\ Len(Append(s, Head(q))) = Len(s) + 1
  OBVIOUS

\* What is added at the end of the second is added at the end of both.
LEMMA AddAtEnd ==
    ASSUME NEW S, NEW s \in Seq(S), NEW q \in Seq(S), NEW e \in S
    PROVE  s \o Append(q, e) = Append(s \o q, e)
  OBVIOUS

\* The numbers up to n and the next one.
LEMMA NextNumber ==
    ASSUME NEW n \in Nat
    PROVE  Append([i \in 1 .. n |-> i], n + 1) = [i \in 1 .. n + 1 |-> i]
  OBVIOUS

\* A new pool satisfies the invariant.
LEMMA PoolInvInit == Init => PoolInv
<1> SUFFICES ASSUME Init PROVE PoolInv
  OBVIOUS
<1> USE DEF Init, Nothing
<1>1. PoolTypes
  <2>1. queue \in Seq(Nat) /\ started \in Seq(Nat)
    OBVIOUS
  <2>2. submitted \in 0 .. MaxTasks /\ late.tasks \in 0 .. submitted
    BY PoolAssumption DEF PoolAssumption
  <2>3. at \in [Worker -> Place] /\ task \in [Worker -> 0 .. submitted]
    BY DEF Place
  <2>4. QED
    BY <2>1, <2>2, <2>3 DEF PoolTypes, Owner
<1>2. StartedInOrder /\ NoTaskDropped /\ Looking /\ AllGone
  BY DEF StartedInOrder, NoTaskDropped, Looking, AllGone
<1>3. QED
  BY <1>1, <1>2 DEF PoolInv

\* A worker takes a task: the first of the queue, and the next to be started.
LEMMA PopStep ==
    ASSUME PoolInv, NEW w \in Worker, Pop(w)
    PROVE  PoolInv'
<1> USE DEF PoolInv, Pop, Goto
<1>1. /\ started' \o queue' = started \o queue
      /\ Head(queue) = Len(started) + 1
      /\ Head(queue) \in 1 .. submitted /\ Tail(queue) \in Seq(Nat)
      /\ started' \in Seq(Nat) /\ Len(started') = Len(started) + 1
  <2>1. queue \in Seq(Nat) /\ started \in Seq(Nat) /\ queue # <<>>
    BY DEF PoolTypes
  <2>2. Len(started) + 1 \in 1 .. submitted
    BY <2>1 DEF PoolTypes, StartedInOrder
  <2>3. (started \o queue)[Len(started) + 1] = Len(started) + 1
    BY <2>2 DEF StartedInOrder
  <2>4. QED
    BY <2>1, <2>2, <2>3, TakeFromFront
<1>2. PoolTypes'
  <2>1. at' \in [Worker -> Place] /\ task' \in [Worker -> 0 .. submitted]
        /\ \A u \in Worker : at'[u] = "run" => task'[u] # 0
    BY <1>1 DEF PoolTypes, Place
  <2>2. QED
    BY <1>1, <2>1 DEF PoolTypes
<1>3. NoTaskDropped'
  <2> SUFFICES ASSUME NEW k \in 1 .. Len(started')
               PROVE  \/ k \in finished' \cup panicked'
                      \/ \E u \in Worker : at'[u] = "run" /\ task'[u] = k
    BY DEF NoTaskDropped
  <2>1. CASE k = Len(started')
    BY <1>1, <2>1 DEF PoolTypes
  <2>2. CASE k \in 1 .. Len(started)
    BY <2>2 DEF PoolTypes, NoTaskDropped
  <2>3. QED
    BY <1>1, <2>1, <2>2 DEF PoolTypes
<1>4. Looking'
  BY <1>1 DEF PoolTypes, Looking
<1>5. QED
  BY <1>1, <1>2, <1>3, <1>4 DEF StartedInOrder, AllGone, PoolTypes

\* A worker looks at the queue or at the flag, or is woken.
LEMMA LookStep ==
    ASSUME PoolInv, NEW w \in Worker, FindEmpty(w) \/ Check(w) \/ WakeSpuriously(w)
    PROVE  PoolInv'
<1> USE DEF PoolInv, FindEmpty, Check, WakeSpuriously, Goto, history
<1>1. PoolTypes'
  BY DEF PoolTypes, Place
<1>2. NoTaskDropped'
  BY DEF PoolTypes, NoTaskDropped
<1>3. queue = <<>> => Len(started) = submitted
  BY DEF PoolTypes, StartedInOrder
<1>4. Looking'
  <2> SUFFICES ASSUME NEW u \in late.lookers,
                      at'[u] \notin {"look", "wait", "run"},
                      ~ (at'[u] = "gone" /\ task[u] \in panicked)
               PROVE  late.tasks <= Len(started)
    BY DEF Looking
  <2>1. CASE u = w /\ at[w] = "look"
    BY <1>3, <2>1 DEF PoolTypes
  <2>2. CASE ~ (u = w /\ at[w] = "look")
    BY <2>2 DEF PoolTypes, Looking
  <2>3. QED
    BY <2>1, <2>2
<1>5. QED
  BY <1>1, <1>2, <1>4 DEF StartedInOrder, AllGone, PoolTypes

\* The task of a worker returns or panics.
LEMMA TaskOverStep ==
    ASSUME PoolInv, NEW w \in Worker, Finish(w) \/ Panic(w)
    PROVE  PoolInv'
<1> USE DEF PoolInv, Finish, Panic, Goto
<1>1. PoolTypes'
  <2>1. task[w] \in 1 .. submitted
    BY DEF PoolTypes
  <2>2. at' \in [Worker -> Place] /\ \A u \in Worker : at'[u] = "run" => at[u] = "run"
    BY DEF PoolTypes, Place
  <2>3. QED
    BY <2>1, <2>2 DEF PoolTypes
<1>2. NoTaskDropped'
  BY DEF PoolTypes, NoTaskDropped
<1>3. Looking'
  BY DEF PoolTypes, Looking
<1>4. QED
  BY <1>1, <1>2, <1>3 DEF StartedInOrder, AllGone, PoolTypes

\* A task is submitted.
LEMMA ExecuteStep == ASSUME PoolInv, Execute PROVE PoolInv'
<1> USE DEF PoolInv, Execute
<1>1. PoolTypes'
  BY PoolAssumption DEF PoolAssumption, PoolTypes
<1>2. started \o queue' = Append(started \o queue, submitted + 1)
  BY AddAtEnd DEF PoolTypes
<1>3. StartedInOrder'
  <2>1. submitted \in Nat
    BY DEF PoolTypes
  <2>2. started \o queue' = [i \in 1 .. submitted + 1 |-> i]
    BY <1>2, <2>1, NextNumber DEF StartedInOrder
  <2>3. QED
    BY <2>2 DEF StartedInOrder
<1>4. QED
  BY <1>1, <1>3 DEF NoTaskDropped, Looking, AllGone

\* The owner sets the flag, notifies, joins, or drops the pool.
LEMMA OwnerStep ==
    ASSUME PoolInv, SetFlag \/ NotifyAll \/ Join \/ Drop
    PROVE  PoolInv'
<1> USE DEF PoolInv, history
<1>1. CASE SetFlag
  BY <1>1 DEF SetFlag, PoolTypes, Owner, StartedInOrder, NoTaskDropped, Looking, AllGone
<1>2. CASE NotifyAll
  BY <1>2 DEF NotifyAll, PoolTypes, Owner, Place, StartedInOrder, NoTaskDropped, Looking, AllGone
<1>3. CASE Join \/ Drop
  BY <1>3 DEF Join, Drop, PoolTypes, Owner, StartedInOrder, NoTaskDropped, Looking, AllGone
<1>4. QED
  BY <1>1, <1>2, <1>3

\* Every step keeps the invariant.
LEMMA PoolInvNext == PoolInv /\ [Next]_vars => PoolInv'
<1>1. PoolInv /\ UNCHANGED vars => PoolInv'
  BY DEF vars, PoolInv, PoolTypes, StartedInOrder, NoTaskDropped, Looking, AllGone
<1>2. QED
  BY <1>1, PopStep, LookStep, TaskOverStep, ExecuteStep, OwnerStep DEF Next, Work

\* The invariant holds in every reachable state.
LEMMA PoolInvariance == Spec => []PoolInv
  BY PoolInvInit, PoolInvNext, PTL DEF Spec

\* The state of the pool has its types: no more is queued than was submitted,
\* and every task a worker has, ended or not, is one of those.
THEOREM PoolTypeCorrect == Spec => []TypeOK
<1>1. PoolInv => TypeOK
  <2> SUFFICES ASSUME PoolInv PROVE TypeOK
    OBVIOUS
  <2>1. submitted \in Nat /\ MaxTasks \in Nat /\ 0 .. submitted \subseteq Task \cup {0}
        /\ 1 .. submitted \subseteq Task /\ submitted <= MaxTasks
    BY PoolAssumption DEF PoolAssumption, PoolInv, PoolTypes, Task
  <2>2. Len(started) + Len(queue) = submitted
    BY <2>1 DEF PoolInv, PoolTypes, StartedInOrder
  <2>3. \A i \in 1 .. Len(started) : started[i] = i
    <3> TAKE i \in 1 .. Len(started)
    <3>1. (started \o queue)[i] = started[i]
      BY DEF PoolInv, PoolTypes
    <3>2. i \in 1 .. submitted
      BY <2>1, <2>2 DEF PoolInv, PoolTypes
    <3>3. QED
      BY <3>1, <3>2 DEF PoolInv, StartedInOrder
  <2>4. \A i \in 1 .. Len(queue) : queue[i] = Len(started) + i
    <3> TAKE i \in 1 .. Len(queue)
    <3>1. (started \o queue)[Len(started) + i] = queue[i]
      BY DEF PoolInv, PoolTypes
    <3>2. Len(started) + i \in 1 .. submitted
      BY <2>1, <2>2 DEF PoolInv, PoolTypes
    <3>3. QED
      BY <3>1, <3>2 DEF PoolInv, StartedInOrder
  <2>5. started \in Seq(Task)
    BY <2>1, <2>2, <2>3 DEF PoolInv, PoolTypes, Task
  <2>6. queue \in Seq(Task)
    <3>1. \A i \in 1 .. Len(queue) : queue[i] \in Task
      BY <2>1, <2>2, <2>4 DEF PoolInv, PoolTypes, Task
    <3>2. queue \in [1 .. Len(queue) -> Task] /\ Len(queue) \in Nat
      BY <3>1 DEF PoolInv, PoolTypes
    <3>3. QED
      BY <3>2, SeqDef
  <2>7. Len(queue) <= MaxTasks
    BY <2>1, <2>2 DEF PoolInv, PoolTypes
  <2>8. at \in [Worker -> Place] /\ task \in [Worker -> Task \cup {0}]
    BY <2>1 DEF PoolInv, PoolTypes
  <2>9. QED
    BY <2>1, <2>5, <2>6, <2>7, <2>8 DEF PoolInv, PoolTypes, TypeOK
<1>2. QED
  BY <1>1, PoolInvariance, PTL

\* Tasks are popped in the order of execute, each once, whatever panics.
THEOREM TasksInOrder == Spec => []StartedInOrder
<1>1. PoolInv => StartedInOrder
  BY DEF PoolInv
<1>2. QED
  BY <1>1, PoolInvariance, PTL

\* ThreadPool.shutdown: when it returns, the tasks submitted before it are
\* over, if it caught one worker before the look at the queue whose tasks did
\* not panic.
THEOREM DrainedByLookers == Spec => []ShutdownDrains
<1>1. PoolInv => ShutdownDrains
  <2> SUFFICES ASSUME PoolInv, owner = "closed",
                      NEW w \in late.lookers, task[w] \notin panicked,
                      NEW k \in 1 .. late.tasks
               PROVE  k \in finished \cup panicked
    BY DEF ShutdownDrains
  <2>1. \A u \in Worker : at[u] = "gone"
    BY DEF PoolInv, AllGone
  <2>2. late.tasks <= Len(started)
    BY <2>1 DEF PoolInv, PoolTypes, Looking
  <2>3. k \in 1 .. Len(started)
    BY <2>2 DEF PoolInv, PoolTypes
  <2>4. QED
    BY <2>1, <2>3 DEF PoolInv, NoTaskDropped
<1>2. QED
  BY <1>1, PoolInvariance, PTL

-----------------------------------------------------------------------------
(***************************************************************************)
(* The native locks.  Each native looks at its object and changes it in    *)
(* one step, under the lock of the registry; so what there is to prove is  *)
(* that the objects' words, the calls the threads are in and what each     *)
(* thread has locked agree (Calls, Locks), and that a semaphore, which     *)
(* sleeps without its registry, has woken a thread for every permit that   *)
(* lies there while others sleep.                                          *)
(***************************************************************************)
Where == {"idle", "call", "inside", "asleep", "awake"}

\* A thread is in a native that what it holds allows it.
Calls ==
    /\ call \in [Thread -> Methods \cup {"none"}]
    /\ place \in [Thread -> Where]
    /\ holds \in [Thread -> {"nothing", "mutex", "read", "write"}]
    /\ \A t \in Thread :
          /\ place[t] = "idle" <=> call[t] = "none"
          /\ call[t] # "none" => call[t] \in Allowed(t)

\* The words say who holds what.
Locks ==
    /\ locked \in BOOLEAN /\ readers \in Nat /\ writers \in {0, 1}
    /\ locked <=> Holders("mutex") # {}
    /\ writers = 1 <=> Holders("write") # {}
    /\ Cardinality(Holders("read")) = readers
    /\ \A t, u \in Thread :
          /\ holds[t] = "mutex" /\ holds[u] = "mutex" => t = u
          /\ holds[t] = "write" /\ holds[u] = "write" => t = u
    /\ Holders("write") = {} \/ Holders("read") = {}

\* The registry of the semaphores is free between two steps, and every
\* handle and every semaphore in a call exists.
Semaphores ==
    /\ registry \in [Kind \cup {"semaphore"} -> Thread \cup {Nobody}]
    /\ registry["semaphore"] = Nobody
    /\ remaining \in Int
    /\ count \in Seq(Nat) /\ slots \in Seq(0 .. Len(count)) /\ Len(slots) <= Len(count)
    /\ on \in [Thread -> 0 .. Len(count)]
    /\ \A t \in Thread :
          call[t] \in SemaphoreMethod =>
              on[t] \in IF place[t] = "call" THEN DOMAIN slots ELSE DOMAIN count

-----------------------------------------------------------------------------
\* Thread t goes on inside its call.
Goes(t) ==
    /\ place[t] # "idle"
    /\ \E where \in Where \ {"idle"} : place' = [place EXCEPT ![t] = where]
    /\ UNCHANGED <<call, holds>>

\* Thread t returns, holding `what`.
Leaves(t, what) ==
    /\ call' = [call EXCEPT ![t] = "none"]
    /\ place'[t] = "idle"
    /\ \A u \in Thread \ {t} : place[u] = place'[u] \/ (place[u] = "asleep" /\ place'[u] = "awake")
    /\ place' \in [Thread -> Where]
    /\ holds' = [holds EXCEPT ![t] = what]

\* Every return leaves.
LEMMA ReturnLeaves ==
    ASSUME Calls, NEW t \in Thread, NEW woken, ReturnWaking(t, woken),
           NEW what, holds' = [holds EXCEPT ![t] = what]
    PROVE  Leaves(t, what)
<1> USE DEF Calls, ReturnWaking
<1>1. call' = [call EXCEPT ![t] = "none"] /\ place'[t] = "idle"
  OBVIOUS
<1>2. \A u \in Thread \ {t} :
         place[u] = place'[u] \/ (place[u] = "asleep" /\ place'[u] = "awake")
  OBVIOUS
<1>3. place' \in [Thread -> Where]
  BY DEF Where
<1>4. QED
  BY <1>1, <1>2, <1>3 DEF Leaves

\* A step that leaves `holds` alone leaves what t holds.
LEMMA HoldsKept ==
    ASSUME Calls, NEW t \in Thread, UNCHANGED holds
    PROVE  holds' = [holds EXCEPT ![t] = holds[t]]
  BY DEF Calls

\* Every step of a thread inside its call is of one of the two kinds.
LEMMA NativeMoves ==
    ASSUME Calls, NEW t \in Thread, NativeWake(t) \/ NativeInside(t)
    PROVE  \/ Goes(t)
           \/ \E what \in {"nothing", "mutex", "read", "write"} : Leaves(t, what)
<1> USE DEF Where
<1>0. holds[t] \in {"nothing", "mutex", "read", "write"}
  BY DEF Calls
<1>1. CASE NativeWake(t) \/ Enter(t) \/ CondvarWait(t)
  BY <1>1 DEF NativeWake, Enter, CondvarWait, At, NativeGoto, Goes
<1>2. CASE MutexLock(t) \/ MutexTryLock(t) \/ MutexUnlock(t)
  <2>1. CASE MutexLock(t)
    BY <2>1, ReturnLeaves DEF MutexLock, Looks, At, Sleep, NativeGoto, Goes, Now, Return
  <2>2. CASE MutexTryLock(t)
    BY <1>0, <2>2, ReturnLeaves, HoldsKept DEF MutexTryLock, Now, Return
  <2>3. CASE MutexUnlock(t)
    BY <2>3, ReturnLeaves DEF MutexUnlock, Now
  <2>4. QED
    BY <1>2, <2>1, <2>2, <2>3
<1>3. CASE ReadLock(t) \/ WriteLock(t)
  BY <1>3, ReturnLeaves DEF ReadLock, WriteLock, Looks, At, Sleep, NativeGoto, Goes, Now, Return
<1>4. CASE ReadUnlock(t) \/ WriteUnlock(t)
  BY <1>4, ReturnLeaves DEF ReadUnlock, WriteUnlock, Now
<1>5. CASE CondvarWake(t) \/ CondvarSignal(t)
  BY <1>0, <1>5, ReturnLeaves, HoldsKept DEF CondvarWake, CondvarSignal, Return
<1>6. CASE BarrierArrive(t) \/ BarrierWake(t)
  <2>1. CASE Sleep(t)
    BY <1>6, <2>1 DEF BarrierArrive, BarrierWake, At, Sleep, NativeGoto, Goes
  <2>2. CASE ~Sleep(t)
    BY <1>0, <1>6, <2>2, ReturnLeaves, HoldsKept DEF BarrierArrive, BarrierWake, Return
  <2>3. QED
    BY <2>1, <2>2
<1>7. CASE Get(t)
  BY <1>0, <1>7, ReturnLeaves, HoldsKept DEF Get, Goes, Return
<1>8. CASE SemaphoreTake(t) \/ SemaphoreNone(t) \/ SemaphoreRelease(t)
  <2>1. CASE Sleep(t)
    BY <1>8, <2>1 DEF SemaphoreTake, SemaphoreNone, SemaphoreRelease, Return, ReturnWaking,
       Looks, At, Sleep, NativeGoto, Goes
  <2>2. CASE ~Sleep(t)
    BY <1>0, <1>8, <2>2, ReturnLeaves, HoldsKept
       DEF SemaphoreTake, SemaphoreNone, SemaphoreRelease, Return
  <2>3. QED
    BY <2>1, <2>2
<1>9. QED
  BY <1>1, <1>2, <1>3, <1>4, <1>5, <1>6, <1>7, <1>8 DEF NativeInside

\* Every step keeps Calls.
LEMMA CallsNext == Calls /\ [NativeNext]_nativeVars => Calls'
<1> SUFFICES ASSUME Calls, [NativeNext]_nativeVars PROVE Calls'
  OBVIOUS
<1>1. CASE UNCHANGED <<call, place, holds>>
  BY <1>1 DEF Calls, Allowed
<1>2. ASSUME NEW t \in Thread, Call(t)
      PROVE  Calls'
  <2>1. Allowed(t) \subseteq Methods
    <3>1. \A k \in Kind : Method[k] \subseteq Methods
      BY DEF Methods
    <3>2. Method["mutex"] \cup Method["rwlock"] \cup Method["condvar"] \cup Method["barrier"]
             \cup SemaphoreMethod \subseteq Methods
      <4>1. {"mutex", "rwlock", "condvar", "barrier"} \subseteq Kind
        BY DEF Kind
      <4>2. SemaphoreMethod \subseteq Methods
        BY DEF Methods
      <4>3. QED
        BY <3>1, <4>1, <4>2
    <3>3. holds[t] \in {"nothing", "mutex", "read", "write"}
      BY DEF Calls
    <3>4. QED
      BY <3>2, <3>3 DEF Allowed, Method, SemaphoreMethod
  <2>2. PICK m \in Allowed(t) : call' = [call EXCEPT ![t] = m]
    BY <1>2 DEF Call
  <2>3. m # "none"
    BY DEF Calls, Allowed, SemaphoreMethod
  <2>4. QED
    BY <1>2, <2>1, <2>2, <2>3 DEF Call, Calls, Allowed, Where
<1>3. ASSUME NEW t \in Thread, Goes(t)
      PROVE  Calls'
  BY <1>3 DEF Goes, Calls, Allowed
<1>4. ASSUME NEW t \in Thread, NEW what \in {"nothing", "mutex", "read", "write"},
             Leaves(t, what)
      PROVE  Calls'
  BY <1>4 DEF Leaves, Calls, Allowed
<1>5. QED
  BY <1>1, <1>2, <1>3, <1>4, NativeMoves
     DEF NativeNext, nativeVars, position, SemaphoreNew, SemaphoreDestroy

-----------------------------------------------------------------------------
\* The threads that hold something are finitely many.
LEMMA HoldersFinite ==
    ASSUME NEW what
    PROVE  IsFiniteSet(Holders(what)) /\ Cardinality(Holders(what)) \in Nat
<1>1. IsFiniteSet(Thread)
  BY NativesAssumption DEF NativesAssumption
<1>2. QED
  BY <1>1, FS_Subset, FS_CardinalityType DEF Holders

\* In a call that locks a thread holds nothing; in one that unlocks it holds
\* what it unlocks.
LEMMA HeldInCall ==
    ASSUME Calls, NEW t \in Thread
    PROVE  /\ call[t] \in {"lock", "tryLock", "readLock", "writeLock"} => holds[t] = "nothing"
           /\ call[t] = "unlock" => holds[t] = "mutex"
           /\ call[t] = "readUnlock" => holds[t] = "read"
           /\ call[t] = "writeUnlock" => holds[t] = "write"
  BY DEF Calls, Allowed, SemaphoreMethod

\* No step but those of the mutex and of the readers-writer lock changes
\* what is locked.
LEMMA LocksKept ==
    ASSUME Locks, UNCHANGED <<locked, readers, writers, holds>>
    PROVE  Locks'
  BY DEF Locks, Holders

\* The mutex is locked or unlocked.
LEMMA MutexStep ==
    ASSUME Calls, Locks, NEW t \in Thread,
           MutexLock(t) \/ MutexTryLock(t) \/ MutexUnlock(t)
    PROVE  Locks'
<1>1. CASE UNCHANGED <<locked, holds>>
  BY <1>1, LocksKept DEF MutexLock, MutexTryLock, MutexUnlock
<1>2. UNCHANGED <<readers, writers>>
  BY DEF MutexLock, MutexTryLock, MutexUnlock
<1>3. CASE holds[t] = "nothing" /\ ~locked /\ locked' = TRUE
           /\ holds' = [holds EXCEPT ![t] = "mutex"]
  <2>1. /\ Holders("mutex")' = Holders("mutex") \cup {t}
        /\ Holders("read")' = Holders("read") /\ Holders("write")' = Holders("write")
    BY <1>3 DEF Calls, Holders
  <2>2. Holders("mutex") = {}
    BY <1>3 DEF Locks
  <2>3. Holders("mutex")' = {t}
    BY <2>1, <2>2
  <2>4. \A u, v \in Thread :
           /\ holds'[u] = "mutex" /\ holds'[v] = "mutex" => u = v
           /\ holds'[u] = "write" /\ holds'[v] = "write" => u = v
    BY <1>3, <2>2 DEF Calls, Locks, Holders
  <2>5. locked' \in BOOLEAN /\ (locked' <=> Holders("mutex")' # {})
    BY <1>3, <2>3
  <2>6. /\ readers' \in Nat /\ writers' \in {0, 1}
        /\ writers' = 1 <=> Holders("write")' # {}
        /\ Cardinality(Holders("read")') = readers'
        /\ Holders("write")' = {} \/ Holders("read")' = {}
    BY <1>2, <2>1 DEF Locks
  <2>7. QED
    BY <2>4, <2>5, <2>6 DEF Locks
<1>4. CASE holds[t] = "mutex" /\ locked' = FALSE
           /\ holds' = [holds EXCEPT ![t] = "nothing"]
  <2>1. /\ Holders("mutex")' = Holders("mutex") \ {t}
        /\ Holders("read")' = Holders("read") /\ Holders("write")' = Holders("write")
    BY <1>4 DEF Calls, Holders
  <2>2. Holders("mutex")' = {}
    BY <1>4, <2>1 DEF Locks, Holders
  <2>3. \A u, v \in Thread :
           /\ holds'[u] = "mutex" /\ holds'[v] = "mutex" => u = v
           /\ holds'[u] = "write" /\ holds'[v] = "write" => u = v
    BY <1>4 DEF Calls, Locks
  <2>4. locked' \in BOOLEAN /\ (locked' <=> Holders("mutex")' # {})
    BY <1>4, <2>2
  <2>5. /\ readers' \in Nat /\ writers' \in {0, 1}
        /\ writers' = 1 <=> Holders("write")' # {}
        /\ Cardinality(Holders("read")') = readers'
        /\ Holders("write")' = {} \/ Holders("read")' = {}
    BY <1>2, <2>1 DEF Locks
  <2>6. QED
    BY <2>3, <2>4, <2>5 DEF Locks
<1>5. QED
  BY <1>1, <1>3, <1>4, HeldInCall
     DEF MutexLock, MutexTryLock, MutexUnlock, Looks, At, Sleep, Now

\* The readers-writer lock is taken or left by a reader.
LEMMA ReadStep ==
    ASSUME Calls, Locks, NEW t \in Thread, ReadLock(t) \/ ReadUnlock(t)
    PROVE  Locks'
<1>1. CASE UNCHANGED <<readers, holds>>
  BY <1>1, LocksKept DEF ReadLock, ReadUnlock
<1>2. UNCHANGED <<locked, writers>>
  BY DEF ReadLock, ReadUnlock
<1>3. CASE holds[t] = "nothing" /\ writers = 0 /\ readers' = readers + 1
           /\ holds' = [holds EXCEPT ![t] = "read"]
  <2>1. /\ Holders("read")' = Holders("read") \cup {t} /\ t \notin Holders("read")
        /\ Holders("mutex")' = Holders("mutex") /\ Holders("write")' = Holders("write")
    BY <1>3 DEF Calls, Holders
  <2>2. Cardinality(Holders("read") \cup {t}) = Cardinality(Holders("read")) + 1
    BY <2>1, HoldersFinite, FS_AddElement
  <2>3. Holders("write") = {} /\ readers' \in Nat
    BY <1>3 DEF Locks
  <2>4. QED
    BY <1>2, <1>3, <2>1, <2>2, <2>3 DEF Calls, Locks
<1>4. CASE holds[t] = "read" /\ readers' = readers - 1
           /\ holds' = [holds EXCEPT ![t] = "nothing"]
  <2>1. /\ Holders("read")' = Holders("read") \ {t} /\ t \in Holders("read")
        /\ Holders("mutex")' = Holders("mutex") /\ Holders("write")' = Holders("write")
    BY <1>4 DEF Calls, Holders
  <2>2. Cardinality(Holders("read") \ {t}) = Cardinality(Holders("read")) - 1
    BY <2>1, HoldersFinite, FS_RemoveElement
  <2>3. Cardinality(Holders("read") \ {t}) \in Nat
    BY <2>1, HoldersFinite, FS_RemoveElement, FS_CardinalityType
  <2>4. QED
    BY <1>2, <1>4, <2>1, <2>2, <2>3 DEF Calls, Locks
<1>5. QED
  BY <1>1, <1>3, <1>4, HeldInCall DEF ReadLock, ReadUnlock, Looks, At, Sleep, Now

\* The readers-writer lock is taken or left by a writer.
LEMMA WriteStep ==
    ASSUME Calls, Locks, NEW t \in Thread, WriteLock(t) \/ WriteUnlock(t)
    PROVE  Locks'
<1>1. CASE UNCHANGED <<writers, holds>>
  BY <1>1, LocksKept DEF WriteLock, WriteUnlock
<1>2. UNCHANGED <<locked, readers>>
  BY DEF WriteLock, WriteUnlock
<1>3. CASE holds[t] = "nothing" /\ readers = 0 /\ writers = 0 /\ writers' = 1
           /\ holds' = [holds EXCEPT ![t] = "write"]
  <2>1. /\ Holders("write")' = Holders("write") \cup {t}
        /\ Holders("mutex")' = Holders("mutex") /\ Holders("read")' = Holders("read")
    BY <1>3 DEF Calls, Holders
  <2>2. Holders("read") = {}
    BY <1>3, HoldersFinite, FS_EmptySet DEF Locks
  <2>3. Holders("write") = {}
    BY <1>3 DEF Locks
  <2>4. QED
    BY <1>2, <1>3, <2>1, <2>2, <2>3 DEF Calls, Locks, Holders
<1>4. CASE holds[t] = "write" /\ writers' = 0
           /\ holds' = [holds EXCEPT ![t] = "nothing"]
  <2>1. /\ Holders("write")' = Holders("write") \ {t}
        /\ Holders("mutex")' = Holders("mutex") /\ Holders("read")' = Holders("read")
    BY <1>4 DEF Calls, Holders
  <2>2. Holders("write")' = {}
    BY <1>4, <2>1 DEF Locks, Holders
  <2>3. \A u, v \in Thread :
           /\ holds'[u] # "write"
           /\ holds'[u] = "mutex" /\ holds'[v] = "mutex" => u = v
    BY <1>4, <2>2 DEF Calls, Locks, Holders
  <2>4. QED
    BY <1>2, <1>4, <2>1, <2>2, <2>3 DEF Locks
<1>5. QED
  BY <1>1, <1>3, <1>4, HeldInCall DEF WriteLock, WriteUnlock, Looks, At, Sleep, Now

\* Every step keeps Locks.
LEMMA LocksNext == Calls /\ Locks /\ [NativeNext]_nativeVars => Locks'
<1> SUFFICES ASSUME Calls, Locks, [NativeNext]_nativeVars PROVE Locks'
  OBVIOUS
<1>1. CASE UNCHANGED <<locked, readers, writers, holds>>
  BY <1>1, LocksKept
<1>2. ASSUME NEW t \in Thread, NativeInside(t)
      PROVE  Locks'
  BY <1>1, <1>2, MutexStep, ReadStep, WriteStep
     DEF NativeInside, Enter, CondvarWait, CondvarWake, CondvarSignal, BarrierArrive,
         BarrierWake, Get, SemaphoreTake, SemaphoreNone, SemaphoreRelease, Sleep, objects
<1>3. ASSUME NEW t \in Thread, Call(t) \/ NativeWake(t)
      PROVE  Locks'
  BY <1>1, <1>3 DEF Call, NativeWake, objects
<1>4. QED
  BY <1>1, <1>2, <1>3 DEF NativeNext, nativeVars, objects, SemaphoreNew, SemaphoreDestroy

\* At the start nobody holds anything.
LEMMA LocksInit == NativeInit => Calls /\ Locks
<1> SUFFICES ASSUME NativeInit PROVE Calls /\ Locks
  OBVIOUS
<1>1. Holders("mutex") = {} /\ Holders("read") = {} /\ Holders("write") = {}
  BY DEF NativeInit, Holders
<1>2. Calls
  BY DEF NativeInit, Calls, Where
<1>3. Locks
  <2>1. Cardinality(Holders("read")) = 0
    BY <1>1, FS_EmptySet
  <2>2. ~locked /\ locked \in BOOLEAN /\ readers = 0 /\ writers = 0
    BY DEF NativeInit
  <2>3. \A t \in Thread : holds[t] = "nothing"
    BY DEF NativeInit
  <2>4. QED
    BY <1>1, <2>1, <2>2, <2>3 DEF Locks
<1>4. QED
  BY <1>2, <1>3

\* The mutex and the readers-writer lock exclude, whatever the threads call.
THEOREM NativeLocksExclude == NativeSpec => []NativeExclusion
<1>1. Calls /\ Locks => NativeExclusion
  <2> SUFFICES ASSUME Calls, Locks PROVE NativeExclusion
    OBVIOUS
  <2>1. ASSUME NEW what \in {"mutex", "write"}
        PROVE  Cardinality(Holders(what)) = IF Holders(what) = {} THEN 0 ELSE 1
    <3>1. CASE Holders(what) = {}
      BY <3>1, FS_EmptySet
    <3>2. ASSUME NEW t \in Holders(what)
          PROVE  Cardinality(Holders(what)) = 1
      <4>1. Holders(what) = {t}
        BY <3>2 DEF Locks, Holders
      <4>2. QED
        BY <4>1, FS_Singleton
    <3>3. QED
      BY <3>1, <3>2
  <2>2. QED
    BY <2>1 DEF Locks, NativeExclusion
<1>2. QED
  BY <1>1, LocksInit, LocksNext, CallsNext, PTL DEF NativeSpec

-----------------------------------------------------------------------------
\* A set of numbers that is not empty has a least one.
LEMMA LeastNumber ==
    ASSUME NEW S, S \subseteq Nat, S # {}
    PROVE  \E x \in S : \A y \in S : x <= y
<1>1. PICK x \in S : \A y \in S : ~ (<<y, x>> \in OpToRel(<, Nat))
  BY NatLessThanWellFounded, WFMin
<1>2. ASSUME NEW y \in S PROVE x <= y
  <2>1. <<y, x>> \notin OpToRel(<, Nat)
    BY <1>1
  <2>2. <<y, x>> \in Nat \X Nat
    OBVIOUS
  <2>3. ~ (y < x)
    BY <2>1, <2>2 DEF OpToRel
  <2>4. QED
    BY <2>3
<1>3. QED
  BY <1>2

\* The slot a new semaphore gets is one of the vector or the next one.
LEMMA FreeSlotThere ==
    ASSUME NEW S, slots \in Seq(S)
    PROVE  FreeSlot \in 1 .. Len(slots) + 1
<1> DEFINE empty == {h \in DOMAIN slots : slots[h] = 0}
<1>1. CASE empty = {}
  BY <1>1 DEF FreeSlot
<1>2. CASE empty # {}
  <2>1. empty \subseteq 1 .. Len(slots)
    OBVIOUS
  <2>2. \E x \in empty : \A y \in empty : x <= y
    <3> HIDE DEF empty
    <3>1. empty \subseteq Nat
      BY <2>1
    <3>2. QED
      BY <1>2, <3>1, LeastNumber
  <2>3. FreeSlot \in empty
    BY <1>2, <2>2 DEF FreeSlot
  <2>4. QED
    BY <2>1, <2>3
<1>3. QED
  BY <1>1, <1>2

\* A return keeps Semaphores, if the step changes no more than the number of
\* permits of some semaphores.
LEMMA ReturnKeepsSemaphores ==
    ASSUME Calls, Semaphores, NEW t \in Thread, NEW woken, ReturnWaking(t, woken),
           UNCHANGED slots, count' \in Seq(Nat), Len(count') = Len(count),
           remaining' \in Int
    PROVE  Semaphores'
<1> USE DEF Calls, Semaphores, ReturnWaking
<1>1. registry' \in [Kind \cup {"semaphore"} -> Thread \cup {Nobody}]
      /\ registry'["semaphore"] = Nobody
  OBVIOUS
<1>2. on' \in [Thread -> 0 .. Len(count')]
  OBVIOUS
<1>3. \A u \in Thread :
         call'[u] \in SemaphoreMethod =>
             on'[u] \in IF place'[u] = "call" THEN DOMAIN slots' ELSE DOMAIN count'
  BY DEF SemaphoreMethod
<1>4. QED
  BY <1>1, <1>2, <1>3

\* So does going on inside a call, but for the first step of a call to a
\* semaphore.
LEMMA GotoKeepsSemaphores ==
    ASSUME Calls, Semaphores, NEW t \in Thread,
           place[t] # "call" \/ call[t] \notin SemaphoreMethod,
           NEW where \in {"inside", "asleep", "awake"}, NativeGoto(t, where),
           UNCHANGED <<count, slots>>, remaining' \in Int,
           registry' \in [Kind \cup {"semaphore"} -> Thread \cup {Nobody}],
           registry'["semaphore"] = Nobody
    PROVE  Semaphores'
  BY DEF Calls, Semaphores, NativeGoto

\* The steps of the natives of the four kinds keep Semaphores.
LEMMA OtherKindsStep ==
    ASSUME Calls, Semaphores, NEW t \in Thread,
           NativeWake(t) \/ (NativeInside(t) /\ ~Get(t) /\ ~SemaphoreTake(t)
                             /\ ~SemaphoreNone(t) /\ ~SemaphoreRelease(t))
    PROVE  Semaphores'
<1> USE DEF semaphores, objects
<1>1. CASE NativeWake(t)
  BY <1>1, GotoKeepsSemaphores DEF NativeWake, Semaphores
<1>2. CASE Enter(t)
  <2>1. PICK k \in Kind :
            call[t] \in Method[k] /\ registry' = [registry EXCEPT ![k] = t]
    BY <1>2 DEF Enter
  <2>2. k # "semaphore" /\ call[t] \notin SemaphoreMethod
    BY <2>1 DEF Kind, Method, SemaphoreMethod
  <2>3. QED
    BY <1>2, <2>1, <2>2, GotoKeepsSemaphores DEF Enter, Semaphores
<1>3. CASE CondvarWait(t)
  BY <1>3, GotoKeepsSemaphores DEF CondvarWait, At, Semaphores, Kind
<1>4. CASE MutexLock(t) \/ ReadLock(t) \/ WriteLock(t)
  BY <1>4, GotoKeepsSemaphores, ReturnKeepsSemaphores
     DEF MutexLock, ReadLock, WriteLock, Looks, At, Sleep, Return, Semaphores
<1>5. CASE MutexTryLock(t) \/ MutexUnlock(t) \/ ReadUnlock(t) \/ WriteUnlock(t)
  BY <1>5, ReturnKeepsSemaphores
     DEF MutexTryLock, MutexUnlock, ReadUnlock, WriteUnlock, Return, Semaphores
<1>6. CASE CondvarWake(t) \/ CondvarSignal(t)
  BY <1>6, ReturnKeepsSemaphores DEF CondvarWake, CondvarSignal, Return, Semaphores
<1>7. CASE BarrierArrive(t) \/ BarrierWake(t)
  <2>1. UNCHANGED <<count, slots>> /\ remaining' \in Int
    BY <1>7 DEF BarrierArrive, BarrierWake, Semaphores
  <2>2. CASE Sleep(t)
    BY <1>7, <2>1, <2>2, GotoKeepsSemaphores
       DEF BarrierArrive, BarrierWake, At, Sleep, Semaphores
  <2>3. CASE ~Sleep(t)
    <3>1. \E woken : ReturnWaking(t, woken)
      BY <1>7, <2>3 DEF BarrierArrive, BarrierWake, Return
    <3>2. QED
      BY <2>1, <3>1, ReturnKeepsSemaphores DEF Semaphores
  <2>4. QED
    BY <2>2, <2>3
<1>8. QED
  BY <1>1, <1>2, <1>3, <1>4, <1>5, <1>6, <1>7 DEF NativeInside

\* So do the steps of a semaphore's natives.
LEMMA SemaphoreKindStep ==
    ASSUME Calls, Semaphores, NEW t \in Thread,
           Get(t) \/ SemaphoreTake(t) \/ SemaphoreNone(t) \/ SemaphoreRelease(t)
    PROVE  Semaphores'
<1> USE DEF semaphores, objects
<1>1. CASE Get(t)
  <2>1. CASE slots[on[t]] = 0
    BY <1>1, <2>1, ReturnKeepsSemaphores DEF Get, Return, Semaphores
  <2>2. CASE slots[on[t]] # 0
    <3>1. slots[on[t]] \in DOMAIN count
      BY <1>1, <2>2 DEF Get, Semaphores
    <3>2. /\ on' = [on EXCEPT ![t] = slots[on[t]]]
          /\ place' = [place EXCEPT ![t] = "inside"]
          /\ UNCHANGED <<registry, call, remaining, count, slots>>
      BY <1>1, <2>2 DEF Get
    <3>3. \A u \in Thread :
             call'[u] \in SemaphoreMethod =>
                 on'[u] \in IF place'[u] = "call" THEN DOMAIN slots' ELSE DOMAIN count'
      BY <3>1, <3>2 DEF Calls, Semaphores
    <3>4. on' \in [Thread -> 0 .. Len(count')]
      BY <3>1, <3>2 DEF Semaphores
    <3>5. QED
      BY <3>2, <3>3, <3>4 DEF Semaphores
  <2>3. QED
    BY <2>1, <2>2
<1>2. ASSUME NEW m \in SemaphoreMethod, Looks(t, m)
      PROVE  on[t] \in DOMAIN count
  BY <1>2 DEF Looks, At, Semaphores
<1>3. CASE SemaphoreTake(t)
  <2>1. on[t] \in DOMAIN count
    BY <1>2, <1>3 DEF SemaphoreTake, SemaphoreMethod
  <2>2. count' \in Seq(Nat) /\ Len(count') = Len(count)
    BY <1>3, <2>1 DEF SemaphoreTake, Semaphores
  <2>3. QED
    BY <1>3, <2>2, ReturnKeepsSemaphores DEF SemaphoreTake, Return, Semaphores
<1>4. CASE SemaphoreRelease(t)
  <2>1. on[t] \in DOMAIN count
    BY <1>2, <1>4 DEF SemaphoreRelease, SemaphoreMethod
  <2>2. count' \in Seq(Nat) /\ Len(count') = Len(count)
    BY <1>4, <2>1 DEF SemaphoreRelease, Semaphores
  <2>3. QED
    BY <1>4, <2>2, ReturnKeepsSemaphores DEF SemaphoreRelease, Return, Semaphores
<1>5. CASE SemaphoreNone(t)
  BY <1>5, GotoKeepsSemaphores, ReturnKeepsSemaphores
     DEF SemaphoreNone, Looks, At, Sleep, Return, Semaphores
<1>6. QED
  BY <1>1, <1>3, <1>4, <1>5

\* A semaphore is made or destroyed.
LEMMA MakeStep ==
    ASSUME Semaphores, SemaphoreNew \/ SemaphoreDestroy
    PROVE  Semaphores'
<1> USE DEF objects, position
<1>1. CASE SemaphoreNew
  <2>1. count' \in Seq(Nat) /\ Len(count') = Len(count) + 1
    BY <1>1, NativesAssumption DEF NativesAssumption, SemaphoreNew, Semaphores
  <2>2. FreeSlot \in 1 .. Len(slots) + 1
    BY FreeSlotThere DEF Semaphores
  <2>3. \E n \in {Len(slots), Len(slots) + 1} : slots' \in [1 .. n -> 0 .. Len(count')]
    <3>1. DOMAIN slots \cup {FreeSlot} \in {1 .. Len(slots), 1 .. Len(slots) + 1}
      BY <2>2 DEF Semaphores
    <3>2. QED
      BY <1>1, <2>1, <3>1 DEF SemaphoreNew, Semaphores
  <2>4. slots' \in Seq(0 .. Len(count'))
        /\ Len(slots) <= Len(slots') /\ Len(slots') <= Len(slots) + 1
    <3>1. PICK n \in {Len(slots), Len(slots) + 1} : slots' \in [1 .. n -> 0 .. Len(count')]
      BY <2>3
    <3>2. n \in Nat /\ Len(slots) <= n /\ n <= Len(slots) + 1
      BY DEF Semaphores
    <3>3. QED
      BY <3>1, <3>2, IsASeq, LenProperties
  <2>5. UNCHANGED <<registry, remaining, on, call, place>>
    BY <1>1 DEF SemaphoreNew
  <2>6. on' \in [Thread -> 0 .. Len(count')]
    BY <2>1, <2>5 DEF Semaphores
  <2>7. DOMAIN slots \subseteq DOMAIN slots' /\ DOMAIN count \subseteq DOMAIN count'
    BY <2>1, <2>4 DEF Semaphores
  <2>8. QED
    BY <2>1, <2>4, <2>5, <2>6, <2>7 DEF Semaphores
<1>2. CASE SemaphoreDestroy
  BY <1>2 DEF SemaphoreDestroy, Semaphores
<1>3. QED
  BY <1>1, <1>2

\* Every step keeps Semaphores.
LEMMA SemaphoresNext ==
    Calls /\ Semaphores /\ [NativeNext]_nativeVars => Semaphores'
<1> SUFFICES ASSUME Calls, Semaphores, [NativeNext]_nativeVars PROVE Semaphores'
  OBVIOUS
<1>1. CASE UNCHANGED nativeVars
  BY <1>1 DEF nativeVars, objects, semaphores, position, Semaphores
<1>2. ASSUME NEW t \in Thread, Call(t)
      PROVE  Semaphores'
  <2>1. UNCHANGED <<registry, remaining, count, slots>>
    BY <1>2 DEF Call, objects, semaphores
  <2>2. PICK m : call' = [call EXCEPT ![t] = m]
                 /\ IF m \in SemaphoreMethod
                    THEN \E h \in DOMAIN slots : on' = [on EXCEPT ![t] = h]
                    ELSE UNCHANGED on
    BY <1>2 DEF Call
  <2>3. place' = [place EXCEPT ![t] = "call"]
    BY <1>2 DEF Call
  <2>4. on' \in [Thread -> 0 .. Len(count)]
    <3>1. \A h \in DOMAIN slots : h \in 0 .. Len(count)
      BY DEF Semaphores
    <3>2. on \in [Thread -> 0 .. Len(count)]
      BY DEF Semaphores
    <3>3. QED
      BY <2>2, <3>1, <3>2
  <2>5. QED
    BY <2>1, <2>2, <2>3, <2>4 DEF Calls, Semaphores
<1>3. QED
  BY <1>1, <1>2, OtherKindsStep, SemaphoreKindStep, MakeStep DEF NativeNext, NativeInside

-----------------------------------------------------------------------------
\* The threads at some place in acquire are finitely many.
LEMMA AcquiringFinite ==
    ASSUME NEW o, NEW where
    PROVE  /\ IsFiniteSet(Acquiring(o, where))
           /\ Cardinality(Acquiring(o, where)) \in Nat
<1>1. IsFiniteSet(Thread)
  BY NativesAssumption DEF NativesAssumption
<1>2. QED
  BY <1>1, FS_Subset, FS_CardinalityType DEF Acquiring

\* Nobody goes to sleep on semaphore o or, woken, leaves it.
Undisturbed(o) ==
    /\ Acquiring(o, "asleep")' \subseteq Acquiring(o, "asleep")
    /\ Acquiring(o, "awake") \subseteq Acquiring(o, "awake")'

\* One semaphore's part of SemNoLostWakeup.
SleepsRightly(o) ==
    Acquiring(o, "asleep") # {} => count[o] <= Cardinality(Acquiring(o, "awake"))

\* A semaphore with the same permits whose sleepers nobody disturbs.
LEMMA UndisturbedSleep ==
    ASSUME NEW o, SleepsRightly(o), Undisturbed(o), count'[o] = count[o],
           count[o] \in Nat
    PROVE  SleepsRightly(o)'
<1>1. Cardinality(Acquiring(o, "awake")) <= Cardinality(Acquiring(o, "awake")')
  <2>1. IsFiniteSet(Thread) /\ Acquiring(o, "awake")' \subseteq Thread
    BY NativesAssumption DEF NativesAssumption, Acquiring
  <2>2. IsFiniteSet(Acquiring(o, "awake")')
    BY <2>1, FS_Subset
  <2>3. QED
    BY <2>2, FS_Subset DEF Undisturbed
<1>2. /\ Cardinality(Acquiring(o, "awake")) \in Nat
      /\ Cardinality(Acquiring(o, "awake"))' \in Nat
  BY AcquiringFinite, FS_Subset, FS_CardinalityType, NativesAssumption
     DEF NativesAssumption, Acquiring
<1>3. QED
  BY <1>1, <1>2 DEF SleepsRightly, Undisturbed

\* A return disturbs no semaphore from whose sleep the thread was not woken.
LEMMA ReturnUndisturbing ==
    ASSUME Calls, Semaphores, NEW t \in Thread, NEW woken, ReturnWaking(t, woken),
           NEW o, t \notin Acquiring(o, "awake")
    PROVE  Undisturbed(o)
  BY DEF Calls, Semaphores, ReturnWaking, Undisturbed, Acquiring, At

\* Nor does going on in another native, or being woken.
LEMMA GotoUndisturbing ==
    ASSUME Calls, NEW t \in Thread, NEW where, NativeGoto(t, where), NEW o,
           call[t] # "acquire" \/ (place[t] = "asleep" /\ where = "awake")
    PROVE  Undisturbed(o)
  BY DEF Calls, NativeGoto, Undisturbed, Acquiring, At

\* The steps of the natives of the four kinds disturb no semaphore.
LEMMA OtherKindsUndisturbing ==
    ASSUME Calls, Semaphores, NEW t \in Thread, NEW o,
           NativeWake(t) \/ (NativeInside(t) /\ ~Get(t) /\ ~SemaphoreTake(t)
                             /\ ~SemaphoreNone(t) /\ ~SemaphoreRelease(t))
    PROVE  Undisturbed(o) /\ UNCHANGED count
<1> USE DEF semaphores
<1>1. CASE NativeWake(t)
  BY <1>1, GotoUndisturbing DEF NativeWake
<1>2. call[t] # "acquire" => t \notin Acquiring(o, "awake")
  BY DEF Acquiring, At
<1>3. CASE Enter(t)
  BY <1>3, GotoUndisturbing DEF Enter, Kind, Method
<1>4. CASE MutexLock(t) \/ ReadLock(t) \/ WriteLock(t)
  <2>1. call[t] # "acquire" /\ UNCHANGED count
    BY <1>4 DEF MutexLock, ReadLock, WriteLock, Looks, At
  <2>2. ReturnWaking(t, {}) \/ NativeGoto(t, "asleep")
    BY <1>4 DEF MutexLock, ReadLock, WriteLock, Sleep, Return
  <2>3. QED
    BY <1>2, <2>1, <2>2, ReturnUndisturbing, GotoUndisturbing
<1>5. CASE MutexTryLock(t) \/ MutexUnlock(t) \/ ReadUnlock(t) \/ WriteUnlock(t)
           \/ CondvarWake(t) \/ CondvarSignal(t)
  <2>1. call[t] # "acquire" /\ UNCHANGED count
    BY <1>5 DEF MutexTryLock, MutexUnlock, ReadUnlock, WriteUnlock, CondvarWake,
       CondvarSignal, Looks, At
  <2>2. \E woken : ReturnWaking(t, woken)
    BY <1>5 DEF MutexTryLock, MutexUnlock, ReadUnlock, WriteUnlock, CondvarWake,
       CondvarSignal, Return
  <2>3. QED
    BY <1>2, <2>1, <2>2, ReturnUndisturbing
<1>6. CASE CondvarWait(t)
  BY <1>6, GotoUndisturbing DEF CondvarWait, At
<1>7. CASE BarrierArrive(t) \/ BarrierWake(t)
  <2>1. call[t] # "acquire" /\ UNCHANGED count
    BY <1>7 DEF BarrierArrive, BarrierWake, At
  <2>2. (\E woken : ReturnWaking(t, woken)) \/ NativeGoto(t, "asleep")
    BY <1>7 DEF BarrierArrive, BarrierWake, Sleep, Return
  <2>3. QED
    BY <1>2, <2>1, <2>2, ReturnUndisturbing, GotoUndisturbing
<1>8. QED
  BY <1>1, <1>3, <1>4, <1>5, <1>6, <1>7 DEF NativeInside

\* A native of a semaphore begins.
LEMMA GetStep ==
    ASSUME Calls, Semaphores, NEW t \in Thread, NEW o, Call(t) \/ Get(t)
    PROVE  Undisturbed(o) /\ UNCHANGED count
<1>1. CASE Call(t)
  BY <1>1 DEF Call, semaphores, Calls, Semaphores, Undisturbed, Acquiring, At
<1>2. CASE Get(t)
  <2>1. CASE ReturnWaking(t, {})
    BY <1>2, <2>1, ReturnUndisturbing DEF Get, semaphores, Acquiring, At
  <2>2. CASE ~ReturnWaking(t, {})
    BY <1>2, <2>2 DEF Get, Return, semaphores, Calls, Semaphores, Undisturbed, Acquiring, At
  <2>3. QED
    BY <2>1, <2>2
<1>3. QED
  BY <1>1, <1>2

\* A thread takes a permit: it was awake, and is no longer, or had not slept.
LEMMA TakePermitStep ==
    ASSUME Calls, Semaphores, NEW t \in Thread, SemaphoreTake(t),
           NEW o \in DOMAIN count, SleepsRightly(o)
    PROVE  SleepsRightly(o)'
<1> USE DEF SemaphoreTake, Return
<1>1. on[t] \in DOMAIN count
  BY DEF Looks, At, Semaphores, SemaphoreMethod
<1>2. count[o] \in Nat
  BY DEF Semaphores
<1>3. CASE o # on[t]
  <2>1. t \notin Acquiring(o, "awake") /\ count'[o] = count[o]
    BY <1>1, <1>3 DEF Acquiring, Semaphores
  <2>2. QED
    BY <1>2, <2>1, ReturnUndisturbing, UndisturbedSleep
<1>4. CASE o = on[t]
  <2>1. count'[o] = count[o] - 1
    BY <1>1, <1>4 DEF Semaphores
  <2>2. Acquiring(o, "asleep")' \subseteq Acquiring(o, "asleep")
        /\ Acquiring(o, "awake")' = Acquiring(o, "awake") \ {t}
    BY DEF Calls, Semaphores, ReturnWaking, Acquiring, At
  <2>3. /\ Cardinality(Acquiring(o, "awake")) - 1 <= Cardinality(Acquiring(o, "awake") \ {t})
        /\ Cardinality(Acquiring(o, "awake")) \in Nat
        /\ Cardinality(Acquiring(o, "awake") \ {t}) \in Nat
    <3> DEFINE awake == Acquiring(o, "awake")
    <3>1. IsFiniteSet(awake) /\ Cardinality(awake) \in Nat
      BY AcquiringFinite
    <3>2. IsFiniteSet(awake \ {t})
          /\ Cardinality(awake \ {t})
               = IF t \in awake THEN Cardinality(awake) - 1 ELSE Cardinality(awake)
      <4> HIDE DEF awake
      <4>1. QED
        BY <3>1, FS_RemoveElement
    <3>3. Cardinality(awake \ {t}) \in Nat
      BY <3>2, FS_CardinalityType
    <3>4. QED
      BY <3>1, <3>2, <3>3
  <2>4. SleepsRightly(o)' <=> (Acquiring(o, "asleep")' # {} =>
            count'[o] <= Cardinality(Acquiring(o, "awake") \ {t}))
    BY <2>2 DEF SleepsRightly
  <2>5. QED
    BY <1>2, <2>1, <2>2, <2>3, <2>4 DEF SleepsRightly
<1>5. QED
  BY <1>3, <1>4

\* A thread finds no permit, and sleeps or returns.
LEMMA NoPermitStep ==
    ASSUME Calls, Semaphores, NEW t \in Thread, SemaphoreNone(t),
           NEW o \in DOMAIN count, SleepsRightly(o)
    PROVE  SleepsRightly(o)'
<1>1. count[o] \in Nat /\ UNCHANGED count
  BY DEF Semaphores, SemaphoreNone, semaphores
<1>2. CASE call[t] = "tryAcquire"
  <2>1. ReturnWaking(t, {}) /\ t \notin Acquiring(o, "awake")
    BY <1>2 DEF SemaphoreNone, Looks, At, Return, Acquiring
  <2>2. QED
    BY <1>1, <2>1, ReturnUndisturbing, UndisturbedSleep
<1>3. CASE call[t] = "acquire"
  <2>1. count[on[t]] <= 0 /\ NativeGoto(t, "asleep")
    BY <1>3 DEF SemaphoreNone, Looks, At, Sleep
  <2>2. CASE o = on[t]
    <3>1. Cardinality(Acquiring(o, "awake"))' \in Nat
      BY NativesAssumption, FS_Subset, FS_CardinalityType DEF NativesAssumption, Acquiring
    <3>2. QED
      BY <1>1, <2>1, <2>2, <3>1 DEF SleepsRightly
  <2>3. CASE o # on[t]
    <3>1. Undisturbed(o)
      BY <2>1, <2>3 DEF NativeGoto, Calls, Undisturbed, Acquiring, At
    <3>2. QED
      BY <1>1, <3>1, UndisturbedSleep
  <2>4. QED
    BY <2>2, <2>3
<1>4. QED
  BY <1>2, <1>3 DEF SemaphoreNone, Looks, At

\* A release adds a permit and wakes a sleeper, if there is one.
LEMMA ReleasePermitStep ==
    ASSUME Calls, Semaphores, NEW t \in Thread, SemaphoreRelease(t),
           NEW o \in DOMAIN count, SleepsRightly(o)
    PROVE  SleepsRightly(o)'
<1>1. on[t] \in DOMAIN count /\ call[t] = "release"
  BY DEF SemaphoreRelease, Looks, At, Semaphores, SemaphoreMethod
<1>2. count[o] \in Nat
  BY DEF Semaphores
<1>3. PICK woken : ReturnWaking(t, woken)
  BY DEF SemaphoreRelease, Return
<1>4. Undisturbed(o)
  BY <1>1, <1>3, ReturnUndisturbing DEF Acquiring, At
<1>5. CASE o # on[t]
  <2>1. count'[o] = count[o]
    BY <1>1, <1>5 DEF SemaphoreRelease, Semaphores
  <2>2. QED
    BY <1>2, <1>4, <2>1, UndisturbedSleep
<1>6. CASE o = on[t] /\ Acquiring(o, "asleep") = {}
  BY <1>4, <1>6 DEF Undisturbed, SleepsRightly
<1>7. CASE o = on[t] /\ Acquiring(o, "asleep") # {}
  <2>1. PICK u \in Acquiring(o, "asleep") : ReturnWaking(t, {u})
    BY <1>7 DEF SemaphoreRelease
  <2>2. u \notin Acquiring(o, "awake")
        /\ Acquiring(o, "awake")' = Acquiring(o, "awake") \cup {u}
    BY <1>1, <2>1 DEF Calls, Semaphores, ReturnWaking, Acquiring, At
  <2>3. /\ Cardinality(Acquiring(o, "awake")') = Cardinality(Acquiring(o, "awake")) + 1
        /\ Cardinality(Acquiring(o, "awake")) \in Nat
    BY <2>2, AcquiringFinite, FS_AddElement
  <2>4. count'[o] = count[o] + 1
    BY <1>1, <1>7 DEF SemaphoreRelease, Semaphores
  <2>5. QED
    BY <1>2, <1>7, <2>3, <2>4 DEF SleepsRightly
<1>8. QED
  BY <1>5, <1>6, <1>7

\* A semaphore is made, on which nobody sleeps yet, or destroyed.
LEMMA MadeSleepsRightly ==
    ASSUME Calls, Semaphores, SemNoLostWakeup, SemaphoreNew \/ SemaphoreDestroy
    PROVE  SemNoLostWakeup'
<1> SUFFICES ASSUME NEW o \in DOMAIN count' PROVE SleepsRightly(o)'
  BY DEF SemNoLostWakeup, SleepsRightly
<1>1. UNCHANGED <<call, place, on>>
  BY DEF SemaphoreNew, SemaphoreDestroy, position
<1>2. CASE o \in DOMAIN count /\ count'[o] = count[o]
  <2>1. SleepsRightly(o)
    BY <1>2 DEF SemNoLostWakeup, SleepsRightly
  <2>2. Undisturbed(o)
    BY <1>1 DEF Undisturbed, Acquiring, At
  <2>3. count[o] \in Nat
    BY <1>2 DEF Semaphores
  <2>4. QED
    BY <1>2, <2>1, <2>2, <2>3, UndisturbedSleep
<1>3. CASE SemaphoreDestroy
  BY <1>2, <1>3 DEF SemaphoreDestroy
<1>4. CASE SemaphoreNew /\ o = Len(count) + 1
  <2>1. Acquiring(o, "asleep")' = {}
    BY <1>1, <1>4 DEF Semaphores, Acquiring
  <2>2. QED
    BY <2>1 DEF SleepsRightly
<1>5. CASE SemaphoreNew /\ o # Len(count) + 1
  <2>1. PICK p \in Int : count' = Append(count, IF p < 0 THEN 0 ELSE p)
    BY <1>5, NativesAssumption DEF NativesAssumption, SemaphoreNew
  <2>2. o \in DOMAIN count /\ count'[o] = count[o]
    BY <1>5, <2>1 DEF Semaphores
  <2>3. QED
    BY <1>2, <2>2
<1>6. QED
  BY <1>3, <1>4, <1>5

\* Every step keeps SemNoLostWakeup.
LEMMA WakeupNext ==
    Calls /\ Semaphores /\ SemNoLostWakeup /\ [NativeNext]_nativeVars => SemNoLostWakeup'
<1> SUFFICES ASSUME Calls, Semaphores, SemNoLostWakeup, [NativeNext]_nativeVars
             PROVE  SemNoLostWakeup'
  OBVIOUS
<1>1. ASSUME NEW t \in Thread, Call(t) \/ NativeWake(t) \/ NativeInside(t)
      PROVE  SemNoLostWakeup'
  <2>1. Semaphores'
    BY <1>1, SemaphoresNext DEF NativeNext
  <2>2. DOMAIN count' = DOMAIN count
    BY <1>1 DEF Call, NativeWake, NativeInside, Enter, MutexLock, MutexTryLock, MutexUnlock,
       ReadLock, ReadUnlock, WriteLock, WriteUnlock, CondvarWait, CondvarWake, CondvarSignal,
       BarrierArrive, BarrierWake, Get, SemaphoreTake, SemaphoreNone, SemaphoreRelease,
       semaphores, Semaphores
  <2>3. ASSUME NEW o \in DOMAIN count
        PROVE  SleepsRightly(o)'
    <3>1. SleepsRightly(o) /\ count[o] \in Nat
      BY DEF SemNoLostWakeup, SleepsRightly, Semaphores
    <3>2. CASE Undisturbed(o) /\ UNCHANGED count
      BY <3>1, <3>2, UndisturbedSleep
    <3>3. QED
      BY <1>1, <3>1, <3>2, OtherKindsUndisturbing, GetStep, TakePermitStep,
         NoPermitStep, ReleasePermitStep
  <2>4. QED
    BY <2>2, <2>3 DEF SemNoLostWakeup, SleepsRightly
<1>2. CASE UNCHANGED nativeVars
  BY <1>2 DEF nativeVars, semaphores, position, SemNoLostWakeup, Acquiring, At
<1>3. QED
  BY <1>1, <1>2, MadeSleepsRightly DEF NativeNext

\* At the start there is no semaphore.
LEMMA SemaphoresInit == NativeInit => Semaphores /\ SemNoLostWakeup
<1> SUFFICES ASSUME NativeInit PROVE Semaphores /\ SemNoLostWakeup
  OBVIOUS
<1>1. SemNoLostWakeup
  BY DEF NativeInit, SemNoLostWakeup
<1>2. on \in [Thread -> 0 .. Len(count)]
      /\ registry \in [Kind \cup {"semaphore"} -> Thread \cup {Nobody}]
      /\ registry["semaphore"] = Nobody
  BY DEF NativeInit
<1>3. remaining \in Int
  BY NativesAssumption DEF NativesAssumption, NativeInit
<1>4. \A t \in Thread : call[t] \notin SemaphoreMethod
  BY DEF NativeInit, SemaphoreMethod
<1>5. count \in Seq(Nat) /\ slots \in Seq(0 .. Len(count)) /\ Len(slots) <= Len(count)
  BY DEF NativeInit
<1>6. QED
  BY <1>1, <1>2, <1>3, <1>4, <1>5 DEF Semaphores

\* No release's wakeup is lost, however a destroyed semaphore's slot is used
\* again: while threads sleep on a semaphore there are as many woken ones on
\* their way as permits lie there.
THEOREM NativeWakeups == NativeSpec => []SemNoLostWakeup
  BY LocksInit, SemaphoresInit, CallsNext, SemaphoresNext, WakeupNext, PTL DEF NativeSpec

\* The state of the native locks has its types; the counter of readers never
\* says more than there are threads.
THEOREM NativeTypeCorrect == NativeSpec => []NativeTypeOK
<1>1. Calls /\ Locks /\ Semaphores => NativeTypeOK
  <2> SUFFICES ASSUME Calls, Locks, Semaphores PROVE NativeTypeOK
    OBVIOUS
  <2>1. readers \in 0 .. Cardinality(Thread)
    <3>1. IsFiniteSet(Thread) /\ Holders("read") \subseteq Thread
      BY NativesAssumption DEF NativesAssumption, Holders
    <3>2. Cardinality(Holders("read")) <= Cardinality(Thread) /\ Cardinality(Thread) \in Nat
      BY <3>1, FS_Subset, FS_CardinalityType
    <3>3. QED
      BY <3>2 DEF Locks
  <2>2. QED
    BY <2>1 DEF Calls, Locks, Semaphores, NativeTypeOK, Where
<1>2. QED
  BY <1>1, LocksInit, SemaphoresInit, CallsNext, LocksNext, SemaphoresNext, PTL
     DEF NativeSpec

-----------------------------------------------------------------------------
(***************************************************************************)
(* Futures and promises.  What an await answers rests on who may have      *)
(* written the words it reads: of a future only an await of it, with what  *)
(* its join gave it (ResultsKnown), and one await of it alone as long as   *)
(* there was no other (OnlyAwait); of a promise only those who settle it,  *)
(* unless somebody called Future.await with it (PromiseWords).             *)
(***************************************************************************)
AwaitStep == {"look", "join", "wait", "store", "mark", "read"}
PromiseStep == {"settle", "flag", "poll", "get"}

\* What a caller has for a future before its first call.
SomeFuture == CHOOSE f \in Future : TRUE

\* Caller c is in Future.await of f.
Awaiting(c, f) == step[c] \in AwaitStep /\ of[c] = f

\* The types.
FutureTypes ==
    /\ kind \in [Future -> {"native", "class", "promise"}]
    /\ done \in [Future -> Int] /\ result \in [Future -> Int] /\ sent \in [Future -> Nat]
    /\ awaits \in [Future -> 0 .. 2] /\ settled \in [Future -> SUBSET Int]
    /\ step \in [Caller -> {"idle"} \cup AwaitStep \cup PromiseStep]
    /\ of \in [Caller -> Future \cup {SomeFuture}]
    /\ local \in [Caller -> Int] /\ answer \in [Caller -> Int]
    /\ running \subseteq made /\ cancelled \subseteq made /\ made \subseteq Future

\* Which kind of future a caller can be at which step of, and which a native
\* call has an entry of.
StepsOfKinds ==
    /\ \A f \in made : kind[f] = "native" => (f \in futures <=> f \notin cancelled)
    /\ \A f \in Future \ made :
          result[f] = 0 /\ done[f] = 0 /\ awaits[f] = 0 /\ settled[f] = {}
    /\ \A c \in Caller :
          /\ step[c] # "idle" => of[c] \in made
          /\ step[c] \in PromiseStep => kind[of[c]] = "promise"
          /\ step[c] = "read" => kind[of[c]] = "native"
          /\ step[c] = "mark" => kind[of[c]] # "native"

\* v is the 0 of a join that found no thread, or what the thread returned.
Known(f, v) == v = 0 \/ (f \notin running /\ v = sent[f])

\* The result of a future, and what a join of it has returned, are known.
ResultsKnown ==
    /\ \A f \in Future : kind[f] # "promise" => Known(f, result[f])
    /\ \A c \in Caller :
          step[c] \in {"store", "mark"} /\ kind[of[c]] # "promise" => Known(of[c], local[c])

\* A future that nobody has awaited still has its thread.
NoAwait ==
    \A f \in Future : awaits[f] = 0 =>
        /\ \A c \in Caller : ~Awaiting(c, f)
        /\ f \in made /\ kind[f] # "promise" => f \in threads

\* One await is in the hands of one caller.
OneAwait ==
    \A f \in Future : awaits[f] = 1 =>
        \A c, d \in Caller : Awaiting(c, f) /\ Awaiting(d, f) => c = d

\* The first await of a future finds the thread, waits for it and has its
\* words to itself, until there is another.
AwaitKnows ==
    \A c \in Caller :
        step[c] \in AwaitStep /\ awaits[of[c]] = 1 /\ kind[of[c]] # "promise" =>
            /\ step[c] \in {"look", "join"} => of[c] \in threads
            /\ step[c] \in {"store", "mark"} =>
                  of[c] \notin running /\ local[c] = sent[of[c]]
            /\ step[c] = "read" /\ of[c] \notin cancelled =>
                  /\ of[c] \notin running
                  /\ result[of[c]] = sent[of[c]] /\ done[of[c]] = 1

OnlyAwait == NoAwait /\ OneAwait /\ AwaitKnows

\* The words of a promise are those its settles write.
PromiseWords ==
    \A f \in Future :
        /\ settled[f] \subseteq {f, -f}
        /\ kind[f] = "promise" /\ awaits[f] = 0 =>
              /\ result[f] \in settled[f] \cup {0}
              /\ done[f] # 0 =>
                    result[f] \in settled[f] /\ \E v \in settled[f] : done[f] < 0 <=> v < 0

\* A settle stores its value before it sets the flag, and an await goes on to
\* the value when it has seen the flag.
PromiseSteps ==
    \A c \in Caller : step[c] # "idle" /\ awaits[of[c]] = 0 =>
        /\ step[c] \in {"settle", "flag"} => local[c] \in settled[of[c]]
        /\ step[c] = "flag" => result[of[c]] \in settled[of[c]]
        /\ step[c] = "get" => done[of[c]] # 0

FutureInv == FutureTypes /\ StepsOfKinds /\ ResultsKnown /\ OnlyAwait /\ PromiseWords /\ PromiseSteps

-----------------------------------------------------------------------------
\* No future has been made.
LEMMA FutureInvInit == FutureInit => FutureInv
<1> SUFFICES ASSUME FutureInit PROVE FutureInv
  OBVIOUS
<1> USE DEF FutureInit
<1>1. FutureTypes /\ StepsOfKinds
  BY DEF FutureTypes, StepsOfKinds, AwaitStep, PromiseStep, Null, SomeFuture
<1>2. ResultsKnown
  BY DEF ResultsKnown, Known
<1>3. OnlyAwait
  BY DEF OnlyAwait, NoAwait, OneAwait, AwaitKnows, Awaiting, AwaitStep
<1>4. PromiseWords /\ PromiseSteps
  BY DEF PromiseWords, PromiseSteps
<1>5. QED
  BY <1>1, <1>2, <1>3, <1>4 DEF FutureInv

\* A caller inside a call is inside one of a future, and its words are numbers.
LEMMA CallerTypes ==
    ASSUME FutureTypes, StepsOfKinds, NEW c \in Caller, step[c] # "idle"
    PROVE  /\ of[c] \in Future /\ sent[of[c]] \in Int
           /\ result[of[c]] \in Int /\ local[c] \in Int
  BY DEF FutureTypes, StepsOfKinds

\* A future or a promise is made.
LEMMA SpawnStep == ASSUME FutureInv, NEW f \in Future, Spawn(f) PROVE FutureInv'
<1> USE FuturesAssumption
    DEF FuturesAssumption, FutureInv, Spawn, CallGoto, cells, workers, calling, futureHistory
<1>0. FutureTypes'
  BY DEF FutureTypes, AwaitStep, PromiseStep, Null
<1>1. StepsOfKinds'
  <2>1. \A c \in Caller : step[c] # "idle" => of[c] # f
    BY DEF StepsOfKinds
  <2>2. \A g \in made' : kind'[g] = "native" => (g \in futures' <=> g \notin cancelled')
    BY DEF FutureTypes, StepsOfKinds
  <2>3. QED
    BY <2>1, <2>2 DEF FutureTypes, StepsOfKinds, AwaitStep, PromiseStep
<1>2. ResultsKnown'
  BY DEF FutureTypes, StepsOfKinds, ResultsKnown, Known, AwaitStep, PromiseStep
<1>3. NoAwait'
  BY DEF FutureTypes, StepsOfKinds, OnlyAwait, NoAwait, Awaiting, AwaitStep, PromiseStep
<1>4. OneAwait'
  BY DEF FutureTypes, StepsOfKinds, OnlyAwait, NoAwait, OneAwait, Awaiting, AwaitStep, PromiseStep
<1>5. AwaitKnows'
  BY DEF FutureTypes, StepsOfKinds, OnlyAwait, NoAwait, OneAwait, AwaitKnows, Awaiting, AwaitStep, PromiseStep
<1>6. PromiseWords'
  BY DEF FutureTypes, StepsOfKinds, OnlyAwait, NoAwait, Awaiting, PromiseWords, PromiseSteps, AwaitStep, PromiseStep
<1>7. PromiseSteps'
  BY DEF FutureTypes, StepsOfKinds, OnlyAwait, NoAwait, Awaiting, PromiseWords, PromiseSteps, AwaitStep, PromiseStep
<1>8. QED
  BY <1>0, <1>1, <1>2, <1>3, <1>4, <1>5, <1>6, <1>7 DEF OnlyAwait

\* A thread ends.
LEMMA EndStep == ASSUME FutureInv, NEW f \in Future, End(f) PROVE FutureInv'
<1> USE FuturesAssumption
    DEF FuturesAssumption, FutureInv, End, CallGoto, cells, workers, calling, futureHistory
<1>0. FutureTypes'
  <2>1. sent' \in [Future -> Nat]
    BY DEF FutureTypes, Value
  <2>2. QED
    BY <2>1 DEF FutureTypes
<1>1. StepsOfKinds'
  BY DEF FutureTypes, StepsOfKinds, AwaitStep, PromiseStep
<1>2. ResultsKnown'
  BY DEF FutureTypes, StepsOfKinds, ResultsKnown, Known, AwaitStep, PromiseStep
<1>3. NoAwait'
  BY DEF FutureTypes, StepsOfKinds, OnlyAwait, NoAwait, Awaiting, AwaitStep, PromiseStep
<1>4. OneAwait'
  BY DEF FutureTypes, StepsOfKinds, OnlyAwait, NoAwait, OneAwait, Awaiting, AwaitStep, PromiseStep
<1>5. AwaitKnows'
  BY DEF FutureTypes, StepsOfKinds, OnlyAwait, NoAwait, OneAwait, AwaitKnows, Awaiting, AwaitStep, PromiseStep
<1>6. PromiseWords'
  BY DEF FutureTypes, StepsOfKinds, OnlyAwait, NoAwait, Awaiting, PromiseWords, PromiseSteps, AwaitStep, PromiseStep
<1>7. PromiseSteps'
  BY DEF FutureTypes, StepsOfKinds, OnlyAwait, NoAwait, Awaiting, PromiseWords, PromiseSteps, AwaitStep, PromiseStep
<1>8. QED
  BY <1>0, <1>1, <1>2, <1>3, <1>4, <1>5, <1>6, <1>7 DEF OnlyAwait

\* A future is cancelled.
LEMMA CancelStep == ASSUME FutureInv, NEW f \in Future, Cancel(f) PROVE FutureInv'
<1> USE FuturesAssumption
    DEF FuturesAssumption, FutureInv, Cancel, CallGoto, cells, workers, calling, futureHistory
<1>0. FutureTypes'
  BY DEF FutureTypes, AwaitStep, PromiseStep, Null
<1>1. StepsOfKinds'
  BY DEF FutureTypes, StepsOfKinds, AwaitStep, PromiseStep
<1>2. ResultsKnown'
  BY DEF FutureTypes, StepsOfKinds, ResultsKnown, Known, AwaitStep, PromiseStep
<1>3. NoAwait'
  BY DEF FutureTypes, StepsOfKinds, OnlyAwait, NoAwait, Awaiting, AwaitStep, PromiseStep
<1>4. OneAwait'
  BY DEF FutureTypes, StepsOfKinds, OnlyAwait, NoAwait, OneAwait, Awaiting, AwaitStep, PromiseStep
<1>5. AwaitKnows'
  BY ZenonT(60) DEF FutureTypes, StepsOfKinds, OnlyAwait, NoAwait, OneAwait, AwaitKnows, Awaiting, AwaitStep, PromiseStep
<1>6. PromiseWords'
  BY DEF FutureTypes, StepsOfKinds, OnlyAwait, NoAwait, Awaiting, PromiseWords, PromiseSteps, AwaitStep, PromiseStep
<1>7. PromiseSteps'
  <2> SUFFICES ASSUME NEW c \in Caller, step[c] # "idle", awaits[of[c]] = 0
               PROVE  done[of[c]] = done'[of[c]]
    BY DEF PromiseSteps
  <2>1. of[c] \in Future
    BY DEF FutureTypes, StepsOfKinds
  <2>2. QED
    BY <2>1 DEF FutureTypes
<1>8. QED
  BY <1>0, <1>1, <1>2, <1>3, <1>4, <1>5, <1>6, <1>7 DEF OnlyAwait

\* An await begins.
LEMMA AwaitBeginStep == ASSUME FutureInv, NEW c \in Caller, NEW f \in Future, Await(c, f) PROVE FutureInv'
<1> USE FuturesAssumption
    DEF FuturesAssumption, FutureInv, Await, Begin, CallGoto, cells, workers, calling, futureHistory
<1>0. FutureTypes'
  BY DEF FutureTypes, AwaitStep, PromiseStep, Null
<1>1. StepsOfKinds'
  BY DEF FutureTypes, StepsOfKinds, AwaitStep, PromiseStep
<1>2. ResultsKnown'
  BY DEF FutureTypes, StepsOfKinds, ResultsKnown, Known, AwaitStep, PromiseStep
<1>3. NoAwait'
  BY DEF FutureTypes, StepsOfKinds, OnlyAwait, NoAwait, Awaiting, AwaitStep, PromiseStep
<1>4. OneAwait'
  BY DEF FutureTypes, StepsOfKinds, OnlyAwait, NoAwait, OneAwait, Awaiting, AwaitStep, PromiseStep
<1>5. AwaitKnows'
  BY DEF FutureTypes, StepsOfKinds, OnlyAwait, NoAwait, OneAwait, AwaitKnows, Awaiting, AwaitStep, PromiseStep
<1>6. PromiseWords'
  BY DEF FutureTypes, StepsOfKinds, OnlyAwait, NoAwait, Awaiting, PromiseWords, PromiseSteps, AwaitStep, PromiseStep
<1>7. PromiseSteps'
  BY DEF FutureTypes, StepsOfKinds, OnlyAwait, NoAwait, Awaiting, PromiseWords, PromiseSteps, AwaitStep, PromiseStep
<1>8. QED
  BY <1>0, <1>1, <1>2, <1>3, <1>4, <1>5, <1>6, <1>7 DEF OnlyAwait

\* An await looks for the thread.
LEMMA AwaitLookStep == ASSUME FutureInv, NEW c \in Caller, Look(c) PROVE FutureInv'
<1> USE FuturesAssumption
    DEF FuturesAssumption, FutureInv, Look, CallGoto, cells, workers, calling, futureHistory
<1>0. FutureTypes'
  BY DEF FutureTypes, AwaitStep, PromiseStep, Null
<1>1. StepsOfKinds'
  BY DEF FutureTypes, StepsOfKinds, AwaitStep, PromiseStep
<1>2. ResultsKnown'
  BY DEF FutureTypes, StepsOfKinds, ResultsKnown, Known, AwaitStep, PromiseStep
<1>3. NoAwait'
  BY DEF FutureTypes, StepsOfKinds, OnlyAwait, NoAwait, Awaiting, AwaitStep, PromiseStep
<1>4. OneAwait'
  BY DEF FutureTypes, StepsOfKinds, OnlyAwait, NoAwait, OneAwait, Awaiting, AwaitStep, PromiseStep
<1>5. AwaitKnows'
  BY DEF FutureTypes, StepsOfKinds, OnlyAwait, NoAwait, OneAwait, AwaitKnows, Awaiting, AwaitStep, PromiseStep
<1>6. PromiseWords'
  BY DEF FutureTypes, StepsOfKinds, OnlyAwait, NoAwait, Awaiting, PromiseWords, PromiseSteps, AwaitStep, PromiseStep
<1>7. PromiseSteps'
  BY DEF FutureTypes, StepsOfKinds, OnlyAwait, NoAwait, Awaiting, PromiseWords, PromiseSteps, AwaitStep, PromiseStep
<1>8. QED
  BY <1>0, <1>1, <1>2, <1>3, <1>4, <1>5, <1>6, <1>7 DEF OnlyAwait

\* An await takes the thread, or finds none.
LEMMA AwaitJoinStep == ASSUME FutureInv, NEW c \in Caller, ThreadJoin(c) PROVE FutureInv'
<1> USE FuturesAssumption
    DEF FuturesAssumption, FutureInv, ThreadJoin, CallGoto, cells, workers, calling, futureHistory
<1>0. FutureTypes'
  BY DEF FutureTypes, AwaitStep, PromiseStep, Null
<1>1. StepsOfKinds'
  BY DEF FutureTypes, StepsOfKinds, AwaitStep, PromiseStep
<1>2. ResultsKnown'
  BY DEF FutureTypes, StepsOfKinds, ResultsKnown, Known, AwaitStep, PromiseStep
<1>3. NoAwait'
  BY DEF FutureTypes, StepsOfKinds, OnlyAwait, NoAwait, Awaiting, AwaitStep, PromiseStep
<1>4. OneAwait'
  BY DEF FutureTypes, StepsOfKinds, OnlyAwait, NoAwait, OneAwait, Awaiting, AwaitStep, PromiseStep
<1>5. AwaitKnows'
  <2>1. \A d \in Caller \ {c} : step'[d] = step[d] /\ local'[d] = local[d]
    BY DEF FutureTypes
  <2>2. \A d \in Caller \ {c} :
           step[d] \in AwaitStep /\ awaits[of[d]] = 1 => of[d] # of[c]
    BY ZenonT(60) DEF FutureTypes, StepsOfKinds, OnlyAwait, OneAwait, Awaiting, AwaitStep
  <2>3. step'[c] \in {"wait", "store"} /\ (step'[c] = "store" => of[c] \notin threads)
    BY DEF FutureTypes
  <2>4. ASSUME NEW d \in Caller \ {c}, step'[d] \in AwaitStep, awaits'[of'[d]] = 1,
               kind'[of'[d]] # "promise", step'[d] \in {"look", "join"}
        PROVE  of'[d] \in threads'
    BY <2>1, <2>2, <2>4 DEF OnlyAwait, AwaitKnows
  <2>5. QED
    BY <2>1, <2>3, <2>4 DEF OnlyAwait, AwaitKnows, AwaitStep
<1>6. PromiseWords'
  BY DEF FutureTypes, StepsOfKinds, OnlyAwait, NoAwait, Awaiting, PromiseWords, PromiseSteps, AwaitStep, PromiseStep
<1>7. PromiseSteps'
  BY DEF FutureTypes, StepsOfKinds, OnlyAwait, NoAwait, Awaiting, PromiseWords, PromiseSteps, AwaitStep, PromiseStep
<1>8. QED
  BY <1>0, <1>1, <1>2, <1>3, <1>4, <1>5, <1>6, <1>7 DEF OnlyAwait

\* The thread an await waits for has ended.
LEMMA AwaitJoinedStep == ASSUME FutureInv, NEW c \in Caller, Joined(c) PROVE FutureInv'
<1> USE FuturesAssumption
    DEF FuturesAssumption, FutureInv, Joined, CallGoto, cells, workers, calling, futureHistory
<1>0. FutureTypes'
  <2>1. step[c] # "idle"
    OBVIOUS
  <2>2. sent[of[c]] \in Int
    BY <2>1, CallerTypes
  <2>3. local' \in [Caller -> Int]
    BY <2>2 DEF FutureTypes
  <2>4. step' \in [Caller -> {"idle"} \cup AwaitStep \cup PromiseStep]
    BY DEF FutureTypes, AwaitStep
  <2>5. QED
    BY <2>3, <2>4 DEF FutureTypes
<1>1. StepsOfKinds'
  BY DEF FutureTypes, StepsOfKinds, AwaitStep, PromiseStep
<1>2. ResultsKnown'
  BY DEF FutureTypes, StepsOfKinds, ResultsKnown, Known, AwaitStep, PromiseStep
<1>3. NoAwait'
  BY DEF FutureTypes, StepsOfKinds, OnlyAwait, NoAwait, Awaiting, AwaitStep, PromiseStep
<1>4. OneAwait'
  BY DEF FutureTypes, StepsOfKinds, OnlyAwait, NoAwait, OneAwait, Awaiting, AwaitStep, PromiseStep
<1>5. AwaitKnows'
  BY DEF FutureTypes, StepsOfKinds, OnlyAwait, NoAwait, OneAwait, AwaitKnows, Awaiting, AwaitStep, PromiseStep
<1>6. PromiseWords'
  BY DEF FutureTypes, StepsOfKinds, OnlyAwait, NoAwait, Awaiting, PromiseWords, PromiseSteps, AwaitStep, PromiseStep
<1>7. PromiseSteps'
  BY DEF FutureTypes, StepsOfKinds, OnlyAwait, NoAwait, Awaiting, PromiseWords, PromiseSteps, AwaitStep, PromiseStep
<1>8. QED
  BY <1>0, <1>1, <1>2, <1>3, <1>4, <1>5, <1>6, <1>7 DEF OnlyAwait

\* An await stores the result.
LEMMA AwaitStoreStep == ASSUME FutureInv, NEW c \in Caller, StoreResult(c) PROVE FutureInv'
<1> USE FuturesAssumption
    DEF FuturesAssumption, FutureInv, StoreResult, CallGoto, cells, workers, calling, futureHistory
<1>0. FutureTypes'
  BY DEF FutureTypes, AwaitStep, PromiseStep, Null
<1>1. StepsOfKinds'
  BY DEF FutureTypes, StepsOfKinds, AwaitStep, PromiseStep
<1>2. ResultsKnown'
  BY DEF FutureTypes, StepsOfKinds, ResultsKnown, Known, AwaitStep, PromiseStep
<1>3. NoAwait'
  BY DEF FutureTypes, StepsOfKinds, OnlyAwait, NoAwait, Awaiting, AwaitStep, PromiseStep
<1>4. OneAwait'
  BY DEF FutureTypes, StepsOfKinds, OnlyAwait, NoAwait, OneAwait, Awaiting, AwaitStep, PromiseStep
<1>5. AwaitKnows'
  <2>1. \A d \in Caller \ {c} : step'[d] = step[d]
    BY DEF FutureTypes
  <2>2. ASSUME NEW d \in Caller \ {c}, step[d] = "read", awaits[of[d]] = 1
        PROVE  of[d] # of[c]
    <3>1. of[d] \in Future
      BY <2>2 DEF FutureTypes, StepsOfKinds
    <3>2. Awaiting(c, of[c]) /\ Awaiting(d, of[d])
      BY <2>2 DEF Awaiting, AwaitStep
    <3>3. QED
      BY <2>2, <3>1, <3>2 DEF OnlyAwait, OneAwait
  <2>3. ASSUME NEW d \in Caller \ {c}, step[d] = "read", awaits[of[d]] = 1
        PROVE  done'[of[d]] = done[of[d]] /\ result'[of[d]] = result[of[d]]
    <3>1. of[d] \in Future
      BY <2>3 DEF FutureTypes, StepsOfKinds
    <3>2. QED
      BY <2>2, <2>3, <3>1 DEF FutureTypes
  <2>4. of[c] \in made /\ of[c] \in Future
    BY DEF FutureTypes, StepsOfKinds
  <2>5. CASE kind[of[c]] = "native"
    <3>1. step' = [step EXCEPT ![c] = "read"]
      BY <2>5
    <3>2. of[c] \notin cancelled =>
             done'[of[c]] = 1 /\ result'[of[c]] = local[c]
      BY <2>4, <2>5 DEF FutureTypes, StepsOfKinds
    <3>3. QED
      BY <2>1, <2>3, <3>1, <3>2 DEF FutureTypes, OnlyAwait, AwaitKnows, AwaitStep
  <2>6. CASE kind[of[c]] # "native"
    <3>1. step' = [step EXCEPT ![c] = "mark"]
      BY <2>6
    <3>2. QED
      BY <2>1, <2>3, <3>1 DEF FutureTypes, OnlyAwait, AwaitKnows, AwaitStep
  <2>7. QED
    BY <2>5, <2>6
<1>6. PromiseWords'
  BY DEF FutureTypes, StepsOfKinds, OnlyAwait, NoAwait, Awaiting, PromiseWords, PromiseSteps, AwaitStep, PromiseStep
<1>7. PromiseSteps'
  <2>1. \A f \in Future : awaits[f] = 0 => of[c] # f
    BY DEF OnlyAwait, NoAwait, Awaiting, AwaitStep
  <2>2. \A f \in Future : awaits[f] = 0 => result'[f] = result[f] /\ done'[f] = done[f]
    BY <2>1 DEF FutureTypes
  <2>3. \A d \in Caller : step[d] # "idle" => of[d] \in Future
    BY DEF FutureTypes, StepsOfKinds
  <2>4. \A d \in Caller \ {c} : step'[d] = step[d] /\ local'[d] = local[d]
    BY DEF FutureTypes
  <2>5. step'[c] \notin {"settle", "flag", "get"}
    BY DEF FutureTypes
  <2>6. QED
    BY <2>2, <2>3, <2>4, <2>5 DEF PromiseSteps
<1>8. QED
  BY <1>0, <1>1, <1>2, <1>3, <1>4, <1>5, <1>6, <1>7 DEF OnlyAwait

\* An await answers.
LEMMA AwaitAnswerStep == ASSUME FutureInv, NEW c \in Caller, Answer(c) PROVE FutureInv'
<1> USE FuturesAssumption
    DEF FuturesAssumption, FutureInv, Answer, CallGoto, cells, workers, calling, futureHistory
<1>0. FutureTypes'
  <2>1. of[c] \in Future
    BY DEF FutureTypes, StepsOfKinds
  <2>2. answer' \in [Caller -> Int]
    <3>1. step[c] # "idle"
      OBVIOUS
    <3>2. result[of[c]] \in Int /\ local[c] \in Int /\ Null \in Int
      BY <3>1, CallerTypes DEF Null
    <3>3. \E v \in Int : answer' = [answer EXCEPT ![c] = v]
      BY <3>2
    <3>4. QED
      BY <3>3 DEF FutureTypes
  <2>3. done' \in [Future -> Int] /\ local' \in [Caller -> Int]
    BY DEF FutureTypes
  <2>4. step' \in [Caller -> {"idle"} \cup AwaitStep \cup PromiseStep]
    BY DEF FutureTypes
  <2>5. QED
    BY <2>2, <2>3, <2>4 DEF FutureTypes
<1>1. StepsOfKinds'
  BY DEF FutureTypes, StepsOfKinds, AwaitStep, PromiseStep
<1>2. ResultsKnown'
  BY DEF FutureTypes, StepsOfKinds, ResultsKnown, Known, AwaitStep, PromiseStep
<1>3. NoAwait'
  BY DEF FutureTypes, StepsOfKinds, OnlyAwait, NoAwait, Awaiting, AwaitStep, PromiseStep
<1>4. OneAwait'
  BY DEF FutureTypes, StepsOfKinds, OnlyAwait, NoAwait, OneAwait, Awaiting, AwaitStep, PromiseStep
<1>5. AwaitKnows'
  <2>1. step'[c] \notin AwaitStep /\ \A d \in Caller \ {c} : step'[d] = step[d] /\ local'[d] = local[d]
    BY DEF FutureTypes, AwaitStep
  <2>2. step[c] \in AwaitStep
    BY DEF AwaitStep
  <2>3. \A d \in Caller \ {c} :
            step[d] \in AwaitStep /\ awaits[of[d]] = 1 => of[d] # of[c] /\ of[d] \in Future
    BY <2>2, ZenonT(60) DEF FutureTypes, StepsOfKinds, OnlyAwait, OneAwait, Awaiting, AwaitStep
  <2>4. result' = result /\ \A f \in Future : f # of[c] => done'[f] = done[f]
    BY DEF FutureTypes
  <2>5. QED
    BY <2>1, <2>3, <2>4, ZenonT(60) DEF OnlyAwait, AwaitKnows
<1>6. PromiseWords'
  BY DEF FutureTypes, StepsOfKinds, OnlyAwait, NoAwait, Awaiting, PromiseWords, PromiseSteps, AwaitStep, PromiseStep
<1>7. PromiseSteps'
  <2>1. \A f \in Future : awaits[f] = 0 => of[c] # f
    BY DEF OnlyAwait, NoAwait, Awaiting, AwaitStep
  <2>2. \A f \in Future : awaits[f] = 0 => result'[f] = result[f] /\ done'[f] = done[f]
    BY <2>1 DEF FutureTypes
  <2>3. \A d \in Caller : step[d] # "idle" => of[d] \in Future
    BY DEF FutureTypes, StepsOfKinds
  <2>4. \A d \in Caller \ {c} : step'[d] = step[d] /\ local'[d] = local[d]
    BY DEF FutureTypes
  <2>5. step'[c] \notin {"settle", "flag", "get"}
    BY DEF FutureTypes
  <2>6. QED
    BY <2>2, <2>3, <2>4, <2>5 DEF PromiseSteps
<1>8. QED
  BY <1>0, <1>1, <1>2, <1>3, <1>4, <1>5, <1>6, <1>7 DEF OnlyAwait

\* A settle begins.
LEMMA SettleBeginStep == ASSUME FutureInv, NEW c \in Caller, NEW f \in Future, Settle(c, f) PROVE FutureInv'
<1> USE FuturesAssumption
    DEF FuturesAssumption, FutureInv, Settle, Begin, Value, CallGoto, cells, workers, calling, futureHistory
<1>0. FutureTypes'
  BY DEF FutureTypes, AwaitStep, PromiseStep, Null
<1>1. StepsOfKinds'
  BY DEF FutureTypes, StepsOfKinds, AwaitStep, PromiseStep
<1>2. ResultsKnown'
  BY DEF FutureTypes, StepsOfKinds, ResultsKnown, Known, AwaitStep, PromiseStep
<1>3. NoAwait'
  BY DEF FutureTypes, StepsOfKinds, OnlyAwait, NoAwait, Awaiting, AwaitStep, PromiseStep
<1>4. OneAwait'
  BY DEF FutureTypes, StepsOfKinds, OnlyAwait, NoAwait, OneAwait, Awaiting, AwaitStep, PromiseStep
<1>5. AwaitKnows'
  BY DEF FutureTypes, StepsOfKinds, OnlyAwait, NoAwait, OneAwait, AwaitKnows, Awaiting, AwaitStep, PromiseStep
<1>6. PromiseWords'
  BY DEF FutureTypes, StepsOfKinds, OnlyAwait, NoAwait, Awaiting, PromiseWords, PromiseSteps, AwaitStep, PromiseStep
<1>7. PromiseSteps'
  BY DEF FutureTypes, StepsOfKinds, OnlyAwait, NoAwait, Awaiting, PromiseWords, PromiseSteps, AwaitStep, PromiseStep
<1>8. QED
  BY <1>0, <1>1, <1>2, <1>3, <1>4, <1>5, <1>6, <1>7 DEF OnlyAwait

\* A settle stores a word.
LEMMA SettleStoreStep == ASSUME FutureInv, NEW c \in Caller, Store(c) PROVE FutureInv'
<1> USE FuturesAssumption
    DEF FuturesAssumption, FutureInv, Store, SettleStep, PutValue, PutFlag, CallGoto, cells, workers, calling, futureHistory
<1>0. FutureTypes'
  BY DEF FutureTypes, AwaitStep, PromiseStep, Null
<1>1. StepsOfKinds'
  BY DEF FutureTypes, StepsOfKinds, AwaitStep, PromiseStep
<1>2. ResultsKnown'
  BY DEF FutureTypes, StepsOfKinds, ResultsKnown, Known, AwaitStep, PromiseStep
<1>3. NoAwait'
  BY DEF FutureTypes, StepsOfKinds, OnlyAwait, NoAwait, Awaiting, AwaitStep, PromiseStep
<1>4. OneAwait'
  BY DEF FutureTypes, StepsOfKinds, OnlyAwait, NoAwait, OneAwait, Awaiting, AwaitStep, PromiseStep
<1>5. AwaitKnows'
  <2>1. of[c] \in Future /\ kind[of[c]] = "promise"
    BY DEF FutureTypes, StepsOfKinds, PromiseStep
  <2>2. \A f \in Future : kind[f] # "promise" => result'[f] = result[f] /\ done'[f] = done[f]
    BY <2>1 DEF FutureTypes
  <2>3. \A d \in Caller \ {c} : step'[d] = step[d] /\ local'[d] = local[d]
    BY DEF FutureTypes
  <2>4. step'[c] \notin AwaitStep
    BY DEF FutureTypes, AwaitStep
  <2>5. \A d \in Caller : step[d] # "idle" => of[d] \in Future
    BY DEF FutureTypes, StepsOfKinds
  <2>6. QED
    BY <2>2, <2>3, <2>4, <2>5 DEF OnlyAwait, AwaitKnows, AwaitStep
<1>6. PromiseWords'
  BY DEF FutureTypes, StepsOfKinds, OnlyAwait, NoAwait, Awaiting, PromiseWords, PromiseSteps, AwaitStep, PromiseStep
<1>7. PromiseSteps'
  <2>1. of[c] \in Future /\ \A d \in Caller : step[d] # "idle" => of[d] \in Future
    BY DEF FutureTypes, StepsOfKinds
  <2>2. CASE step[c] = "settle"
    <3>1. /\ step' = [step EXCEPT ![c] = "flag"]
          /\ result' = [result EXCEPT ![of[c]] = local[c]]
          /\ UNCHANGED <<done, local>>
      BY <2>2
    <3>2. QED
      BY <2>1, <2>2, <3>1 DEF FutureTypes, PromiseSteps
  <2>3. CASE step[c] = "flag"
    <3>1. /\ step' = [step EXCEPT ![c] = "idle"]
          /\ done' = [done EXCEPT ![of[c]] = IF local[c] > 0 THEN 1 ELSE -1]
          /\ local' = [local EXCEPT ![c] = 0] /\ UNCHANGED result
      BY <2>3
    <3>2. \A g \in Future : done[g] # 0 => done'[g] # 0
      BY <3>1 DEF FutureTypes
    <3>3. QED
      BY <2>1, <3>1, <3>2 DEF FutureTypes, PromiseSteps
  <2>4. QED
    BY <2>2, <2>3
<1>8. QED
  BY <1>0, <1>1, <1>2, <1>3, <1>4, <1>5, <1>6, <1>7 DEF OnlyAwait

\* An await of a promise begins, looks or answers.
LEMMA PollStep == ASSUME FutureInv, NEW c \in Caller, Poll(c) \/ GetValue(c) \/ (\E f \in Future : AwaitPromise(c, f)) PROVE FutureInv'
<1> USE FuturesAssumption
    DEF FuturesAssumption, FutureInv, Poll, GetValue, AwaitPromise, Begin, CallGoto, cells, workers, calling, futureHistory
<1>0. FutureTypes'
  <2>1. step[c] # "idle" => of[c] \in Future
    BY DEF FutureTypes, StepsOfKinds
  <2>2. answer' \in [Caller -> Int]
    <3>1. step[c] # "idle" => result[of[c]] \in Int
      BY <2>1 DEF FutureTypes
    <3>2. (\E v \in Int : answer' = [answer EXCEPT ![c] = v]) \/ UNCHANGED answer
      BY <3>1 DEF Null
    <3>3. QED
      BY <3>2 DEF FutureTypes
  <2>3. of' \in [Caller -> Future \cup {SomeFuture}]
    BY DEF FutureTypes
  <2>4. step' \in [Caller -> {"idle"} \cup AwaitStep \cup PromiseStep]
    BY DEF FutureTypes, PromiseStep
  <2>5. UNCHANGED <<kind, done, result, sent, awaits, settled, local, running, made>>
    OBVIOUS
  <2>6. QED
    BY <2>2, <2>3, <2>4, <2>5 DEF FutureTypes
<1>1. StepsOfKinds'
  <2>1. \A d \in Caller \ {c} : step'[d] = step[d] /\ of'[d] = of[d]
    BY DEF FutureTypes
  <2>2. step'[c] # "idle" =>
           step'[c] \in {"poll", "get"} /\ of'[c] \in made /\ kind[of'[c]] = "promise"
    BY DEF FutureTypes, StepsOfKinds, PromiseStep
  <2>3. UNCHANGED <<kind, futures, done, result, awaits, settled, made, cancelled>>
    OBVIOUS
  <2>4. QED
    BY <2>1, <2>2, <2>3 DEF StepsOfKinds, PromiseStep
<1>2. ResultsKnown'
  BY DEF FutureTypes, StepsOfKinds, ResultsKnown, Known, AwaitStep, PromiseStep
<1>3. NoAwait'
  BY DEF FutureTypes, StepsOfKinds, OnlyAwait, NoAwait, Awaiting, AwaitStep, PromiseStep
<1>4. OneAwait'
  BY DEF FutureTypes, StepsOfKinds, OnlyAwait, NoAwait, OneAwait, Awaiting, AwaitStep, PromiseStep
<1>5. AwaitKnows'
  BY DEF FutureTypes, StepsOfKinds, OnlyAwait, NoAwait, OneAwait, AwaitKnows, Awaiting, AwaitStep, PromiseStep
<1>6. PromiseWords'
  BY DEF FutureTypes, StepsOfKinds, OnlyAwait, NoAwait, Awaiting, PromiseWords, PromiseSteps, AwaitStep, PromiseStep
<1>7. PromiseSteps'
  BY DEF FutureTypes, StepsOfKinds, OnlyAwait, NoAwait, Awaiting, PromiseWords, PromiseSteps, AwaitStep, PromiseStep
<1>8. QED
  BY <1>0, <1>1, <1>2, <1>3, <1>4, <1>5, <1>6, <1>7 DEF OnlyAwait

\* Every step keeps the invariant.
LEMMA FutureInvNext == FutureInv /\ [FutureNext]_futureVars => FutureInv'
<1> SUFFICES ASSUME FutureInv, [FutureNext]_futureVars PROVE FutureInv'
  OBVIOUS
<1>1. CASE UNCHANGED futureVars
  BY <1>1 DEF futureVars, cells, workers, calling, futureHistory, FutureInv, FutureTypes,
     StepsOfKinds, ResultsKnown, Known, OnlyAwait, NoAwait, OneAwait, AwaitKnows,
     Awaiting, PromiseWords, PromiseSteps
<1>2. QED
  BY <1>1, SpawnStep, EndStep, CancelStep, AwaitBeginStep, AwaitLookStep, AwaitJoinStep,
     AwaitJoinedStep, AwaitStoreStep, AwaitAnswerStep, SettleBeginStep, SettleStoreStep,
     PollStep
     DEF FutureNext

\* The invariant holds in every reachable state.
LEMMA FutureInvariance == FutureSpec => []FutureInv
  BY FutureInvInit, FutureInvNext, PTL DEF FutureSpec

\* Future.await: the only one answers with the result of the function, after
\* its end; any other with that, with 0, or, of a cancelled future, with Null.
THEOREM AwaitsAnswered == FutureSpec => AwaitAnswers
<1> DEFINE A(c) ==
        Answer(c) /\ kind[of[c]] # "promise" =>
          LET f == of[c] IN
          /\ awaits[f] = 1 /\ f \notin cancelled =>
                f \notin running /\ done'[f] = 1 /\ answer'[c] = sent[f]
          /\ answer'[c] = Null => f \in cancelled
          /\ answer'[c] \notin {0, Null} => f \notin running /\ answer'[c] = sent[f]
<1>1. ASSUME FutureInv, NEW c \in Caller, Answer(c), kind[of[c]] # "promise"
      PROVE  A(c)
  <2> USE DEF FutureInv
  <2>1. of[c] \in Future /\ of[c] \in made /\ sent[of[c]] \in Nat
    BY <1>1 DEF Answer, FutureTypes, StepsOfKinds
  <2>2. CASE step[c] = "read"
    <3>1. /\ answer'[c] = IF of[c] \in futures THEN result[of[c]] ELSE Null
          /\ done'[of[c]] = done[of[c]]
      BY <1>1, <2>2 DEF Answer, FutureTypes
    <3>2. of[c] \in futures <=> of[c] \notin cancelled
      <4>1. kind[of[c]] = "native"
        BY <1>1, <2>2 DEF StepsOfKinds
      <4>2. QED
        BY <1>1, <2>1, <4>1 DEF StepsOfKinds
    <3>3. Known(of[c], result[of[c]])
      BY <1>1, <2>1 DEF ResultsKnown
    <3>4. awaits[of[c]] = 1 /\ of[c] \notin cancelled =>
             of[c] \notin running /\ result[of[c]] = sent[of[c]] /\ done[of[c]] = 1
      BY <1>1, <2>2 DEF OnlyAwait, AwaitKnows, AwaitStep
    <3>5. QED
      BY <2>1, <3>1, <3>2, <3>3, <3>4 DEF Known, Null
  <2>3. CASE step[c] = "mark"
    <3>1. answer'[c] = local[c] /\ done'[of[c]] = 1
      BY <1>1, <2>1, <2>3 DEF Answer, FutureTypes
    <3>2. Known(of[c], local[c])
      BY <1>1, <2>3 DEF ResultsKnown
    <3>3. awaits[of[c]] = 1 => of[c] \notin running /\ local[c] = sent[of[c]]
      BY <1>1, <2>3 DEF OnlyAwait, AwaitKnows, AwaitStep
    <3>4. QED
      BY <2>1, <3>1, <3>2, <3>3 DEF Known, Null
  <2>4. QED
    BY <1>1, <2>2, <2>3 DEF Answer
<1>2. FutureInv /\ [FutureNext]_futureVars => [\A c \in Caller : A(c)]_futureVars
  BY <1>1
<1>3. QED
  BY <1>2, FutureInvariance, PTL DEF FutureSpec, AwaitAnswers

\* Promise.await: the value is one somebody settled the promise with, and the
\* flag agrees with it unless another settle did otherwise.
THEOREM PromisesKept == FutureSpec => PromiseKept
<1> DEFINE K(c) ==
        GetValue(c) /\ awaits[of[c]] = 0 =>
          LET f == of[c] IN
          /\ answer'[c] \in settled[f]
          /\ settled[f] = {answer'[c]} => (done[f] < 0 <=> answer'[c] < 0)
<1>1. ASSUME FutureInv, NEW c \in Caller, GetValue(c), awaits[of[c]] = 0
      PROVE  K(c)
  <2> USE DEF FutureInv
  <2>1. of[c] \in Future /\ kind[of[c]] = "promise"
    BY <1>1 DEF GetValue, FutureTypes, StepsOfKinds, PromiseStep
  <2>2. answer'[c] = result[of[c]]
    BY <1>1 DEF GetValue, FutureTypes
  <2>3. done[of[c]] # 0
    BY <1>1 DEF GetValue, PromiseSteps
  <2>4. /\ result[of[c]] \in settled[of[c]]
        /\ \E v \in settled[of[c]] : done[of[c]] < 0 <=> v < 0
    BY <1>1, <2>1, <2>3 DEF PromiseWords
  <2>5. QED
    BY <2>2, <2>4
<1>2. FutureInv /\ [FutureNext]_futureVars => [\A c \in Caller : K(c)]_futureVars
  BY <1>1
<1>3. QED
  BY <1>2, FutureInvariance, PTL DEF FutureSpec, PromiseKept
-----------------------------------------------------------------------------
\* What FutureInv leaves open of the types.
FutureRest ==
    /\ futures \subseteq Future /\ threads \subseteq Future
    /\ done \in [Future -> {-1, 0, 1}] /\ of \in [Caller -> Future]

\* The state of the futures and promises has its types.
THEOREM FutureTypeCorrect == FutureSpec => []FutureTypeOK
<1>1. FutureInit => FutureRest
  BY FuturesAssumption DEF FuturesAssumption, FutureInit, FutureRest
<1>2. FutureInv /\ FutureRest /\ [FutureNext]_futureVars => FutureRest'
  <2> SUFFICES ASSUME FutureInv, FutureRest, [FutureNext]_futureVars PROVE FutureRest'
    OBVIOUS
  <2> USE DEF FutureRest, cells, workers, calling, futureHistory
  <2>1. CASE UNCHANGED futureVars
    BY <2>1 DEF futureVars
  <2>2. ASSUME NEW f \in Future, Spawn(f) \/ End(f) \/ Cancel(f) PROVE FutureRest'
    BY <2>2 DEF Spawn, End, Cancel
  <2>3. ASSUME NEW c \in Caller, NEW f \in Future, Await(c, f) \/ Settle(c, f) \/ AwaitPromise(c, f)
        PROVE  FutureRest'
    BY <2>3 DEF Await, Settle, AwaitPromise, Begin
  <2>4. ASSUME NEW c \in Caller,
               \/ Look(c) \/ ThreadJoin(c) \/ Joined(c) \/ StoreResult(c) \/ Answer(c)
               \/ Store(c) \/ Poll(c) \/ GetValue(c)
        PROVE  FutureRest'
    BY <2>4 DEF Look, ThreadJoin, Joined, StoreResult, Answer, Store, SettleStep, PutValue,
       PutFlag, Poll, GetValue
  <2>5. QED
    BY <2>1, <2>2, <2>3, <2>4 DEF FutureNext
<1>3. FutureInv /\ FutureRest => FutureTypeOK
  BY DEF FutureInv, FutureTypes, FutureRest, FutureTypeOK, AwaitStep, PromiseStep
<1>4. QED
  BY <1>1, <1>2, <1>3, FutureInvariance, PTL DEF FutureSpec

-----------------------------------------------------------------------------
(***************************************************************************)
(* The program of the runs, which uses one of the three, is a program of   *)
(* each: the other two stay as they are. So all that is proved above holds *)
(* of it.                                                                  *)
(***************************************************************************)
LEMMA PartsAlone ==
    MCInit /\ [][MCNext]_mcVars => NativeSpec /\ FutureSpec /\ Spec
<1>1. MCInit => NativeInit /\ FutureInit /\ Init
  BY DEF MCInit
<1>2. [MCNext]_mcVars =>
          [NativeNext]_nativeVars /\ [FutureNext]_futureVars /\ [Next]_vars
  BY DEF MCNext, InNatives, InFutures, InPool, mcVars
<1>3. QED
  BY <1>1, <1>2, PTL DEF NativeSpec, FutureSpec, Spec

\* Locks, futures and pool in one program keep their types.
THEOREM ThreadTypes == MCInit /\ [][MCNext]_mcVars => []MCTypeOK
<1>1. NativeTypeOK /\ FutureTypeOK /\ TypeOK => MCTypeOK
  BY DEF MCTypeOK
<1>2. QED
  BY <1>1, PartsAlone, NativeTypeCorrect, FutureTypeCorrect, PoolTypeCorrect, PTL
=============================================================================
