------------------------------ MODULE ThreadPool ----------------------------
(***************************************************************************)
(* seed/compiler/src/vm/thread_pool.rs: a fixed set of worker threads, a   *)
(* queue of tasks behind one mutex, a shutdown flag behind another, and a  *)
(* condition variable that goes with the flag.                             *)
(*                                                                         *)
(* Every critical section of the two mutexes is one step.  What a worker   *)
(* learns in one of them may be stale in the next: between the look at the *)
(* queue (line 68) and the look at the flag (line 71) it holds neither     *)
(* lock.                                                                   *)
(***************************************************************************)
EXTENDS Integers, Sequences, FiniteSets

CONSTANTS
    Worker,
    MaxTasks        \* bound: tasks submitted in a behaviour

ASSUME PoolAssumption == IsFiniteSet(Worker) /\ MaxTasks \in Nat

VARIABLES
    queue,          \* TaskQueue.tasks
    shutdown,       \* the flag
    at,             \* at[w]: where worker w is in its loop
    task,           \* task[w]: the last task w has popped, 0 before the first
    owner,          \* where the thread that owns the pool is
    submitted,      \* history: the number of tasks given to `execute`
    started,        \* history: the tasks popped, in order
    finished,       \* history: the tasks that returned
    panicked,       \* history: the tasks that panicked
    late            \* history: what shutdown found when it set the flag

vars == <<queue, shutdown, at, task, owner, submitted, started, finished,
          panicked, late>>
history == <<submitted, started, finished, panicked, late>>

(***************************************************************************)
(* "look"  about to lock the queue                                         *)
(* "check" found the queue empty, about to lock the flag                   *)
(* "wait"  in shutdown_cv.wait                                             *)
(* "run"   running a task                                                  *)
(* "gone"  the thread has ended, by return or by a panicking task          *)
(***************************************************************************)
Place == {"look", "check", "wait", "run", "gone"}

(***************************************************************************)
(* "open"   free to call execute, shutdown, or to drop the pool            *)
(* "notify" in shutdown, the flag set, about to notify                     *)
(* "join"   in shutdown, joining the workers                               *)
(* "closed" shutdown has returned; execute and shutdown may be called      *)
(* "away"   the pool was dropped without shutdown, its threads detached    *)
(***************************************************************************)
Owner == {"open", "notify", "join", "closed", "away"}

Task == 1 .. MaxTasks

\* What `late` records: the tasks submitted so far and the workers that will
\* look at the queue again before they look at the flag.
Nothing == [tasks |-> 0, lookers |-> {}]

Init ==
    /\ queue = <<>>
    /\ shutdown = FALSE
    /\ at = [w \in Worker |-> "look"]
    /\ task = [w \in Worker |-> 0]
    /\ owner = "open"
    /\ submitted = 0
    /\ started = <<>>
    /\ finished = {}
    /\ panicked = {}
    /\ late = Nothing

Goto(w, place) == at' = [at EXCEPT ![w] = place]

-----------------------------------------------------------------------------
\* The worker's loop.

\* Slip: the task taken is the newest.
PopNewest(w) ==
    /\ at[w] = "look" /\ queue # <<>>
    /\ task' = [task EXCEPT ![w] = queue[Len(queue)]]
    /\ started' = Append(started, queue[Len(queue)])
    /\ queue' = SubSeq(queue, 1, Len(queue) - 1)
    /\ Goto(w, "run")
    /\ UNCHANGED <<shutdown, owner, submitted, finished, panicked, late>>

Pop(w) ==
    /\ at[w] = "look" /\ queue # <<>>
    /\ task' = [task EXCEPT ![w] = Head(queue)]
    /\ started' = Append(started, Head(queue))
    /\ queue' = Tail(queue)
    /\ Goto(w, "run")
    /\ UNCHANGED <<shutdown, owner, submitted, finished, panicked, late>>

FindEmpty(w) ==
    /\ at[w] = "look" /\ queue = <<>>
    /\ Goto(w, "check")
    /\ UNCHANGED <<queue, shutdown, task, owner, history>>

\* Under the flag's mutex: leave, or go to sleep releasing it.
Check(w) ==
    /\ at[w] = "check"
    /\ \/ shutdown /\ Goto(w, "gone")
       \/ ~shutdown /\ Goto(w, "wait")
    /\ UNCHANGED <<queue, shutdown, task, owner, history>>

\* A condition variable may wake a waiter that nobody notified.
WakeSpuriously(w) ==
    /\ at[w] = "wait"
    /\ Goto(w, "look")
    /\ UNCHANGED <<queue, shutdown, task, owner, history>>

\* Slip: a worker leaves after its task when the flag is set, without
\* another look at the queue.
FinishAndLeave(w) ==
    /\ at[w] = "run"
    /\ finished' = finished \cup {task[w]}
    /\ Goto(w, IF shutdown THEN "gone" ELSE "look")
    /\ UNCHANGED <<queue, shutdown, task, owner, submitted, started, panicked, late>>

Finish(w) ==
    /\ at[w] = "run"
    /\ finished' = finished \cup {task[w]}
    /\ Goto(w, "look")
    /\ UNCHANGED <<queue, shutdown, task, owner, submitted, started, panicked, late>>

\* A panic unwinds the worker's thread; nobody replaces it.
Panic(w) ==
    /\ at[w] = "run"
    /\ panicked' = panicked \cup {task[w]}
    /\ Goto(w, "gone")
    /\ UNCHANGED <<queue, shutdown, task, owner, submitted, started, finished, late>>

-----------------------------------------------------------------------------
\* The pool's owner.

\* Slip: the task is pushed a second time.
ExecuteTwice ==
    /\ owner \in {"open", "closed"}
    /\ submitted < MaxTasks
    /\ submitted' = submitted + 1
    /\ queue' = queue \o <<submitted + 1, submitted + 1>>
    /\ UNCHANGED <<shutdown, at, task, owner, started, finished, panicked, late>>

\* `execute` notifies nobody.
Execute ==
    /\ owner \in {"open", "closed"}
    /\ submitted < MaxTasks
    /\ submitted' = submitted + 1
    /\ queue' = Append(queue, submitted + 1)
    /\ UNCHANGED <<shutdown, at, task, owner, started, finished, panicked, late>>

\* `shutdown` may be called again: the flag stays, the joins find no handle.
SetFlag ==
    /\ owner \in {"open", "closed"}
    /\ shutdown' = TRUE
    /\ owner' = "notify"
    /\ late' = IF shutdown
               THEN late
               ELSE [tasks   |-> submitted,
                     lookers |-> {w \in Worker : at[w] \in {"look", "wait", "run"}}]
    /\ UNCHANGED <<queue, at, task, submitted, started, finished, panicked>>

\* Slip: shutdown wakes one worker only.
NotifyOne ==
    /\ owner = "notify"
    /\ owner' = "join"
    /\ \/ \E w \in Worker : at[w] = "wait" /\ Goto(w, "look")
       \/ (\A w \in Worker : at[w] # "wait") /\ UNCHANGED at
    /\ UNCHANGED <<queue, shutdown, task, history>>

NotifyAll ==
    /\ owner = "notify"
    /\ owner' = "join"
    /\ at' = [w \in Worker |-> IF at[w] = "wait" THEN "look" ELSE at[w]]
    /\ UNCHANGED <<queue, shutdown, task, history>>

\* The joins, one after the other, are over when every worker has ended.
Join ==
    /\ owner = "join"
    /\ \A w \in Worker : at[w] = "gone"
    /\ owner' = "closed"
    /\ UNCHANGED <<queue, shutdown, at, task, history>>

\* Drop neither sets the flag nor joins.
Drop ==
    /\ owner = "open"
    /\ owner' = "away"
    /\ UNCHANGED <<queue, shutdown, at, task, history>>

-----------------------------------------------------------------------------
\* What a worker does while it is awake; its task returns or panics.
Work(w) == Pop(w) \/ FindEmpty(w) \/ Check(w) \/ Finish(w) \/ Panic(w)

Next ==
    \/ \E w \in Worker : Work(w) \/ WakeSpuriously(w)
    \/ Execute
    \/ SetFlag
    \/ NotifyAll
    \/ Join
    \/ Drop

Spec == Init /\ [][Next]_vars

\* The threads run: a worker that is not asleep goes on, and so does the
\* owner inside shutdown.  Nothing forces a spurious wakeup, or a call.
FairSpec ==
    /\ Spec
    /\ \A w \in Worker : WF_vars(Work(w))
    /\ WF_vars(NotifyAll \/ Join)

-----------------------------------------------------------------------------
TypeOK ==
    /\ queue \in Seq(Task) /\ Len(queue) <= MaxTasks
    /\ shutdown \in BOOLEAN
    /\ at \in [Worker -> Place]
    /\ task \in [Worker -> Task \cup {0}]
    /\ owner \in Owner
    /\ submitted \in 0 .. MaxTasks
    /\ started \in Seq(Task)
    /\ finished \subseteq Task
    /\ panicked \subseteq Task
    /\ late.tasks \in 0 .. MaxTasks /\ late.lookers \subseteq Worker

\* Tasks start in the order they were submitted, each once: what was started
\* and what is queued are together the tasks submitted, in order.
StartedInOrder == started \o queue = [i \in 1 .. submitted |-> i]

\* What shutdown does promise about the queue: if it caught some worker
\* anywhere but between its two looks, and no task of a worker so caught
\* panics, the tasks submitted before it are over when it returns.
ShutdownDrains ==
    /\ owner = "closed"
    /\ \E w \in late.lookers : task[w] \notin panicked
    => \A k \in 1 .. late.tasks : k \in finished \cup panicked

\* A call of shutdown returns: the flag is set under its mutex and tested
\* under it before the wait, so no worker sleeps through the notification.
ShutdownReturns == (owner = "notify") ~> (owner = "closed")
=============================================================================
