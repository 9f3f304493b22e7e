------------------------------ MODULE MCThreads -----------------------------
(***************************************************************************)
(* What the VM builds on the threads of the operating system: a program    *)
(* that uses the locks of concurrent_native.rs, one that uses its futures, *)
(* or a thread pool.  Which one is chosen at the start.                    *)
(***************************************************************************)
EXTENDS Natives, Futures, ThreadPool

VARIABLE part

MCPrograms ==
    {Method["mutex"] \cup Method["condvar"] \cup {"release"},
     Method["barrier"] \cup {"release"},
     Method["rwlock"],
     SemaphoreMethod}

MCInit ==
    /\ part \in {"natives", "futures", "pool"}
    /\ NativeInit /\ FutureInit /\ Init

InNatives(A) == part = "natives" /\ A /\ UNCHANGED <<part, futureVars, vars>>
InFutures(A) == part = "futures" /\ A /\ UNCHANGED <<part, nativeVars, vars>>
InPool(A) == part = "pool" /\ A /\ UNCHANGED <<part, nativeVars, futureVars>>

MCNext == InNatives(NativeNext) \/ InFutures(FutureNext) \/ InPool(Next)

mcVars == <<part, nativeVars, futureVars, vars>>

\* A thread in release goes on, whether or not others do; so do the workers
\* of the pool, and the pool's owner inside shutdown.
MCFairSpec ==
    /\ MCInit /\ [][MCNext]_mcVars
    /\ \A t \in Thread : WF_mcVars(InNatives(Get(t) \/ SemaphoreRelease(t)))
    /\ \A w \in Worker : WF_mcVars(InPool(Work(w)))
    /\ WF_mcVars(InPool(NotifyAll \/ Join))

\* The state of the part in use has its types.
MCTypeOK ==
    /\ part = "natives" => NativeTypeOK
    /\ part = "futures" => FutureTypeOK
    /\ part = "pool" => TypeOK
=============================================================================
