-------------------------------- MODULE RwLock ------------------------------
(***************************************************************************)
(* RwLock.aura: a guard, a count of readers and a writer's flag.  Both     *)
(* words are read and written under the guard only.                        *)
(***************************************************************************)
EXTENDS Guarded

VARIABLES
    readers,
    writer,
    mode            \* history: mode[t], what t holds: "none", "read", "write"

rwWords == <<readers, writer, mode>>
rwVars == <<guardVars, rwWords>>

RwMethod == {"readLock", "writeLock", "readUnlock", "writeUnlock"}

RwInit ==
    /\ GuardInit
    /\ readers = 0
    /\ writer = 0
    /\ mode = [t \in Thread |-> "none"]

Hold(t, what) == mode' = [mode EXCEPT ![t] = what]

\* A thread unlocks what it holds, and holds one thing at a time.
RwCall(t) ==
    /\ \/ mode[t] = "none" /\ (Call(t, "readLock") \/ Call(t, "writeLock"))
       \/ mode[t] = "read" /\ Call(t, "readUnlock")
       \/ mode[t] = "write" /\ Call(t, "writeUnlock")
    /\ UNCHANGED rwWords

\* Slip: the reader does not look at the writer's flag.
ReadLookBlind(t) ==
    /\ Holding(t, "readLock")
    /\ Then(t, "work")
    /\ UNCHANGED rwWords

\* readLock: no writer, or once more.
ReadLook(t) ==
    /\ Holding(t, "readLock")
    /\ Then(t, IF writer = 0 THEN "work" ELSE "again")
    /\ UNCHANGED rwWords

ReadTake(t) ==
    /\ Working(t, "readLock")
    /\ readers' = readers + 1
    /\ Hold(t, "read")
    /\ Then(t, "exit")
    /\ UNCHANGED writer

\* writeLock: neither readers nor a writer, or once more.
WriteLook(t) ==
    /\ Holding(t, "writeLock")
    /\ Then(t, IF readers = 0 /\ writer = 0 THEN "work" ELSE "again")
    /\ UNCHANGED rwWords

WriteTake(t) ==
    /\ Working(t, "writeLock")
    /\ writer' = 1
    /\ Hold(t, "write")
    /\ Then(t, "exit")
    /\ UNCHANGED readers

ReadUnlock(t) ==
    /\ Holding(t, "readUnlock")
    /\ readers' = readers - 1
    /\ Hold(t, "none")
    /\ Then(t, "exit")
    /\ UNCHANGED writer

\* Slip: the store goes to the word of the readers.
WriteUnlockWrongWord(t) ==
    /\ Holding(t, "writeUnlock")
    /\ readers' = 0
    /\ Hold(t, "none")
    /\ Then(t, "exit")
    /\ UNCHANGED writer

WriteUnlock(t) ==
    /\ Holding(t, "writeUnlock")
    /\ writer' = 0
    /\ Hold(t, "none")
    /\ Then(t, "exit")
    /\ UNCHANGED readers

-----------------------------------------------------------------------------
RwInside(t) ==
    \/ Around(t) /\ UNCHANGED rwWords
    \/ ReadLook(t) \/ ReadTake(t)
    \/ WriteLook(t) \/ WriteTake(t)
    \/ ReadUnlock(t)
    \/ WriteUnlock(t)

RwNext == \E t \in Thread : RwCall(t) \/ RwInside(t)

RwSpec == RwInit /\ [][RwNext]_rwVars

-----------------------------------------------------------------------------
Holds(what) == {t \in Thread : mode[t] = what}

RwTypeOK ==
    /\ GuardTypeOK(RwMethod, {})
    /\ readers \in 0 .. Cardinality(Thread)
    /\ writer \in {0, 1}
    /\ mode \in [Thread -> {"none", "read", "write"}]

\* The lock implements the abstract one: probes, undos, failed looks and
\* retries are invisible; RwLock.aura:9, many readers or one writer.
AbstractRw ==
    INSTANCE AbstractRwLock WITH reading <- Holds("read"), writing <- Holds("write")

ImplementsRwLock == AbstractRw!Spec

\* A thread in any method returns once the others hold nothing and stay out
\* of their calls.  Nothing more can be promised: readers that follow one
\* another keep a writer out for ever, the writer's flag being set only when
\* there are none (RwLock.aura:60), and so do the guard's own collisions.
RwProgress ==
    \A t \in Thread :
        <>[](\A u \in Thread \ {t} : Idle(u) /\ mode[u] = "none") 
            => []<>(Idle(t) \/ call[t] \notin RwMethod)
=============================================================================
