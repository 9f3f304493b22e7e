---------------------------- MODULE GuardedProofs ---------------------------
(***************************************************************************)
(* Theorems about the guarded classes.  Whatever a class does under its    *)
(* guard, the guard is a spin lock, so that the invariant of               *)
(* SpinLockProofs holds of it; and a thread is past the look at the words  *)
(* only while it holds the guard.  Each class adds to that what a thread   *)
(* has seen under the guard and is still so.                               *)
(***************************************************************************)
EXTENDS MCGuarded, FiniteSetTheorems, TLAPS

Proved == INSTANCE SpinLockProofs

\* The spin lock's assumption, from that of the guarded classes.
LEMMA FiniteThreads == Proved!ThreadAssumption
  BY GuardedAssumption DEF Proved!ThreadAssumption, GuardedAssumption,
     IsFiniteSet, Proved!IsFiniteSet

\* The steps of the lock a guarded class takes.
GuardNext ==
    \E t \in Thread :
        Guard!CallLock(t) \/ Guard!ProbeLock(t) \/ Guard!UndoLock(t) \/ Guard!Unlock(t)

\* At most one thread holds the guard.
GuardHeld ==
    /\ word \in 0 .. Cardinality(Thread)
    /\ at \in [Thread -> Guard!Place]
    /\ \A t, u \in Thread : at[t] = "held" /\ at[u] = "held" => t = u

\* Those steps are steps of the spin lock of SpinLockProofs.
LEMMA GuardIsSpinLock ==
    Guard!Init /\ [][GuardNext]_<<word, at>> => Proved!Spec
<1>1. Guard!Init => Proved!Init
  BY DEF Guard!Init, Proved!Init
<1>2. [GuardNext]_<<word, at>> => [Proved!Next]_<<word, at>>
  BY DEF GuardNext, Guard!CallLock, Guard!ProbeLock, Guard!UndoLock,
     Guard!Unlock, Guard!Probe, Guard!FetchAdd, Guard!Goto,
     Proved!CallLock, Proved!ProbeLock, Proved!UndoLock,
     Proved!Unlock, Proved!Probe, Proved!FetchAdd, Proved!Goto, Proved!Next
<1>3. QED
  BY <1>1, <1>2, PTL DEF Proved!Spec, Proved!vars

\* Exclusion of the guard, read for its two variables in any guarded class.
LEMMA GuardExcludes ==
    Guard!Init /\ [][GuardNext]_<<word, at>> => []GuardHeld
<1>1. Proved!TypeOK /\ Proved!MutualExclusion => GuardHeld
  BY DEF Proved!TypeOK, Proved!MutualExclusion, Proved!Holders, Proved!Place,
     GuardHeld, Guard!Place, Cardinality, Proved!Cardinality
<1>2. Proved!Spec => []Proved!TypeOK /\ []Proved!MutualExclusion
  BY FiniteThreads, Proved!TypeCorrect, Proved!Exclusion
<1>3. QED
  BY <1>1, <1>2, GuardIsSpinLock, PTL

-----------------------------------------------------------------------------
\* Where a thread is, with and without the guard.  `places` are the places
\* the class adds, all of them under the guard.
Placed(methods, places) ==
    /\ call \in [Thread -> methods \cup {"none"}]
    /\ pc \in [Thread -> places \cup {"idle", "enter", "work", "exit", "again"}]
    /\ \A t \in Thread :
          /\ pc[t] = "idle" <=> call[t] = "none"
          /\ pc[t] = "idle" => at[t] = "out"
          /\ pc[t] \in places \cup {"work", "exit", "again"} => at[t] = "held"

\* A new object's guard is free and nobody is in a call.
LEMMA PlacedInit ==
    ASSUME NEW methods, NEW places, GuardInit, places \cap {"idle", "enter"} = {}
    PROVE  Placed(methods, places)
  BY DEF GuardInit, Placed, Guard!Init

\* The steps that every class has keep the places.
LEMMA PlacedAround ==
    ASSUME NEW methods, NEW places, places \cap {"idle", "enter"} = {},
           "none" \notin methods, Placed(methods, places), GuardHeld,
           NEW t \in Thread,
           \/ \E m \in methods : Call(t, m)
           \/ Around(t)
    PROVE  Placed(methods, places)'
<1> USE DEF Placed, GuardHeld
<1>1. CASE \E m \in methods : Call(t, m)
  BY <1>1 DEF Call, Idle, Goto, Guard!CallLock, Guard!Goto
<1>2. CASE Spin(t)
  BY <1>2 DEF Spin, Guard!ProbeLock, Guard!Probe, Guard!UndoLock, Guard!Goto
<1>3. CASE Leave(t)
  BY <1>3 DEF Leave, Return, Goto, Guard!Unlock, Guard!Goto
<1>4. CASE Again(t) \/ Retry(t)
  BY <1>4 DEF Again, Retry, Goto, Guard!Unlock, Guard!CallLock, Guard!Goto
<1>5. QED
  BY <1>1, <1>2, <1>3, <1>4 DEF Around

\* So does a step under the guard to a place under the guard.
LEMMA PlacedThen ==
    ASSUME NEW methods, NEW places, places \cap {"idle", "enter"} = {},
           "none" \notin methods, Placed(methods, places),
           NEW t \in Thread, at[t] = "held", pc[t] # "idle",
           NEW p \in places \cup {"work", "exit", "again"}, Then(t, p)
    PROVE  Placed(methods, places)'
  BY DEF Placed, Then, Goto

\* And a step that leaves the places alone.
LEMMA PlacedStutter ==
    ASSUME NEW methods, NEW places, Placed(methods, places), UNCHANGED guardVars
    PROVE  Placed(methods, places)'
  BY DEF Placed, guardVars

\* In each of these steps the guard moves like a lock, or not at all.
LEMMA GuardMoves ==
    ASSUME NEW t \in Thread,
           \/ \E m : Call(t, m)
           \/ Around(t)
           \/ \E p : Then(t, p)
           \/ UNCHANGED guardVars
    PROVE  [GuardNext]_<<word, at>>
  BY DEF Call, Around, Spin, Leave, Again, Retry, Then, guardVars, GuardNext

-----------------------------------------------------------------------------
(***************************************************************************)
(* RwLock implements the abstract readers-writer lock, and its words stay  *)
(* in range.                                                               *)
(*                                                                         *)
(* The look at the words and their change are two steps.  What makes them  *)
(* one is that the thread has the guard in between: what it has seen is    *)
(* still so (Seen).  The rest of the invariant says what the words stand   *)
(* for: the count is the number of readers, the flag is the writer.        *)
(***************************************************************************)
Readers == Holds("read")
Writers == Holds("write")

RwPlaced == Placed(RwMethod, {}) /\ mode \in [Thread -> {"none", "read", "write"}]

\* What a thread in a method has locked, until the method has done its work.
Modes ==
    \A t \in Thread :
        /\ call[t] \in {"readLock", "writeLock"} /\ pc[t] # "exit" => mode[t] = "none"
        /\ call[t] = "readUnlock" /\ pc[t] # "exit" => mode[t] = "read" /\ pc[t] = "enter"
        /\ call[t] = "writeUnlock" /\ pc[t] # "exit" => mode[t] = "write" /\ pc[t] = "enter"

\* What a thread saw before it changes the words is still so.
Seen ==
    \A t \in Thread : pc[t] = "work" =>
        /\ writer = 0
        /\ call[t] = "writeLock" => readers = 0

\* What the words stand for.
Words ==
    /\ readers = Cardinality(Readers)
    /\ writer = IF Writers = {} THEN 0 ELSE 1
    /\ \A t, u \in Writers : t = u
    /\ Writers = {} \/ Readers = {}

RwInv == RwPlaced /\ Modes /\ Seen /\ Words

-----------------------------------------------------------------------------
\* The readers are a finite set, and the count of them a number.
LEMMA ReadersFinite ==
    /\ IsFiniteSet(Readers)
    /\ Cardinality(Readers) \in 0 .. Cardinality(Thread)
    /\ Cardinality(Readers) = 0 <=> Readers = {}
<1>1. Readers \in SUBSET Thread
  BY DEF Readers, Holds
<1>2. IsFiniteSet(Readers) /\ Cardinality(Readers) <= Cardinality(Thread)
  BY <1>1, GuardedAssumption, FS_Subset DEF GuardedAssumption
<1>3. Cardinality(Readers) \in Nat /\ Cardinality(Thread) \in Nat
  BY <1>2, GuardedAssumption, FS_CardinalityType DEF GuardedAssumption
<1>4. QED
  BY <1>2, <1>3, FS_EmptySet

\* A step of the lock is a step of its guard, or leaves the guard alone.
LEMMA RwGuard == [RwNext]_rwVars => [GuardNext]_<<word, at>>
<1> SUFFICES ASSUME [RwNext]_rwVars PROVE [GuardNext]_<<word, at>>
  OBVIOUS
<1>1. ASSUME NEW t \in Thread, RwCall(t) \/ RwInside(t)
      PROVE  [GuardNext]_<<word, at>>
  <2>1. \/ \E m : Call(t, m)
        \/ Around(t)
        \/ \E p : Then(t, p)
    BY <1>1 DEF RwCall, RwInside, ReadLook, ReadTake, WriteLook, WriteTake,
       ReadUnlock, WriteUnlock
  <2>2. QED
    BY <2>1, GuardMoves
<1>2. CASE UNCHANGED rwVars
  BY <1>2 DEF rwVars, guardVars
<1>3. QED
  BY <1>1, <1>2 DEF RwNext

\* So the guard excludes.
LEMMA RwGuardHeld == RwSpec => []GuardHeld
<1>1. RwInit => Guard!Init
  BY DEF RwInit, GuardInit
<1>2. QED
  BY <1>1, RwGuard, GuardExcludes, PTL DEF RwSpec

-----------------------------------------------------------------------------
\* A new lock satisfies the invariant.
LEMMA RwInvInit == RwInit => RwInv
<1> SUFFICES ASSUME RwInit PROVE RwInv
  OBVIOUS
<1> USE DEF RwInit
<1>1. RwPlaced
  BY PlacedInit DEF RwPlaced
<1>2. Modes /\ Seen
  BY DEF Modes, Seen, GuardInit
<1>3. Readers = {} /\ Writers = {}
  BY DEF Readers, Writers, Holds
<1>4. Words
  BY <1>3, FS_EmptySet DEF Words
<1>5. QED
  BY <1>1, <1>2, <1>4 DEF RwInv

\* Steps that change no word and nobody's mode, and bring nobody to "work",
\* keep what is said of the words.
LEMMA WordsKept ==
    ASSUME RwInv, UNCHANGED rwWords
    PROVE  Words' /\ Readers' = Readers /\ Writers' = Writers
  BY DEF RwInv, Words, Readers, Writers, Holds, rwWords

\* The call of a method.
LEMMA RwCallStep ==
    ASSUME RwInv, GuardHeld, NEW t \in Thread, RwCall(t)
    PROVE  RwInv'
<1> USE DEF RwInv, RwCall
<1>1. \E m \in RwMethod : Call(t, m)
  BY DEF RwMethod
<1>2. RwPlaced'
  <2>1. "none" \notin RwMethod
    BY DEF RwMethod
  <2>2. Placed(RwMethod, {})'
    BY <1>1, <2>1, PlacedAround DEF RwPlaced
  <2>3. QED
    BY <2>2 DEF RwPlaced, rwWords
<1>3. Modes' /\ Seen'
  BY DEF Modes, Seen, RwPlaced, Placed, Call, Goto, rwWords
<1>4. QED
  BY <1>2, <1>3, WordsKept

\* The lock of the guard, and its release.
LEMMA AroundStep ==
    ASSUME RwInv, GuardHeld, NEW t \in Thread, Around(t), UNCHANGED rwWords
    PROVE  RwInv'
<1> USE DEF RwInv
<1>1. RwPlaced'
  <2>1. "none" \notin RwMethod
    BY DEF RwMethod
  <2>2. Placed(RwMethod, {})'
    BY <2>1, PlacedAround DEF RwPlaced
  <2>3. QED
    BY <2>2 DEF RwPlaced, rwWords
<1>2. Modes' /\ Seen'
  BY DEF Modes, Seen, RwPlaced, Placed, Around, Spin, Leave, Again, Retry,
     Return, Goto, rwWords
<1>3. QED
  BY <1>1, <1>2, WordsKept

\* A step of the holder of the guard keeps the places.
LEMMA HolderPlaced ==
    ASSUME RwInv, NEW t \in Thread, at[t] = "held", pc[t] # "idle",
           NEW p \in {"work", "exit", "again"}, Then(t, p),
           mode' \in [Thread -> {"none", "read", "write"}]
    PROVE  RwPlaced'
<1>1. "none" \notin RwMethod
  BY DEF RwMethod
<1>2. QED
  BY <1>1, PlacedThen DEF RwInv, RwPlaced

\* Nobody but the holder of the guard has seen anything.
LEMMA OnlyHolder ==
    ASSUME RwInv, GuardHeld, NEW t \in Thread, at[t] = "held", NEW u \in Thread, pc[u] = "work"
    PROVE  u = t
  BY DEF RwInv, RwPlaced, Placed, GuardHeld

\* The two looks.
LEMMA LookStep ==
    ASSUME RwInv, GuardHeld, NEW t \in Thread, ReadLook(t) \/ WriteLook(t)
    PROVE  RwInv'
<1> USE DEF RwInv, ReadLook, WriteLook
<1>1. at[t] = "held" /\ pc[t] = "enter" /\ call[t] \in {"readLock", "writeLock"}
  BY DEF Holding
<1>2. PICK p \in {"work", "again"} :
        /\ Then(t, p)
        /\ p = "work" => writer = 0 /\ (call[t] = "writeLock" => readers = 0)
  BY DEF Holding
<1>3. RwPlaced'
  BY <1>1, <1>2, HolderPlaced DEF RwPlaced, rwWords
<1>4. Modes'
  BY <1>1, <1>2 DEF Modes, RwPlaced, Placed, Then, Goto, rwWords
<1>5. Seen'
  BY <1>1, <1>2, OnlyHolder DEF Seen, RwPlaced, Placed, Then, Goto, rwWords
<1>6. QED
  BY <1>3, <1>4, <1>5, WordsKept

\* readLock takes the lock: there is no writer, and t becomes a reader.
LEMMA ReadTakeStep ==
    ASSUME RwInv, GuardHeld, NEW t \in Thread, ReadTake(t)
    PROVE  RwInv' /\ Writers = {} /\ Writers' = {} /\ t \notin Readers /\ Readers' = Readers \cup {t}
<1> USE DEF RwInv, ReadTake, Working
<1>1. at[t] = "held" /\ writer = 0 /\ mode[t] = "none"
  BY DEF RwPlaced, Placed, Seen, Modes
<1>2. Writers = {} /\ Writers' = {} /\ t \notin Readers /\ Readers' = Readers \cup {t}
  BY <1>1 DEF Words, Writers, Readers, Holds, Hold, RwPlaced
<1>3. RwPlaced'
  BY <1>1, HolderPlaced DEF RwPlaced, Hold
<1>4. Modes' /\ Seen'
  BY <1>1, OnlyHolder DEF Modes, Seen, RwPlaced, Placed, Then, Goto, Hold
<1>5. Words'
  <2>1. Cardinality(Readers') = Cardinality(Readers) + 1
    BY <1>2, ReadersFinite, FS_AddElement
  <2>2. QED
    BY <1>1, <1>2, <2>1 DEF Words
<1>6. QED
  BY <1>2, <1>3, <1>4, <1>5

\* writeLock takes the lock: it is free, and t becomes the writer.
LEMMA WriteTakeStep ==
    ASSUME RwInv, GuardHeld, NEW t \in Thread, WriteTake(t)
    PROVE  RwInv' /\ Writers = {} /\ Writers' = {t} /\ Readers = {} /\ Readers' = {}
<1> USE DEF RwInv, WriteTake, Working
<1>1. at[t] = "held" /\ writer = 0 /\ readers = 0 /\ mode[t] = "none"
  BY DEF RwPlaced, Placed, Seen, Modes
<1>2. Writers = {} /\ Readers = {}
  BY <1>1, ReadersFinite DEF Words
<1>3. Writers' = {t} /\ Readers' = {}
  BY <1>1, <1>2 DEF Writers, Readers, Holds, Hold, RwPlaced
<1>4. RwPlaced'
  BY <1>1, HolderPlaced DEF RwPlaced, Hold
<1>5. Modes' /\ Seen'
  BY <1>1, OnlyHolder DEF Modes, Seen, RwPlaced, Placed, Then, Goto, Hold
<1>6. Words'
  BY <1>1, <1>2, <1>3 DEF Words
<1>7. QED
  BY <1>2, <1>3, <1>4, <1>5, <1>6

\* readUnlock: t is a reader, so there is no writer.
LEMMA ReadUnlockStep ==
    ASSUME RwInv, GuardHeld, NEW t \in Thread, ReadUnlock(t)
    PROVE  RwInv' /\ Writers = {} /\ Writers' = {} /\ t \in Readers /\ Readers' = Readers \ {t}
<1> USE DEF RwInv, ReadUnlock, Holding
<1>1. at[t] = "held" /\ pc[t] = "enter" /\ mode[t] = "read"
  BY DEF RwPlaced, Placed, Modes
<1>2. t \in Readers /\ Readers' = Readers \ {t}
  BY <1>1 DEF Readers, Holds, Hold, RwPlaced
<1>3. Writers = {} /\ Writers' = {}
  BY <1>1, <1>2 DEF Words, Writers, Holds, Hold, RwPlaced
<1>4. RwPlaced'
  BY <1>1, HolderPlaced DEF RwPlaced, Hold
<1>5. Modes' /\ Seen'
  BY <1>1, OnlyHolder DEF Modes, Seen, RwPlaced, Placed, Then, Goto, Hold
<1>6. Words'
  <2>1. Cardinality(Readers') = Cardinality(Readers) - 1
    BY <1>2, ReadersFinite, FS_RemoveElement
  <2>2. QED
    BY <1>2, <1>3, <2>1 DEF Words
<1>7. QED
  BY <1>2, <1>3, <1>4, <1>5, <1>6

\* writeUnlock: t is the writer, and there is no other.
LEMMA WriteUnlockStep ==
    ASSUME RwInv, GuardHeld, NEW t \in Thread, WriteUnlock(t)
    PROVE  RwInv' /\ Writers = {t} /\ Writers' = {} /\ Readers = {} /\ Readers' = {}
<1> USE DEF RwInv, WriteUnlock, Holding
<1>1. at[t] = "held" /\ pc[t] = "enter" /\ mode[t] = "write"
  BY DEF RwPlaced, Placed, Modes
<1>2. Writers = {t} /\ Readers = {}
  <2>1. t \in Writers
    BY <1>1 DEF Writers, Holds
  <2>2. QED
    BY <2>1 DEF Words
<1>3. Writers' = {} /\ Readers' = {}
  BY <1>1, <1>2 DEF Writers, Readers, Holds, Hold, RwPlaced
<1>4. RwPlaced'
  BY <1>1, HolderPlaced DEF RwPlaced, Hold
<1>5. Modes' /\ Seen'
  BY <1>1, OnlyHolder DEF Modes, Seen, RwPlaced, Placed, Then, Goto, Hold
<1>6. Words'
  <2>1. readers = 0 /\ readers' = 0 /\ writer' = 0
    BY <1>2, FS_EmptySet DEF Words
  <2>2. QED
    BY <1>3, <2>1, FS_EmptySet DEF Words
<1>7. QED
  BY <1>2, <1>3, <1>4, <1>5, <1>6

-----------------------------------------------------------------------------
\* What a step may do to the readers and the writers.
RwMove ==
    \/ UNCHANGED <<Readers, Writers>>
    \/ \E t \in Thread :
          \/ Writers = {} /\ Writers' = {} /\ t \notin Readers /\ Readers' = Readers \cup {t}
          \/ Writers = {} /\ Writers' = {} /\ t \in Readers /\ Readers' = Readers \ {t}
          \/ Readers = {} /\ Readers' = {} /\ Writers = {} /\ Writers' = {t}
          \/ Readers = {} /\ Readers' = {} /\ Writers = {t} /\ Writers' = {}

\* Every step keeps the invariant, and moves the readers and the writers in
\* one of these ways.
LEMMA RwInvNext == RwInv /\ GuardHeld /\ [RwNext]_rwVars => RwInv' /\ RwMove
<1> SUFFICES ASSUME RwInv, GuardHeld, [RwNext]_rwVars PROVE RwInv' /\ RwMove
  OBVIOUS
<1>1. ASSUME UNCHANGED rwWords PROVE RwMove
  BY <1>1, WordsKept DEF RwMove
<1>2. ASSUME NEW t \in Thread, RwCall(t) PROVE RwInv' /\ RwMove
  BY <1>1, <1>2, RwCallStep DEF RwCall
<1>3. ASSUME NEW t \in Thread, Around(t), UNCHANGED rwWords PROVE RwInv' /\ RwMove
  BY <1>1, <1>3, AroundStep
<1>4. ASSUME NEW t \in Thread, ReadLook(t) \/ WriteLook(t) PROVE RwInv' /\ RwMove
  BY <1>1, <1>4, LookStep DEF ReadLook, WriteLook
<1>5. ASSUME NEW t \in Thread, ReadTake(t) PROVE RwInv' /\ RwMove
  BY <1>5, ReadTakeStep DEF RwMove
<1>6. ASSUME NEW t \in Thread, WriteTake(t) PROVE RwInv' /\ RwMove
  BY <1>6, WriteTakeStep DEF RwMove
<1>7. ASSUME NEW t \in Thread, ReadUnlock(t) PROVE RwInv' /\ RwMove
  BY <1>7, ReadUnlockStep DEF RwMove
<1>8. ASSUME NEW t \in Thread, WriteUnlock(t) PROVE RwInv' /\ RwMove
  BY <1>8, WriteUnlockStep DEF RwMove
<1>9. CASE UNCHANGED rwVars
  <2>1. UNCHANGED <<guardVars, rwWords>>
    BY <1>9 DEF rwVars
  <2>2. RwPlaced'
    BY <2>1, PlacedStutter DEF RwInv, RwPlaced, rwWords
  <2>3. Modes' /\ Seen'
    BY <2>1 DEF RwInv, Modes, Seen, guardVars, rwWords
  <2>4. QED
    BY <1>1, <2>1, <2>2, <2>3, WordsKept DEF RwInv
<1>10. QED
  BY <1>2, <1>3, <1>4, <1>5, <1>6, <1>7, <1>8, <1>9 DEF RwNext, RwInside

\* The invariant holds in every reachable state.
LEMMA RwInvariance == RwSpec => []RwInv
  BY RwInvInit, RwInvNext, RwGuardHeld, PTL DEF RwSpec

-----------------------------------------------------------------------------
\* The words of the lock stay in range: the count of readers never falls
\* below 0 nor passes the number of threads, and the flag is 0 or 1.
THEOREM RwTypeCorrect == RwSpec => []RwTypeOK
<1>1. RwInv /\ GuardHeld => RwTypeOK
  <2>1. RwInv /\ GuardHeld => GuardTypeOK(RwMethod, {})
    BY DEF RwInv, RwPlaced, Placed, GuardHeld, GuardTypeOK
  <2>2. QED
    BY <2>1, ReadersFinite DEF RwInv, RwPlaced, Words, RwTypeOK
<1>2. QED
  BY <1>1, RwInvariance, RwGuardHeld, PTL

\* RwLock implements the readers-writer lock: never a reader beside a writer
\* nor two writers, and a call that returns has done its one change,
\* whatever the calls that overlap it.
THEOREM RwRefinement == RwSpec => ImplementsRwLock
<1>1. RwInit => AbstractRw!Init
  BY DEF RwInit, AbstractRw!Init, Holds
<1>2. RwInv /\ GuardHeld /\ [RwNext]_rwVars
        => [AbstractRw!Next]_<<Holds("read"), Holds("write")>>
  <2> SUFFICES ASSUME RwMove
               PROVE  [AbstractRw!Next]_<<Holds("read"), Holds("write")>>
    BY RwInvNext
  <2>1. CASE UNCHANGED <<Readers, Writers>>
    BY <2>1 DEF Readers, Writers
  <2>2. ASSUME NEW t \in Thread,
               \/ Writers = {} /\ Writers' = {} /\ t \notin Readers /\ Readers' = Readers \cup {t}
               \/ Writers = {} /\ Writers' = {} /\ t \in Readers /\ Readers' = Readers \ {t}
               \/ Readers = {} /\ Readers' = {} /\ Writers = {} /\ Writers' = {t}
               \/ Readers = {} /\ Readers' = {} /\ Writers = {t} /\ Writers' = {}
        PROVE  AbstractRw!Next
    BY <2>2 DEF AbstractRw!Next, AbstractRw!StartRead, AbstractRw!EndRead,
       AbstractRw!StartWrite, AbstractRw!EndWrite, Readers, Writers
  <2>3. QED
    BY <2>1, <2>2 DEF RwMove
<1>3. QED
  BY <1>1, <1>2, RwInvariance, RwGuardHeld, PTL
     DEF RwSpec, ImplementsRwLock, AbstractRw!Spec

-----------------------------------------------------------------------------
(***************************************************************************)
(* Semaphore neither loses permits nor makes them up, and never lends one  *)
(* it does not have.  The look at the count and its change are two steps   *)
(* which the guard makes one (PermitSeen).                                 *)
(***************************************************************************)
\* A thread that has seen a permit finds it there.
PermitSeen ==
    \A t \in Thread :
        /\ pc[t] = "work" => permits > 0
        /\ call[t] = "release" => pc[t] \in {"enter", "exit"}

SemCounts == permits \in Nat /\ taken \in Nat /\ given \in 0 .. MaxReleases

SemInv == Placed(SemMethod, {}) /\ SemCounts /\ PermitSeen /\ SemConserves

-----------------------------------------------------------------------------
\* The releases on their way are a finite set.
LEMMA OnTheWayFinite == IsFiniteSet(OnTheWay) /\ Cardinality(OnTheWay) \in Nat
<1>1. OnTheWay \in SUBSET Thread
  BY DEF OnTheWay
<1>2. IsFiniteSet(OnTheWay)
  BY <1>1, GuardedAssumption, FS_Subset DEF GuardedAssumption
<1>3. QED
  BY <1>2, FS_CardinalityType

\* No method is called "none", the mark of a thread in no method.
LEMMA SemMethods == "none" \notin SemMethod /\ {} \cap {"idle", "enter"} = {}
  BY DEF SemMethod

\* A step of the semaphore is a step of its guard, or leaves the guard alone.
LEMMA SemGuard == [SemNext]_semVars => [GuardNext]_<<word, at>>
<1> SUFFICES ASSUME [SemNext]_semVars PROVE [GuardNext]_<<word, at>>
  OBVIOUS
<1>1. ASSUME NEW t \in Thread, SemCall(t) \/ SemInside(t)
      PROVE  [GuardNext]_<<word, at>>
  <2>1. \/ \E m : Call(t, m)
        \/ Around(t)
        \/ \E p : Then(t, p)
    BY <1>1 DEF SemCall, SemInside, Acquire, TryAcquire, Look, Take, Release
  <2>2. QED
    BY <2>1, GuardMoves
<1>2. CASE UNCHANGED semVars
  BY <1>2 DEF semVars, guardVars
<1>3. QED
  BY <1>1, <1>2 DEF SemNext

\* So the guard excludes.
LEMMA SemGuardHeld == SemSpec => []GuardHeld
<1>1. SemInit => Guard!Init
  BY DEF SemInit, GuardInit
<1>2. QED
  BY <1>1, SemGuard, GuardExcludes, PTL DEF SemSpec

-----------------------------------------------------------------------------
\* A new semaphore satisfies the invariant.
LEMMA SemInvInit == SemInit => SemInv
<1> SUFFICES ASSUME SemInit PROVE SemInv
  OBVIOUS
<1> USE DEF SemInit
<1>1. Placed(SemMethod, {})
  BY PlacedInit
<1>2. SemCounts /\ PermitSeen
  BY SemaphoreAssumption DEF SemaphoreAssumption, SemCounts, PermitSeen, GuardInit
<1>3. OnTheWay = {}
  BY DEF OnTheWay, GuardInit
<1>4. SemConserves
  BY <1>3, FS_EmptySet, SemaphoreAssumption DEF SemaphoreAssumption, SemConserves
<1>5. QED
  BY <1>1, <1>2, <1>4 DEF SemInv

\* acquire and tryAcquire are called: no word changes.
LEMMA AcquireCallStep ==
    ASSUME SemInv, GuardHeld, NEW t \in Thread, UNCHANGED semWords,
           Call(t, "acquire") \/ Call(t, "tryAcquire")
    PROVE  SemInv'
<1> USE DEF SemInv, semWords
<1>1. Placed(SemMethod, {})'
  <2>1. \E m \in SemMethod : Call(t, m)
    BY DEF SemMethod
  <2>2. QED
    BY <2>1, SemMethods, PlacedAround
<1>2. SemCounts' /\ PermitSeen'
  BY DEF SemCounts, PermitSeen, Placed, Call, Goto
<1>3. OnTheWay' = OnTheWay
  BY DEF OnTheWay, Placed, Call, Idle, Goto
<1>4. QED
  BY <1>1, <1>2, <1>3 DEF SemConserves

\* release is called: one more is given, and on its way.
LEMMA ReleaseCallStep ==
    ASSUME SemInv, GuardHeld, NEW t \in Thread,
           given < MaxReleases, given' = given + 1, Call(t, "release"),
           UNCHANGED <<permits, taken>>
    PROVE  SemInv'
<1> USE DEF SemInv
<1>1. Placed(SemMethod, {})'
  <2>1. \E m \in SemMethod : Call(t, m)
    BY DEF SemMethod
  <2>2. QED
    BY <2>1, SemMethods, PlacedAround
<1>2. SemCounts' /\ PermitSeen'
  BY SemaphoreAssumption DEF SemaphoreAssumption, SemCounts, PermitSeen, Placed, Call, Goto
<1>3. t \notin OnTheWay /\ OnTheWay' = OnTheWay \cup {t}
  BY DEF OnTheWay, Placed, Call, Idle, Goto
<1>4. Cardinality(OnTheWay') = Cardinality(OnTheWay) + 1
  BY <1>3, OnTheWayFinite, FS_AddElement
<1>5. QED
  BY <1>1, <1>2, <1>4, OnTheWayFinite, SemaphoreAssumption
     DEF SemaphoreAssumption, SemConserves, SemCounts

\* The lock of the guard, and its release.
LEMMA SemAroundStep ==
    ASSUME SemInv, GuardHeld, NEW t \in Thread, Around(t), UNCHANGED semWords
    PROVE  SemInv'
<1> USE DEF SemInv, semWords
<1>1. Placed(SemMethod, {})'
  BY SemMethods, PlacedAround
<1>2. SemCounts' /\ PermitSeen'
  BY DEF SemCounts, PermitSeen, Placed, Around, Spin, Leave, Again, Retry, Return, Goto
<1>3. OnTheWay' = OnTheWay
  BY DEF OnTheWay, PermitSeen, Placed, Around, Spin, Leave, Again, Retry, Return, Goto
<1>4. QED
  BY <1>1, <1>2, <1>3 DEF SemConserves

\* acquire and tryAcquire look at the count.
LEMMA PermitLookStep ==
    ASSUME SemInv, GuardHeld, NEW t \in Thread, Acquire(t) \/ TryAcquire(t)
    PROVE  SemInv'
<1> USE DEF SemInv, Acquire, TryAcquire, semWords
<1>1. at[t] = "held" /\ pc[t] = "enter" /\ call[t] \in {"acquire", "tryAcquire"}
  BY DEF Holding
<1>2. PICK p \in {"work", "again", "exit"} : Then(t, p) /\ (p = "work" => permits > 0)
  BY DEF Look
<1>3. Placed(SemMethod, {})'
  BY <1>1, <1>2, SemMethods, PlacedThen
<1>4. SemCounts' /\ PermitSeen'
  BY <1>1, <1>2 DEF SemCounts, PermitSeen, Placed, Then, Goto
<1>5. OnTheWay' = OnTheWay
  BY <1>1, <1>2 DEF OnTheWay, Placed, Then, Goto
<1>6. QED
  BY <1>3, <1>4, <1>5 DEF SemConserves

\* They take the permit they saw, which is there.
LEMMA TakeStep ==
    ASSUME SemInv, GuardHeld, NEW t \in Thread, Take(t)
    PROVE  SemInv' /\ permits > 0
<1> USE DEF SemInv, Take, Working
<1>1. /\ at[t] = "held" /\ pc[t] = "work" /\ permits > 0
      /\ call[t] \in {"acquire", "tryAcquire"}
  BY DEF Placed, PermitSeen
<1>2. Placed(SemMethod, {})'
  BY <1>1, SemMethods, PlacedThen
<1>3. \A u \in Thread : pc[u] = "work" => u = t
  BY <1>1 DEF Placed, GuardHeld
<1>4. SemCounts' /\ PermitSeen'
  BY <1>1, <1>3 DEF SemCounts, PermitSeen, Placed, Then, Goto
<1>5. OnTheWay' = OnTheWay
  BY <1>1 DEF OnTheWay, Placed, Then, Goto
<1>6. QED
  BY <1>1, <1>2, <1>4, <1>5, OnTheWayFinite, SemaphoreAssumption
     DEF SemaphoreAssumption, SemConserves, SemCounts

\* release puts its permit into the count: it is no longer on its way.
LEMMA ReleaseStep ==
    ASSUME SemInv, GuardHeld, NEW t \in Thread, Release(t)
    PROVE  SemInv'
<1> USE DEF SemInv, Release
<1>1. at[t] = "held" /\ pc[t] = "enter" /\ call[t] = "release"
  BY DEF Holding
<1>2. Placed(SemMethod, {})'
  BY <1>1, SemMethods, PlacedThen
<1>3. SemCounts' /\ PermitSeen'
  BY <1>1 DEF SemCounts, PermitSeen, Placed, Then, Goto
<1>4. t \in OnTheWay /\ OnTheWay' = OnTheWay \ {t}
  BY <1>1 DEF OnTheWay, Placed, Then, Goto
<1>5. Cardinality(OnTheWay') = Cardinality(OnTheWay) - 1
  BY <1>4, OnTheWayFinite, FS_RemoveElement
<1>6. QED
  BY <1>2, <1>3, <1>5, OnTheWayFinite, SemaphoreAssumption
     DEF SemaphoreAssumption, SemConserves, SemCounts

-----------------------------------------------------------------------------
\* Every step keeps the invariant.
LEMMA SemInvNext == SemInv /\ GuardHeld /\ [SemNext]_semVars => SemInv'
<1> SUFFICES ASSUME SemInv, GuardHeld, [SemNext]_semVars PROVE SemInv'
  OBVIOUS
<1>1. ASSUME NEW t \in Thread, SemCall(t) PROVE SemInv'
  BY <1>1, AcquireCallStep, ReleaseCallStep DEF SemCall
<1>2. ASSUME NEW t \in Thread, SemInside(t) PROVE SemInv'
  BY <1>2, SemAroundStep, PermitLookStep, TakeStep, ReleaseStep DEF SemInside
<1>3. CASE UNCHANGED semVars
  <2>1. Placed(SemMethod, {})'
    BY <1>3, PlacedStutter DEF SemInv, semVars
  <2>2. QED
    BY <1>3, <2>1 DEF SemInv, semVars, guardVars, semWords, SemCounts,
       PermitSeen, SemConserves, OnTheWay
<1>4. QED
  BY <1>1, <1>2, <1>3 DEF SemNext

\* The invariant holds in every reachable state.
LEMMA SemInvariance == SemSpec => []SemInv
  BY SemInvInit, SemInvNext, SemGuardHeld, PTL DEF SemSpec

\* The count of permits never falls below 0, whatever overlaps, nor passes
\* what the semaphore was made with and was given.
THEOREM SemTypeCorrect == SemSpec => []SemTypeOK
<1>1. SemInv /\ GuardHeld => SemTypeOK
  <2>1. SemInv /\ GuardHeld => GuardTypeOK(SemMethod, {})
    BY DEF SemInv, Placed, GuardHeld, GuardTypeOK
  <2>2. SemInv => permits \in 0 .. Permits + MaxReleases
    BY OnTheWayFinite, SemaphoreAssumption
       DEF SemaphoreAssumption, SemInv, SemConserves, SemCounts
  <2>3. QED
    BY <2>1, <2>2 DEF SemInv, SemCounts, SemTypeOK
<1>2. QED
  BY <1>1, SemInvariance, SemGuardHeld, PTL

\* The permits taken and those left are those the semaphore was made with
\* and those released.
THEOREM Conservation == SemSpec => []SemConserves
<1>1. SemInv => SemConserves
  BY DEF SemInv
<1>2. QED
  BY <1>1, SemInvariance, PTL

-----------------------------------------------------------------------------
(***************************************************************************)
(* add, sub and cas of Atomic lose no update of each other, and lose       *)
(* nothing to a store that does not fall between their read and their      *)
(* write.  What a section has read is still in the word, unless a store    *)
(* fell into it (Fresh); no other section writes in between.               *)
(***************************************************************************)
AtPlaced ==
    /\ Placed({"add", "cas"}, {"write"})
    /\ seen = [t \in Thread |-> seen[t]]
    /\ overlapped \in [Thread -> BOOLEAN]

\* What a section has read is in the word until it writes.
Fresh ==
    \A t \in Thread : t \in Updating /\ ~overlapped[t] => seen[t] = value

AtInv == AtPlaced /\ Fresh

-----------------------------------------------------------------------------
\* The place between the read and the write is under the guard.
LEMMA WritePlace == {"write"} \cap {"idle", "enter"} = {} /\ "none" \notin {"add", "cas"}
  OBVIOUS

\* A step of the object is a step of its guard, or leaves the guard alone.
LEMMA AtGuard == [AtNext]_atVars => [GuardNext]_<<word, at>>
<1> SUFFICES ASSUME [AtNext]_atVars PROVE [GuardNext]_<<word, at>>
  OBVIOUS
<1>1. ASSUME NEW t \in Thread, AtCall(t) \/ Store(t) \/ AtInside(t)
      PROVE  [GuardNext]_<<word, at>>
  <2>1. \/ \E m : Call(t, m)
        \/ Around(t)
        \/ \E p : Then(t, p)
        \/ UNCHANGED guardVars
    BY <1>1 DEF AtCall, Store, AtInside, AtRead, AtWrite
  <2>2. QED
    BY <2>1, GuardMoves
<1>2. CASE UNCHANGED atVars
  BY <1>2 DEF atVars, guardVars
<1>3. QED
  BY <1>1, <1>2 DEF AtNext

\* So the guard excludes.
LEMMA AtGuardHeld == AtSpec => []GuardHeld
<1>1. AtInit => Guard!Init
  BY DEF AtInit, GuardInit
<1>2. QED
  BY <1>1, AtGuard, GuardExcludes, PTL DEF AtSpec

\* One section at a time is between its read and its write.
LEMMA OneSection ==
    ASSUME AtInv, GuardHeld, NEW t \in Thread, at[t] = "held",
           NEW u \in Updating
    PROVE  u = t
  BY DEF AtInv, AtPlaced, Placed, GuardHeld, Updating

-----------------------------------------------------------------------------
\* A new object satisfies the invariant.
LEMMA AtInvInit == AtInit => AtInv
<1> SUFFICES ASSUME AtInit PROVE AtInv
  OBVIOUS
<1>1. Placed({"add", "cas"}, {"write"})
  BY PlacedInit, WritePlace DEF AtInit
<1>2. Updating = {}
  BY DEF AtInit, GuardInit, Updating
<1>3. QED
  BY <1>1, <1>2 DEF AtInit, AtInv, AtPlaced, Fresh

\* A call of add, sub or cas has read nothing yet.
LEMMA AtCallStep ==
    ASSUME AtInv, GuardHeld, NEW t \in Thread, AtCall(t)
    PROVE  AtInv'
<1> USE DEF AtInv, AtPlaced, AtCall
<1>1. \E m \in {"add", "cas"} : Call(t, m)
  BY AtomicAssumption DEF AtomicAssumption, AtomicMethod
<1>2. Placed({"add", "cas"}, {"write"})'
  BY <1>1, PlacedAround, WritePlace
<1>3. Updating' = Updating
  BY <1>1 DEF Updating, Call, Idle, Goto, Placed
<1>4. QED
  BY <1>2, <1>3 DEF Fresh

\* A store marks the sections it falls into.
LEMMA StoreStep ==
    ASSUME AtInv, NEW t \in Thread, Store(t)
    PROVE  AtInv'
<1> USE DEF AtInv, AtPlaced, Store
<1>1. Placed({"add", "cas"}, {"write"})'
  BY PlacedStutter
<1>2. Updating' = Updating
  BY DEF Updating, guardVars
<1>3. Fresh'
  BY <1>2 DEF Fresh, Updating
<1>4. QED
  BY <1>1, <1>3

\* The lock of the guard, and its release.
LEMMA AtAroundStep ==
    ASSUME AtInv, GuardHeld, NEW t \in Thread, Around(t), UNCHANGED atWords
    PROVE  AtInv'
<1> USE DEF AtInv, AtPlaced, atWords
<1>1. Placed({"add", "cas"}, {"write"})'
  BY PlacedAround, WritePlace
<1>2. Updating' = Updating
  BY DEF Updating, Placed, Around, Spin, Leave, Again, Retry, Return, Goto
<1>3. QED
  BY <1>1, <1>2 DEF Fresh

\* The read of a section.
LEMMA AtReadStep ==
    ASSUME AtInv, GuardHeld, NEW t \in Thread, AtRead(t)
    PROVE  AtInv'
<1> USE DEF AtInv, AtPlaced, AtRead, Holding
<1>1. Placed({"add", "cas"}, {"write"})'
  BY PlacedThen, WritePlace
<1>2. Updating' = Updating \cup {t}
  BY DEF Updating, Then, Goto, Placed
<1>3. Fresh'
  BY <1>2, OneSection DEF Fresh
<1>4. QED
  BY <1>1, <1>3

\* Its write: there is no other section to disturb.
LEMMA AtWriteStep ==
    ASSUME AtInv, GuardHeld, NEW t \in Thread, AtWrite(t)
    PROVE  AtInv'
<1> USE DEF AtInv, AtPlaced, AtWrite
<1>1. at[t] = "held" /\ pc[t] # "idle"
  BY DEF Updating, Placed
<1>2. Placed({"add", "cas"}, {"write"})'
  BY <1>1, PlacedThen, WritePlace
<1>3. Updating' = {}
  BY <1>1, OneSection DEF Updating, Then, Goto, Placed
<1>4. QED
  BY <1>2, <1>3 DEF Fresh

-----------------------------------------------------------------------------
\* Every step keeps the invariant.
LEMMA AtInvNext == AtInv /\ GuardHeld /\ [AtNext]_atVars => AtInv'
<1> SUFFICES ASSUME AtInv, GuardHeld, [AtNext]_atVars PROVE AtInv'
  OBVIOUS
<1>1. ASSUME NEW t \in Thread, AtCall(t) \/ Store(t) PROVE AtInv'
  BY <1>1, AtCallStep, StoreStep
<1>2. ASSUME NEW t \in Thread, AtInside(t) PROVE AtInv'
  BY <1>2, AtAroundStep, AtReadStep, AtWriteStep DEF AtInside
<1>3. CASE UNCHANGED atVars
  <2>1. Placed({"add", "cas"}, {"write"})'
    BY <1>3, PlacedStutter DEF AtInv, AtPlaced, atVars
  <2>2. QED
    BY <1>3, <2>1 DEF AtInv, AtPlaced, Fresh, Updating, atVars, atWords, guardVars
<1>4. QED
  BY <1>1, <1>2, <1>3 DEF AtNext

\* The invariant holds in every reachable state.
LEMMA AtInvariance == AtSpec => []AtInv
  BY AtInvInit, AtInvNext, AtGuardHeld, PTL DEF AtSpec

\* A section that no store fell into writes what its update makes of the
\* value in the word at that moment.
THEOREM UpdatesAtomic == AtSpec => AtomicUpdates
<1>1. ASSUME AtInv, NEW t \in Thread, AtWrite(t), ~overlapped[t]
      PROVE  value' = Result(arg[t], value)
  <2>1. seen[t] = value
    BY <1>1 DEF AtInv, Fresh, AtWrite
  <2>2. CASE arg[t].method = "cas" /\ value # arg[t].expected
    BY <1>1, <2>1, <2>2 DEF AtWrite, Result
  <2>3. CASE ~(arg[t].method = "cas" /\ value # arg[t].expected)
    BY <1>1, <2>1, <2>3 DEF AtWrite
  <2>4. QED
    BY <2>2, <2>3
<1>2. AtInv => \A t \in Thread :
                  AtWrite(t) /\ ~overlapped[t] => value' = Result(arg[t], value)
  BY <1>1
<1>3. QED
  BY <1>2, AtInvariance, PTL DEF AtomicUpdates

-----------------------------------------------------------------------------
\* What AtInv leaves open of the types, and that a call is the one of its argument.
AtArgs ==
    /\ value \in Int /\ seen \in [Thread -> Int]
    /\ arg \in [Thread -> Update] /\ updates \in 0 .. MaxUpdates
    /\ \A t \in Thread : call[t] # "none" => arg[t].method = call[t]

\* A step around the section leaves its argument, until the method returns.
LEMMA AtArgsAround ==
    ASSUME AtInv, AtArgs, NEW t \in Thread, Around(t), UNCHANGED atWords
    PROVE  AtArgs'
<1>1. \A u \in Thread : call'[u] = call[u] \/ call'[u] = "none"
  BY DEF AtInv, AtPlaced, Placed, Around, Spin, Leave, Again, Retry, Return, Goto
<1>2. QED
  BY <1>1 DEF AtArgs, atWords

\* What a call makes of a number is a number.
LEMMA ResultIsNumber ==
    ASSUME NEW u \in AtomicMethod, u.method \in {"add", "cas"}, NEW old \in Int
    PROVE  Result(u, old) \in Int
  BY DEF AtomicMethod, Result

\* The word of an Atomic is a number, and so is all that a section reads.
THEOREM AtTypeCorrect == AtSpec => []AtTypeOK
<1>1. AtInit => AtArgs
  <2> SUFFICES ASSUME AtInit PROVE AtArgs
    OBVIOUS
  <2>1. (CHOOSE u \in Update : TRUE) \in Update
    BY AtomicAssumption DEF AtomicAssumption
  <2>2. QED
    BY <2>1, AtomicAssumption DEF AtomicAssumption, AtInit, GuardInit, AtArgs
<1>2. AtInv /\ AtArgs /\ [AtNext]_atVars => AtArgs'
  <2> SUFFICES ASSUME AtInv, AtArgs, [AtNext]_atVars PROVE AtArgs'
    OBVIOUS
  <2> USE AtomicAssumption DEF AtomicAssumption, AtArgs
  <2>1. CASE UNCHANGED atVars
    BY <2>1 DEF atVars, guardVars, atWords
  <2>2. ASSUME NEW t \in Thread, AtCall(t) PROVE AtArgs'
    <3>1. PICK u \in Update : arg' = [arg EXCEPT ![t] = u] /\ Call(t, u.method)
      BY <2>2 DEF AtCall
    <3>2. call' = [call EXCEPT ![t] = u.method]
      BY <3>1 DEF Call
    <3>3. \A v \in Thread : call'[v] # "none" => arg'[v].method = call'[v]
      BY <3>1, <3>2 DEF AtInv, AtPlaced, Placed
    <3>4. QED
      BY <2>2, <3>1, <3>3 DEF AtCall
  <2>3. ASSUME NEW t \in Thread, Store(t) PROVE AtArgs'
    BY <2>3 DEF Store, guardVars, AtomicMethod
  <2>4. ASSUME NEW t \in Thread, AtRead(t) PROVE AtArgs'
    BY <2>4 DEF AtRead, Then
  <2>5. ASSUME NEW t \in Thread, AtWrite(t) PROVE AtArgs'
    <3>1. pc[t] = "write" /\ call[t] \in {"add", "cas"}
      BY <2>5 DEF AtWrite, Updating, AtInv, AtPlaced, Placed
    <3>2. arg[t].method \in {"add", "cas"} /\ arg[t] \in AtomicMethod
      BY <3>1
    <3>3. Result(arg[t], seen[t]) \in Int
      BY <3>2, ResultIsNumber
    <3>4. QED
      BY <2>5, <3>3 DEF AtWrite, Then
  <2>6. QED
    BY <2>1, <2>2, <2>3, <2>4, <2>5, AtArgsAround DEF AtNext, AtInside
<1>3. AtInv /\ AtArgs /\ GuardHeld => AtTypeOK
  BY DEF AtInv, AtPlaced, Placed, GuardHeld, AtArgs, AtTypeOK, GuardTypeOK
<1>4. QED
  BY <1>1, <1>2, <1>3, AtInvariance, AtGuardHeld, PTL DEF AtSpec

-----------------------------------------------------------------------------
(***************************************************************************)
(* Condvar: no signal is lost on a thread that waits.  The wait compares   *)
(* with a generation read before it gave up the mutex, and a signal only   *)
(* counts up.                                                              *)
(***************************************************************************)

\* What a thread observed is the generation or an earlier one, and an earlier
\* one when a signal came since.
Observed ==
    /\ generation \in Nat /\ observed \in [Thread -> Nat]
    /\ signalled \in [Thread -> BOOLEAN]
    /\ \A t \in Thread :
          /\ observed[t] <= generation
          /\ signalled[t] => observed[t] < generation

\* A waiting thread that a signal came for reads another generation than it
\* observed, at every look from then on: it is free to stop spinning.
SignalSeen == \A t \in Waiting : signalled[t] => generation # observed[t]

\* Only an observation and a signal touch these words.
LEMMA ObservedNext == Observed /\ [CvNext]_cvVars => Observed'
<1> SUFFICES ASSUME Observed, [CvNext]_cvVars PROVE Observed'
  OBVIOUS
<1>1. CASE UNCHANGED <<generation, observed, signalled>>
  BY <1>1 DEF Observed
<1>2. ASSUME NEW t \in Thread, Observe(t)
      PROVE  Observed'
  BY <1>2 DEF Observe, Observed
<1>3. ASSUME NEW t \in Thread, Signal(t)
      PROVE  Observed'
  <2>1. /\ generation' = generation + 1 /\ UNCHANGED observed
        /\ signalled' \in [Thread -> BOOLEAN]
    BY <1>3 DEF Signal, Observed
  <2>2. QED
    BY <2>1 DEF Observed
<1>4. ASSUME NEW t \in Thread,
             CvLock(t) \/ CvUnlock(t) \/ CvCall(t) \/ (CvInside(t) /\ ~Observe(t) /\ ~Signal(t))
      PROVE  UNCHANGED <<generation, observed, signalled>>
  BY <1>4 DEF CvLock, CvUnlock, CvCall, CvInside, CvMutexSpin, CvLeave, WaitUnlock,
     WaitPass, WaitReturn, cvWords, cvData
<1>5. QED
  BY <1>1, <1>2, <1>3, <1>4 DEF CvNext, CvInside, cvVars, cvWords

\* Condvar.signal reaches every thread that waits, whatever is signalled
\* later and whoever observes meanwhile.
THEOREM SignalReaches == CvSpec => []SignalSeen
<1>1. CvInit => Observed
  BY DEF CvInit, Observed
<1>2. Observed => SignalSeen
  BY DEF Observed, SignalSeen, Waiting
<1>3. QED
  BY <1>1, <1>2, ObservedNext, PTL DEF CvSpec
-----------------------------------------------------------------------------
\* The mutex of the waits is a spin lock too.
ProvedMutex == INSTANCE SpinLockProofs WITH word <- mword, at <- mat

\* The steps of the lock it takes.
MutexNext ==
    \E t \in Thread :
        Mutex!CallLock(t) \/ Mutex!ProbeLock(t) \/ Mutex!UndoLock(t) \/ Mutex!Unlock(t)

MutexTyped == mword \in 0 .. Cardinality(Thread) /\ mat \in [Thread -> Mutex!Place]

\* In each step of the condition variable the guard moves like a lock or not at all.
LEMMA CvGuard == [CvNext]_cvVars => [GuardNext]_<<word, at>>
<1> SUFFICES ASSUME [CvNext]_cvVars PROVE [GuardNext]_<<word, at>>
  OBVIOUS
<1>1. CASE UNCHANGED cvVars
  BY <1>1 DEF cvVars, guardVars
<1>2. ASSUME NEW t \in Thread, CvLock(t) \/ CvUnlock(t) \/ CvCall(t)
      PROVE  [GuardNext]_<<word, at>>
  BY <1>2, GuardMoves DEF CvLock, CvUnlock, CvCall
<1>3. ASSUME NEW t \in Thread, CvInside(t)
      PROVE  [GuardNext]_<<word, at>>
  BY <1>3 DEF CvInside, Spin, CvMutexSpin, Observe, Signal, CvLeave, WaitUnlock, WaitPass,
     WaitReturn, Then, guardVars, GuardNext
<1>4. QED
  BY <1>1, <1>2, <1>3 DEF CvNext

\* And so does the mutex.
LEMMA CvMutex == [CvNext]_cvVars => [MutexNext]_<<mword, mat>>
<1> SUFFICES ASSUME [CvNext]_cvVars PROVE [MutexNext]_<<mword, mat>>
  OBVIOUS
<1>1. CASE UNCHANGED cvVars
  BY <1>1 DEF cvVars, cvWords
<1>2. ASSUME NEW t \in Thread, CvLock(t) \/ CvUnlock(t) \/ CvCall(t)
      PROVE  [MutexNext]_<<mword, mat>>
  BY <1>2 DEF CvLock, CvUnlock, CvCall, cvWords, MutexNext
<1>3. ASSUME NEW t \in Thread, CvInside(t)
      PROVE  [MutexNext]_<<mword, mat>>
  BY <1>3 DEF CvInside, CvMutexSpin, Observe, Signal, CvLeave, WaitUnlock, WaitPass,
     WaitReturn, cvWords, MutexNext
<1>4. QED
  BY <1>1, <1>2, <1>3 DEF CvNext

\* So what SpinLockProofs says of a lock holds of the guard,
LEMMA CvGuardHeld == CvSpec => []GuardHeld
<1>1. CvInit => Guard!Init
  BY DEF CvInit, GuardInit
<1>2. QED
  BY <1>1, CvGuard, GuardExcludes, PTL DEF CvSpec

\* and of the mutex.
LEMMA CvMutexTyped == CvSpec => []MutexTyped
<1>1. CvInit => ProvedMutex!Init
  BY DEF CvInit, Mutex!Init, ProvedMutex!Init
<1>2. [MutexNext]_<<mword, mat>> => [ProvedMutex!Next]_<<mword, mat>>
  BY DEF MutexNext, Mutex!CallLock, Mutex!ProbeLock, Mutex!UndoLock,
     Mutex!Unlock, Mutex!Probe, Mutex!FetchAdd, Mutex!Goto,
     ProvedMutex!CallLock, ProvedMutex!ProbeLock, ProvedMutex!UndoLock,
     ProvedMutex!Unlock, ProvedMutex!Probe, ProvedMutex!FetchAdd, ProvedMutex!Goto,
     ProvedMutex!Next
<1>3. ProvedMutex!ThreadAssumption
  BY GuardedAssumption DEF ProvedMutex!ThreadAssumption, GuardedAssumption,
     IsFiniteSet, ProvedMutex!IsFiniteSet
<1>4. ProvedMutex!Spec => []ProvedMutex!TypeOK
  BY <1>3, ProvedMutex!TypeCorrect
<1>5. ProvedMutex!TypeOK => MutexTyped
  BY DEF ProvedMutex!TypeOK, ProvedMutex!Place, MutexTyped, Mutex!Place,
     Cardinality, ProvedMutex!Cardinality
<1>6. QED
  BY <1>1, <1>2, <1>4, <1>5, CvMutex, PTL DEF CvSpec, ProvedMutex!Spec, ProvedMutex!vars

\* What a thread is in, and where.
CvPlaced ==
    /\ call \in [Thread -> {"wait", "signal", "none"}]
    /\ pc \in [Thread -> CvPlace \cup {"idle", "enter", "work", "exit", "again"}]
    /\ signals \in 0 .. MaxSignals

\* The state of a condition variable has its types.
THEOREM CvTypeCorrect == CvSpec => []CvTypeOK
<1>1. CvInit => CvPlaced /\ Observed
  BY CondvarAssumption DEF CondvarAssumption, CvInit, GuardInit, CvPlaced, Observed
<1>2. CvPlaced /\ [CvNext]_cvVars => CvPlaced'
  <2> SUFFICES ASSUME CvPlaced, [CvNext]_cvVars PROVE CvPlaced'
    OBVIOUS
  <2> USE DEF CvPlaced
  <2>1. CASE UNCHANGED cvVars
    BY <2>1 DEF cvVars, guardVars, cvWords
  <2>2. ASSUME NEW t \in Thread, CvLock(t) \/ CvUnlock(t) \/ CvCall(t) PROVE CvPlaced'
    BY <2>2, CondvarAssumption DEF CondvarAssumption, CvLock, CvUnlock, CvCall, Call, Goto,
       guardVars, cvWords, cvData
  <2>3. ASSUME NEW t \in Thread, CvInside(t) PROVE CvPlaced'
    <3>1. UNCHANGED signals
      BY <2>3 DEF CvInside, CvMutexSpin, Observe, Signal, CvLeave, WaitUnlock, WaitPass,
         WaitReturn, cvWords, cvData
    <3>2. /\ UNCHANGED call \/ call' = [call EXCEPT ![t] = "none"]
          /\ UNCHANGED pc \/ \E p \in CvPlace \cup {"idle", "exit"} : pc' = [pc EXCEPT ![t] = p]
      BY <2>3 DEF CvInside, Spin, CvMutexSpin, Observe, Signal, CvLeave, WaitUnlock, WaitPass,
         WaitReturn, Then, Return, Goto, guardVars, CvPlace
    <3>3. QED
      BY <3>1, <3>2
  <2>4. QED
    BY <2>1, <2>2, <2>3 DEF CvNext
<1>3. CvPlaced /\ Observed /\ GuardHeld /\ MutexTyped => CvTypeOK
  BY DEF CvPlaced, Observed, GuardHeld, MutexTyped, CvTypeOK, GuardTypeOK
<1>4. QED
  BY <1>1, <1>2, <1>3, ObservedNext, CvGuardHeld, CvMutexTyped, PTL DEF CvSpec

-----------------------------------------------------------------------------
(***************************************************************************)
(* The program of the runs, which uses one object of one of the classes,   *)
(* is a program of that class.                                             *)
(***************************************************************************)
LEMMA ClassAlone ==
    MCSpec => \/ RwSpec /\ [](class = "RwLock")
              \/ SemSpec /\ [](class = "Semaphore")
              \/ AtSpec /\ [](class = "Atomic")
              \/ CvSpec /\ [](class = "Condvar")
<1>1. MCInit => /\ class \in {"RwLock", "Semaphore", "Atomic", "Condvar"}
                /\ RwInit /\ SemInit /\ AtInit /\ CvInit
  BY DEF MCInit, Class
<1>2. class \in {"RwLock", "Semaphore", "Atomic", "Condvar"} =>
          class = "RwLock" \/ class = "Semaphore" \/ class = "Atomic" \/ class = "Condvar"
  OBVIOUS
<1>3. class = "RwLock" /\ [MCNext]_mcVars => (class = "RwLock")' /\ [RwNext]_rwVars
  BY DEF MCNext, mcVars, rwVars
<1>4. class = "Semaphore" /\ [MCNext]_mcVars => (class = "Semaphore")' /\ [SemNext]_semVars
  BY DEF MCNext, mcVars, semVars
<1>5. class = "Atomic" /\ [MCNext]_mcVars => (class = "Atomic")' /\ [AtNext]_atVars
  BY DEF MCNext, mcVars, atVars
<1>6. class = "Condvar" /\ [MCNext]_mcVars => (class = "Condvar")' /\ [CvNext]_cvVars
  BY DEF MCNext, mcVars, cvVars
<1>7. QED
  BY <1>1, <1>2, <1>3, <1>4, <1>5, <1>6, PTL DEF MCSpec, RwSpec, SemSpec, AtSpec, CvSpec

\* The words of the guard and of the object in use have their types.
THEOREM ClassTypes == MCSpec => []MCTypeOK
<1>1. class = "RwLock" /\ RwTypeOK => MCTypeOK
  BY DEF MCTypeOK
<1>2. class = "Semaphore" /\ SemTypeOK => MCTypeOK
  BY DEF MCTypeOK
<1>3. class = "Atomic" /\ AtTypeOK => MCTypeOK
  BY DEF MCTypeOK
<1>4. class = "Condvar" /\ CvTypeOK => MCTypeOK
  BY DEF MCTypeOK
<1>5. QED
  BY <1>1, <1>2, <1>3, <1>4, ClassAlone, RwTypeCorrect, SemTypeCorrect, AtTypeCorrect,
     CvTypeCorrect, PTL
=============================================================================
