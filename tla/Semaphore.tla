------------------------------ MODULE Semaphore -----------------------------
(***************************************************************************)
(* Semaphore.aura: a guard and a count of permits, which is read and       *)
(* written under the guard (`count` reads it without, and changes          *)
(* nothing).                                                               *)
(***************************************************************************)
EXTENDS Guarded

CONSTANTS
    Permits,        \* the argument of Semaphore.new
    MaxReleases     \* bound: releases in a behaviour

ASSUME SemaphoreAssumption == Permits \in Nat /\ MaxReleases \in Nat

VARIABLES
    permits,
    taken,          \* history: calls that took a permit
    given           \* history: calls of release, from their start

semWords == <<permits, taken, given>>
semVars == <<guardVars, semWords>>

SemMethod == {"acquire", "tryAcquire", "release"}

SemInit ==
    /\ GuardInit
    /\ permits = Permits
    /\ taken = 0
    /\ given = 0

\* Any thread may release, whether it has acquired or not.
SemCall(t) ==
    \/ /\ Call(t, "acquire") \/ Call(t, "tryAcquire")
       /\ UNCHANGED semWords
    \/ /\ given < MaxReleases
       /\ given' = given + 1
       /\ Call(t, "release")
       /\ UNCHANGED <<permits, taken>>

\* Slip: the count is tested with >= 0.
LookOffByOne(t, otherwise) == Then(t, IF permits >= 0 THEN "work" ELSE otherwise)

\* A permit is there, or not.
Look(t, otherwise) == Then(t, IF permits > 0 THEN "work" ELSE otherwise)

\* acquire: a permit, or once more.
Acquire(t) == Holding(t, "acquire") /\ Look(t, "again") /\ UNCHANGED semWords

\* tryAcquire: a permit, or false.
TryAcquire(t) == Holding(t, "tryAcquire") /\ Look(t, "exit") /\ UNCHANGED semWords

Take(t) ==
    /\ Working(t, "acquire") \/ Working(t, "tryAcquire")
    /\ permits' = permits - 1
    /\ taken' = taken + 1
    /\ Then(t, "exit")
    /\ UNCHANGED given

\* Slip: the release is a store to the count read before the guard was
\* taken, which another call may have changed: at worst its effect is lost.
ReleaseLost(t) ==
    /\ Holding(t, "release")
    /\ permits' \in {permits, permits + 1}
    /\ Then(t, "exit")
    /\ UNCHANGED <<taken, given>>

Release(t) ==
    /\ Holding(t, "release")
    /\ permits' = permits + 1
    /\ Then(t, "exit")
    /\ UNCHANGED <<taken, given>>

-----------------------------------------------------------------------------
SemInside(t) ==
    \/ Around(t) /\ UNCHANGED semWords
    \/ Acquire(t)
    \/ TryAcquire(t)
    \/ Take(t)
    \/ Release(t)

SemNext == \E t \in Thread : SemCall(t) \/ SemInside(t)

SemSpec == SemInit /\ [][SemNext]_semVars

-----------------------------------------------------------------------------
SemTypeOK ==
    /\ GuardTypeOK(SemMethod, {})
    /\ permits \in 0 .. Permits + MaxReleases
    /\ taken \in Nat
    /\ given \in 0 .. MaxReleases

\* The releases called whose permit is not in the count yet.
OnTheWay == {t \in Thread : call[t] = "release" /\ pc[t] = "enter"}

\* Permits are neither lost nor made up, however acquire, tryAcquire and
\* release overlap: those taken and those left are those the semaphore was
\* made with and those given back.
SemConserves ==
    permits + taken = Permits + given - Cardinality(OnTheWay)
=============================================================================
