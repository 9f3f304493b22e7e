------------------------------ MODULE MCGuarded -----------------------------
(***************************************************************************)
(* Threads that use one object of one of the classes built on the guard:   *)
(* which one is chosen at the start and the words of the others stay as    *)
(* they are.                                                               *)
(***************************************************************************)
EXTENDS RwLock, Semaphore, Atomic, Condvar

VARIABLE class      \* the object's class

MCUpdate ==
    {[method |-> "add", delta |-> 1],
     [method |-> "cas", expected |-> 0, desired |-> 3],
     [method |-> "store", to |-> 0]}

Class == {"RwLock", "Semaphore", "Atomic", "Condvar"}

MCInit == class \in Class /\ RwInit /\ SemInit /\ AtInit /\ CvInit

MCNext ==
    /\ UNCHANGED class
    /\ \/ class = "RwLock" /\ RwNext /\ UNCHANGED <<semWords, atWords, cvWords>>
       \/ class = "Semaphore" /\ SemNext /\ UNCHANGED <<rwWords, atWords, cvWords>>
       \/ class = "Atomic" /\ AtNext /\ UNCHANGED <<rwWords, semWords, cvWords>>
       \/ class = "Condvar" /\ CvNext /\ UNCHANGED <<rwWords, semWords, atWords>>

mcVars == <<class, guardVars, rwWords, semWords, atWords, cvWords>>

\* What thread t does next inside its call, whatever the class.
MCInside(t) ==
    /\ UNCHANGED class
    /\ \/ class = "RwLock" /\ RwInside(t) /\ UNCHANGED <<semWords, atWords, cvWords>>
       \/ class = "Semaphore" /\ SemInside(t) /\ UNCHANGED <<rwWords, atWords, cvWords>>
       \/ class = "Atomic" /\ AtInside(t) /\ UNCHANGED <<rwWords, semWords, cvWords>>
       \/ class = "Condvar" /\ CvInside(t) /\ UNCHANGED <<rwWords, semWords, atWords>>

MCSpec == MCInit /\ [][MCNext]_mcVars

\* Every thread inside a call keeps running.
MCFairSpec == MCSpec /\ \A t \in Thread : WF_mcVars(MCInside(t))

\* The words of the object in use have their types.
MCTypeOK ==
    CASE class = "RwLock"    -> RwTypeOK
      [] class = "Semaphore" -> SemTypeOK
      [] class = "Atomic"    -> AtTypeOK
      [] class = "Condvar"   -> CvTypeOK
=============================================================================
