-------------------------------- MODULE Atomic ------------------------------
(***************************************************************************)
(* Atomic.aura: a value and a guard.  add, sub and cas read the value and  *)
(* write it back under the guard; store writes it without, so it can fall  *)
(* between their read and their write.  (load reads it without, and        *)
(* changes nothing.)                                                       *)
(***************************************************************************)
EXTENDS Guarded

CONSTANTS
    Initial,        \* the argument of Atomic.new
    Update,         \* the calls made, of the form of AtomicMethod below
    MaxUpdates      \* bound: calls in a behaviour

VARIABLES
    value,
    arg,            \* arg[t]: the call t is in, or its last
    seen,           \* seen[t]: the local `word` or `cur` of that call
    updates,        \* the number of calls made
    overlapped      \* history: overlapped[t], a store fell into t's section

atWords == <<value, arg, seen, updates, overlapped>>
atVars == <<guardVars, atWords>>

\* sub(delta) is add(-delta), in the code too.
AtomicMethod ==
    [method : {"add"}, delta : Int]
        \cup [method : {"cas"}, expected : Int, desired : Int]
        \cup [method : {"store"}, to : Int]

ASSUME AtomicAssumption ==
    Initial \in Int /\ Update \subseteq AtomicMethod /\ Update # {} /\ MaxUpdates \in Nat

AtInit ==
    /\ GuardInit
    /\ value = Initial
    /\ arg \in [Thread -> {CHOOSE u \in Update : TRUE}]
    /\ seen = [t \in Thread |-> Initial]
    /\ updates = 0
    /\ overlapped = [t \in Thread |-> FALSE]

\* add, sub, cas: enter the guard.
AtCall(t) ==
    /\ updates < MaxUpdates /\ updates' = updates + 1
    /\ \E u \in Update :
          /\ u.method # "store"
          /\ arg' = [arg EXCEPT ![t] = u]
          /\ Call(t, u.method)
    /\ UNCHANGED <<value, seen, overlapped>>

\* The threads between the read and the write of their section.
Updating == {t \in Thread : pc[t] = "write"}

\* store is one store.
Store(t) ==
    /\ Idle(t)
    /\ updates < MaxUpdates /\ updates' = updates + 1
    /\ \E u \in Update : u.method = "store" /\ value' = u.to
    /\ overlapped' = [u \in Thread |-> overlapped[u] \/ u \in Updating]
    /\ UNCHANGED <<guardVars, arg, seen>>

\* Slip: the value is read while the guard is still being taken.
AtReadEarly(t) ==
    /\ call[t] \in {"add", "cas"} /\ pc[t] = "enter"
    /\ seen' = [seen EXCEPT ![t] = value]
    /\ overlapped' = [overlapped EXCEPT ![t] = FALSE]
    /\ Then(t, "write")
    /\ UNCHANGED <<value, arg, updates>>

\* The read of the section.
AtRead(t) ==
    /\ Holding(t, "add") \/ Holding(t, "cas")
    /\ seen' = [seen EXCEPT ![t] = value]
    /\ overlapped' = [overlapped EXCEPT ![t] = FALSE]
    /\ Then(t, "write")
    /\ UNCHANGED <<value, arg, updates>>

\* What a call makes of the value it has read.
Result(u, old) ==
    IF u.method = "add" THEN old + u.delta
    ELSE IF old = u.expected THEN u.desired ELSE old

\* The write of the section; a cas that fails writes nothing.
AtWrite(t) ==
    /\ t \in Updating
    /\ value' = IF arg[t].method = "cas" /\ seen[t] # arg[t].expected
                THEN value ELSE Result(arg[t], seen[t])
    /\ Then(t, "exit")
    /\ UNCHANGED <<arg, seen, updates, overlapped>>

-----------------------------------------------------------------------------
AtInside(t) ==
    \/ Around(t) /\ UNCHANGED atWords
    \/ AtRead(t)
    \/ AtWrite(t)

AtNext == \E t \in Thread : AtCall(t) \/ Store(t) \/ AtInside(t)

AtSpec == AtInit /\ [][AtNext]_atVars

-----------------------------------------------------------------------------
AtTypeOK ==
    /\ GuardTypeOK({"add", "cas"}, {"write"})
    /\ value \in Int
    /\ arg \in [Thread -> Update]
    /\ seen \in [Thread -> Int]
    /\ updates \in 0 .. MaxUpdates
    /\ overlapped \in [Thread -> BOOLEAN]

\* add, sub and cas are atomic towards each other: the write of each is of
\* the value that is in the word at that moment, so no update is lost.  Only
\* a store that falls between the read and the write can be.
AtomicUpdates ==
    [][\A t \in Thread :
          AtWrite(t) /\ ~overlapped[t] => value' = Result(arg[t], value)]_atVars
=============================================================================
