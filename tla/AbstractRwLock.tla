--------------------------- MODULE AbstractRwLock ---------------------------
(***************************************************************************)
(* What a readers-writer lock promises: any number of readers or one       *)
(* writer, and each gives back what it holds.                              *)
(***************************************************************************)
CONSTANT Thread

VARIABLES
    reading,        \* the threads that hold the lock for reading
    writing         \* the threads that hold it for writing: none or one

Init == reading = {} /\ writing = {}

StartRead(t) ==
    /\ writing = {} /\ t \notin reading
    /\ reading' = reading \cup {t}
    /\ UNCHANGED writing

EndRead(t) ==
    /\ t \in reading
    /\ reading' = reading \ {t}
    /\ UNCHANGED writing

StartWrite(t) ==
    /\ reading = {} /\ writing = {}
    /\ writing' = {t}
    /\ UNCHANGED reading

EndWrite(t) ==
    /\ t \in writing
    /\ writing' = writing \ {t}
    /\ UNCHANGED reading

Next ==
    \E t \in Thread : StartRead(t) \/ EndRead(t) \/ StartWrite(t) \/ EndWrite(t)

Spec == Init /\ [][Next]_<<reading, writing>>
=============================================================================
