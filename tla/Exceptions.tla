----------------------------- MODULE Exceptions -----------------------------
(***************************************************************************)
(* try/catch/finally, as seed/compiler/src/codegen/mir.rs compiles it and  *)
(* as the VM (vm/mod.rs, vm/interp.rs) runs what was compiled.             *)
(*                                                                         *)
(* The source of a program is a nest of loops and try statements; the VM   *)
(* knows nothing of the nest and works on a stack of handlers that the     *)
(* compiled code pushes and pops.  The model runs any program there is: at *)
(* every step the running function takes whichever statement it likes.     *)
(* Where it stands is the nest of constructs it is inside, which is what   *)
(* an instruction pointer means to the source; the handlers are those of   *)
(* the VM.  The properties relate the two.                                 *)
(*                                                                         *)
(* A C function that the program calls may call back into the VM, which    *)
(* then runs a second loop on a fresh stack of frames and the same stack   *)
(* of handlers.                                                            *)
(***************************************************************************)
EXTENDS Integers, Sequences, FiniteSets, FiniteSetsExt, SequencesExt

CONSTANTS
    Exception,      \* the types of the exceptions thrown
    CatchAll,       \* a catch clause that filters no type
    NoCatch,        \* the clause of a try statement that has only a finally
    Clause,         \* the try statements of the programs that are run
    MaxCallDepth,   \* VmOptions.max_call_depth
    MaxNest,        \* bound: constructs open, in all the functions together,
    MaxNestCalled,  \* ... and from the first callback on
    MaxHandlers,    \* bound: handlers registered
    MaxCallbacks    \* bound: callbacks in progress

\* The try statements that register a handler: with neither a catch nor a
\* finally one is a plain block.  Of several catch clauses the compiler
\* keeps the first.
AnyClause == [type : Exception \cup {CatchAll, NoCatch}, finally : BOOLEAN]
                 \ {[type |-> NoCatch, finally |-> FALSE]}

ASSUME ExceptionsAssumption ==
    /\ CatchAll # NoCatch /\ {CatchAll, NoCatch} \cap Exception = {}
    /\ Clause \subseteq AnyClause
    /\ MaxCallDepth \in Nat \ {0}
    /\ MaxNest \in Nat /\ MaxNestCalled \in 0 .. MaxNest
    /\ MaxHandlers \in Nat /\ MaxCallbacks \in Nat

VARIABLES
    frames,         \* Vm.frames: for each, the constructs its function is inside
    handlers,       \* Vm.handlers
    saved,          \* the frames that callbacks in progress have put aside
    status,         \* "run", or how the run ended
    called          \* history: some callback has begun

vars == <<frames, handlers, saved, status, called>>

(***************************************************************************)
(* A construct: a loop, the body of a try statement that registered a      *)
(* handler, its catch block, its finally on the way out ("finally") or     *)
(* with an exception of type `type` in hand to be thrown again             *)
(* ("rethrow").                                                            *)
(***************************************************************************)
Construct(at, type, finally) == [at |-> at, type |-> type, finally |-> finally]

Loop == Construct("loop", NoCatch, FALSE)
Body(clause) == Construct("body", clause.type, clause.finally)
Cleanup == Construct("finally", NoCatch, FALSE)

(***************************************************************************)
(* A frame is the nest of constructs, and, as history, whether a break or  *)
(* continue has left one of its try bodies with the handler in place.      *)
(***************************************************************************)
Entered == [nest |-> <<>>, stray |-> FALSE]

\* The constructs open in a stack of frames.
Open(stack) ==
    LET Upto[n \in 0 .. Len(stack)] ==
          IF n = 0 THEN 0 ELSE Upto[n - 1] + Len(stack[n].nest)
    IN Upto[Len(stack)]

Init ==
    /\ frames = <<Entered>>
    /\ handlers = <<>>
    /\ saved = <<>>
    /\ status = "run"
    /\ called = FALSE

Top == frames[Len(frames)]
Nest == Top.nest
Inside(at) == Nest # <<>> /\ Nest[Len(Nest)].at = at
Innermost == Nest[Len(Nest)]

\* Every action is a statement of the running function: it goes to the place
\* whose enclosing constructs are `nest`.
MoveTo(nest) == frames' = [frames EXCEPT ![Len(frames)].nest = nest]

\* The constructs open altogether, and the bound on them.
OpenNow ==
    LET Upto[n \in 0 .. Len(saved)] ==
          IF n = 0 THEN Open(frames) ELSE Upto[n - 1] + Open(saved[n])
    IN Upto[Len(saved)]

Room == OpenNow < IF called THEN MaxNestCalled ELSE MaxNest

Outer(nest) == SubSeq(nest, 1, Len(nest) - 1)

\* Vec::pop, which does nothing to an empty stack.
PopHandler == SubSeq(handlers, 1, Len(handlers) - 1)

\* The run is over; the frames it leaves are not looked at again.
End(how) == status' = how /\ frames' = <<>>

-----------------------------------------------------------------------------
\* Loops, and the normal way through a try statement.

EnterLoop ==
    /\ status = "run" /\ Room
    /\ MoveTo(Append(Nest, Loop))
    /\ UNCHANGED <<handlers, saved, status, called>>

LeaveLoop ==
    /\ status = "run" /\ Inside("loop")
    /\ MoveTo(Outer(Nest))
    /\ UNCHANGED <<handlers, saved, status, called>>

\* Slip: the handler names the frame after the one it belongs to.
TryAbove(clause) ==
    /\ status = "run"
    /\ Room /\ Len(handlers) < MaxHandlers
    /\ handlers' = Append(handlers, [frame |-> Len(frames) + 1, level |-> Len(saved),
                                     where |-> Nest, clause |-> clause])
    /\ MoveTo(Append(Nest, Body(clause)))
    /\ UNCHANGED <<saved, status, called>>

\* PUSH_HANDLER, whose target is the handler block of this try statement.
Try(clause) ==
    /\ status = "run"
    /\ Room /\ Len(handlers) < MaxHandlers
    /\ handlers' = Append(handlers, [frame |-> Len(frames), level |-> Len(saved),
                                     where |-> Nest, clause |-> clause])
    /\ MoveTo(Append(Nest, Body(clause)))
    /\ UNCHANGED <<saved, status, called>>

\* After a body or a catch block: into the finally, if there is one.
PastIt == IF Innermost.finally THEN Append(Outer(Nest), Cleanup) ELSE Outer(Nest)

\* Slip: the handler is popped after the finally, which a body without one
\* never reaches.
EndBodyLate ==
    /\ status = "run" /\ Inside("body")
    /\ handlers' = IF Innermost.finally THEN PopHandler ELSE handlers
    /\ MoveTo(PastIt)
    /\ UNCHANGED <<saved, status, called>>

\* POP_HANDLER, and the normal path.
EndBody ==
    /\ status = "run" /\ Inside("body")
    /\ handlers' = PopHandler
    /\ MoveTo(PastIt)
    /\ UNCHANGED <<saved, status, called>>

EndCatch ==
    /\ status = "run" /\ Inside("catch")
    /\ MoveTo(PastIt)
    /\ UNCHANGED <<handlers, saved, status, called>>

EndFinally ==
    /\ status = "run" /\ Inside("finally")
    /\ MoveTo(Outer(Nest))
    /\ UNCHANGED <<handlers, saved, status, called>>

-----------------------------------------------------------------------------
\* Exceptions.

Accepts(clause, x) == clause.type \in {CatchAll, NoCatch, x}

\* Slip: the type filter is forgotten.
CatchingAnything(x) == {i \in 1 .. Len(handlers) : handlers[i].frame <= Len(frames)}

\* The handlers raise stops at: the type fits and the frame exists.
Catching(x) ==
    {i \in 1 .. Len(handlers) : /\ Accepts(handlers[i].clause, x)
                                /\ handlers[i].frame <= Len(frames)}

\* The handler block: the catch block, or the finally with the exception in
\* hand.
HandlerBlock(clause, x) ==
    IF clause.type = NoCatch THEN Construct("rethrow", x, FALSE)
                          ELSE Construct("catch", NoCatch, clause.finally)

\* raise stopped at handler h.  The frame at the index h names is one of the
\* loop that is running, which after a callback has begun need not be the
\* one that registered h: its function is then sent to an address of another.
Land(h, x) ==
    IF h.level = Len(saved)
    THEN /\ frames' = [SubSeq(frames, 1, h.frame) EXCEPT
                           ![h.frame].nest = Append(h.where, HandlerBlock(h.clause, x))]
         /\ UNCHANGED status
    ELSE End("wild")

\* An error ends the run, except in a callback, whose loop drops the error
\* and goes on with the next statement.
Fail(next) ==
    IF saved = <<>> THEN End("error")
                    ELSE MoveTo(next) /\ UNCHANGED status

\* raise: handlers are popped down to the one it stops at, or all of them.
\* `next` is where the throwing function goes on if the error is dropped.
Raise(x, next) ==
    /\ IF Catching(x) = {}
       THEN handlers' = <<>> /\ Fail(next)
       ELSE LET i == Max(Catching(x))
            IN  handlers' = SubSeq(handlers, 1, i - 1) /\ Land(handlers[i], x)
    /\ UNCHANGED <<saved, called>>

Throw(x) ==
    /\ status = "run"
    /\ Raise(x, Nest)

\* A finally entered with an exception in hand ends by throwing it again.
Rethrow ==
    /\ status = "run" /\ Inside("rethrow")
    /\ Raise(Innermost.type, Outer(Nest))

\* Any other error of an instruction: no handler is looked for.
Fault ==
    /\ status = "run"
    /\ Fail(Nest)
    /\ UNCHANGED <<handlers, saved, called>>

-----------------------------------------------------------------------------
\* Leaving by a jump.

\* The innermost loop around the statement.
LoopAt == Max({i \in 1 .. Len(Nest) : Nest[i].at = "loop"})

\* The bodies between it and the statement.
Crossed == {i \in LoopAt + 1 .. Len(Nest) : Nest[i].at = "body"}

(***************************************************************************)
(* break and continue go straight to the loop's end or head.  The compiler *)
(* appends the POP_HANDLER of a try body to the block that is current at   *)
(* the body's end, so a jump executes it only if it closed that block      *)
(* itself (`direct`), not from inside an if or an inner construct: only    *)
(* the innermost body can be so left, and others keep their handlers.      *)
(***************************************************************************)
Jump(direct, nest) ==
    /\ handlers' = IF direct THEN PopHandler ELSE handlers
    /\ frames' = [frames EXCEPT
                      ![Len(frames)] =
                          [nest  |-> nest,
                           stray |-> @.stray
                                     \/ Crossed \ (IF direct THEN {Len(Nest)} ELSE {}) # {}]]
    /\ UNCHANGED <<saved, status, called>>

InLoop == \E i \in 1 .. Len(Nest) : Nest[i].at = "loop"

Break(direct) ==
    /\ status = "run" /\ InLoop
    /\ direct => Inside("body")
    /\ Jump(direct, SubSeq(Nest, 1, LoopAt - 1))

Continue(direct) ==
    /\ status = "run" /\ InLoop
    /\ direct => Inside("body")
    /\ Jump(direct, SubSeq(Nest, 1, LoopAt))

-----------------------------------------------------------------------------
\* Calls.

\* push_frame.  At the depth limit it is an error.
Call ==
    /\ status = "run"
    /\ IF Len(frames) < MaxCallDepth
       THEN frames' = Append(frames, Entered) /\ UNCHANGED status
       ELSE Fail(Nest)
    /\ UNCHANGED <<handlers, saved, called>>

\* Vec::retain: the handlers at the places in `keep`, in their order.
Retain(keep) ==
    LET Upto[n \in 0 .. Len(handlers)] ==
          IF n = 0 THEN <<>>
          ELSE IF n \in keep THEN Append(Upto[n - 1], handlers[n]) ELSE Upto[n - 1]
    IN Upto[Len(handlers)]

\* Slip: the caller's handlers are dropped too.
KeptTooFew(depth) == Retain({k \in 1 .. Len(handlers) : handlers[k].frame < depth})

\* pop_frame retains the handlers of the frames that are left.
Kept(depth) == Retain({k \in 1 .. Len(handlers) : handlers[k].frame <= depth})

Return ==
    /\ status = "run"
    /\ handlers' = Kept(Len(frames) - 1)
    /\ CASE Len(frames) > 1 ->
              /\ frames' = SubSeq(frames, 1, Len(frames) - 1)
              /\ UNCHANGED <<saved, status>>
         [] Len(frames) = 1 /\ saved # <<>> ->      \* the callback is over
              /\ frames' = saved[Len(saved)]
              /\ saved' = SubSeq(saved, 1, Len(saved) - 1)
              /\ UNCHANGED status
         [] Len(frames) = 1 /\ saved = <<>> ->      \* the run is over
              End("done") /\ UNCHANGED saved
    /\ UNCHANGED called

\* call_callback puts the frames aside, and not the handlers.
Callback ==
    /\ status = "run" /\ Len(saved) < MaxCallbacks /\ OpenNow <= MaxNestCalled
    /\ saved' = Append(saved, frames)
    /\ frames' = <<Entered>>
    /\ called' = TRUE
    /\ UNCHANGED <<handlers, status>>

\* Process.exit: request_exit empties the stacks and halts the loop.  In a
\* callback that is the callback's loop, and call_callback puts the frames
\* and the halt flag back.
Exit ==
    /\ status = "run"
    /\ handlers' = <<>>
    /\ IF saved = <<>>
       THEN End("exit") /\ UNCHANGED saved
       ELSE /\ frames' = saved[Len(saved)]
            /\ saved' = SubSeq(saved, 1, Len(saved) - 1)
            /\ UNCHANGED status
    /\ UNCHANGED called

-----------------------------------------------------------------------------
Next ==
    \/ EnterLoop \/ LeaveLoop
    \/ \E clause \in Clause : Try(clause)
    \/ EndBody \/ EndCatch \/ EndFinally
    \/ \E x \in Exception : Throw(x)
    \/ Rethrow
    \/ Fault
    \/ \E direct \in BOOLEAN : Break(direct) \/ Continue(direct)
    \/ Call \/ Return
    \/ Callback
    \/ Exit

Spec == Init /\ [][Next]_vars

-----------------------------------------------------------------------------
Place == {"loop", "body", "catch", "finally", "rethrow"}

TypeOK ==
    /\ Len(frames) \in 0 .. MaxCallDepth /\ (frames = <<>> <=> status # "run")
    /\ \A i \in 1 .. Len(frames) :
          /\ Len(frames[i].nest) <= MaxNest
          /\ \A j \in 1 .. Len(frames[i].nest) :
                frames[i].nest[j] \in [at : Place, type : Exception \cup {CatchAll, NoCatch},
                                       finally : BOOLEAN]
          /\ frames[i].stray \in BOOLEAN
    /\ Len(handlers) <= MaxHandlers
    /\ \A i \in 1 .. Len(handlers) :
          /\ handlers[i].clause \in Clause
          /\ handlers[i].level \in 0 .. Len(saved)
          /\ handlers[i].frame \in 1 .. MaxCallDepth
    /\ Len(saved) <= MaxCallbacks
    /\ status \in {"run", "done", "error", "exit", "wild"}
    /\ called \in BOOLEAN

\* The places of the handlers that frame i of the running loop has registered.
Of(i) == {k \in 1 .. Len(handlers) : handlers[k].level = Len(saved) /\ handlers[k].frame = i}

\* The try bodies that frame i is in, and the handler that the source asks for
\* the one at place j of the nest.
Bodies(i) == {j \in 1 .. Len(frames[i].nest) : frames[i].nest[j].at = "body"}

Due(i, j) ==
    LET nest == frames[i].nest
    IN  [frame |-> i, level |-> Len(saved), where |-> SubSeq(nest, 1, j - 1),
         clause |-> [type |-> nest[j].type, finally |-> nest[j].finally]]

\* No stray handler: the handlers of a frame are those of the try bodies it
\* is in, of the innermost of them if not of all, the innermost at the top;
\* unless a break or continue left one of its bodies.  So no jump, throw,
\* return or callback in any other frame can leave one behind, and a frame
\* that returns takes its own along.
NoStrayHandler ==
    \A i \in 1 .. Len(frames) :
        ~frames[i].stray =>
            /\ \A k \in Of(i) : \E j \in Bodies(i) : handlers[k] = Due(i, j)
            /\ \A k, l \in Of(i) : k < l => Len(handlers[k].where) < Len(handlers[l].where)
            /\ \A k \in Of(i), j \in Bodies(i) :
                  Len(handlers[k].where) < j => \E l \in Of(i) : handlers[l] = Due(i, j)

\* No lost handler: while no callback has been made every open try body has
\* its handler, in the order of nesting, whatever strays are among them.
NoLostHandler ==
    ~called /\ status = "run" =>
        \A i \in 1 .. Len(frames) :
            \E p \in [Bodies(i) -> Of(i)] :
               /\ \A j \in Bodies(i) : handlers[p[j]] = Due(i, j)
               /\ \A j, k \in Bodies(i) : j < k => p[j] < p[k]

\* x is thrown, by a throw or at the end of a finally.
Thrown(x) ==
    \/ Throw(x)
    \/ status = "run" /\ Inside("rethrow") /\ Innermost.type = x /\ Rethrow

\* The innermost try body, over all the frames, that accepts x.
Accepting(x) ==
    UNION {{<<i, j>> : j \in {k \in Bodies(i) : Accepts(frames[i].nest[k], x)}} :
             i \in 1 .. Len(frames)}

InnermostAccepting(x) ==
    CHOOSE p \in Accepting(x) :
        \A q \in Accepting(x) : q[1] < p[1] \/ (q[1] = p[1] /\ q[2] <= p[2])

\* What the source says a throw does: control goes to the handler block of
\* the innermost accepting body; without one the run fails.  True of the VM
\* as long as no frame has a stray handler and no callback was made.
Unwinds(x) ==
    IF Accepting(x) = {}
    THEN status' = "error"
    ELSE LET p == InnermostAccepting(x)
             nest == frames[p[1]].nest
         IN  /\ Len(frames') = p[1]
             /\ frames'[p[1]].nest = Append(SubSeq(nest, 1, p[2] - 1),
                                            HandlerBlock(nest[p[2]], x))
             /\ status' = "run"

\* A throw that some open body accepts is caught, strays or not; and without
\* strays it unwinds as the source says.  Callbacks void both.
UnwindsToInnermost ==
    [][\A x \in Exception :
          Thrown(x) /\ ~called =>
              /\ Accepting(x) # {} => status' = "run"
              /\ (\A i \in 1 .. Len(frames) : ~frames[i].stray) => Unwinds(x)]_vars

-----------------------------------------------------------------------------
\* What the repository says of the program and the code does not do.

\* runtime_gap_tests.rs:532: "the handler of the first try must have been
\* deregistered; the exception of the second try must not enter the old
\* handler".  Stated of all programs: a throw enters the handler block only
\* of a try statement whose body the throwing statement, or a call in
\* progress, is in.  False of the code after a break or a continue.
NoStaleCatch ==
    [][\A x \in Exception :
          Thrown(x) /\ ~called /\ status' = "run" =>
              LET f == Len(frames')
                  after == frames'[f].nest
                  p == Len(after)
              IN  /\ p <= Len(frames[f].nest)
                  /\ SubSeq(frames[f].nest, 1, p - 1) = SubSeq(after, 1, p - 1)
                  /\ frames[f].nest[p].at = "body"
                  /\ after[p] = HandlerBlock(frames[f].nest[p], x)]_vars

\* mod.rs:1860: "when a frame exits, the exception handlers registered inside
\* it are dropped".  Only those, that is: what a return leaves are all the
\* handlers that other frames registered.  False of the code when the frame
\* is that of a callback: its index is 0, and so every handler goes.
OnlyOwnHandlersDropped ==
    [][Return => handlers' = Retain((1 .. Len(handlers)) \ Of(Len(frames)))]_vars
=============================================================================
