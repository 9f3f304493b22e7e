-------------------------------- MODULE Actor -------------------------------
(***************************************************************************)
(* seed/compiler/src/vm/actor.rs: the actors of one VM, their mailboxes,   *)
(* the supervision links between them, and requests with their responses.  *)
(*                                                                         *)
(* The runtime is driven by the VM's one thread.  Its one operation that   *)
(* is more than a few assignments is kill_with_reason: it recurses over a  *)
(* copy of the children of the actor it kills and edits the children of    *)
(* the parents while it does so.  One step here is one activation up to    *)
(* its next recursive call.                                                *)
(***************************************************************************)
EXTENDS Integers, Sequences, FiniteSets, SequencesExt

CONSTANTS
    MaxActors,      \* bound: actors spawned
    MaxOperations,  \* bound: calls that spawn nothing and receive nothing
    StackDepth,     \* activations of kill_with_reason that fit on the stack
    NotifierSpace   \* notifications the response notifier holds before it blocks

ASSUME ActorAssumption ==
    /\ MaxActors \in Nat /\ MaxOperations \in Nat
    /\ StackDepth \in Nat /\ StackDepth >= MaxActors
    /\ NotifierSpace \in Nat

VARIABLES
    actors,         \* ActorRuntime.actors, from id 1 on
    calls,          \* the activations of kill_with_reason, the outermost first
    next_request_id,
    response_queue, \* the ids of the responses nobody has taken
    tokens,         \* notifications pending in response_notifier
    caller,         \* the VM's thread: "run", "notify" in reply, "overflow"
    operations,     \* history: the calls so far that MaxOperations bounds
    known,          \* history: the ids of requests the program has received
    before          \* history: the table at the call of kill in progress

vars == <<actors, calls, next_request_id, response_queue, tokens, caller,
          operations, known, before>>
requests == <<next_request_id, response_queue, tokens, known>>

Id == 1 .. Len(actors)

\* An id a program may pass: of an actor, of one not spawned yet, or 0.
AnyId == 0 .. MaxActors

Strategy == {"Restart", "Escalate", "Terminate"}

\* The messages a mailbox holds: one that was sent, request n, and the
\* notice that child n died.
Plain == [kind |-> "plain", n |-> 0]
Request(n) == [kind |-> "request", n |-> n]
Died(child) == [kind |-> "died", n |-> child]

Init ==
    /\ actors = <<>>
    /\ calls = <<>>
    /\ next_request_id = 1
    /\ response_queue = <<>>
    /\ tokens = 0
    /\ caller = "run"
    /\ operations = 0
    /\ known = {}
    /\ before = <<>>

\* A call that MaxOperations bounds.
Counted == operations < MaxOperations /\ operations' = operations + 1

Idle == caller = "run" /\ calls = <<>>

-----------------------------------------------------------------------------
\* No parent is 0: no actor has that id, so a link to it has no effect.
Spawn ==
    /\ Idle
    /\ Len(actors) < MaxActors
    /\ actors' = Append(actors, [mailbox |-> <<>>, alive |-> TRUE, parent |-> 0,
                                 children |-> <<>>, death_strategy |-> "Terminate"])
    /\ UNCHANGED <<calls, requests, caller, operations, before>>

SetStrategy(id, strategy) ==
    /\ Idle
    /\ Counted
    /\ actors' = [actors EXCEPT ![id].death_strategy = strategy]
    /\ UNCHANGED <<calls, requests, caller, before>>

\* Slip: an actor that is supervised again is listed again.
SuperviseTwice(parent, child) ==
    /\ Idle
    /\ Counted
    /\ actors' = [a \in Id |->
           [actors[a] EXCEPT
               !.parent = IF a = child THEN parent ELSE @,
               !.children = IF a = parent THEN Append(@, child) ELSE @]]
    /\ UNCHANGED <<calls, requests, caller, before>>

\* supervise looks at neither cycles, nor an earlier parent, nor death; the
\* two halves of the link are set if the actor at its end exists.
Supervise(parent, child) ==
    /\ Idle
    /\ Counted
    /\ actors' = [a \in Id |->
           [actors[a] EXCEPT
               !.parent = IF a = child THEN parent ELSE @,
               !.children = IF a = parent /\ ~Contains(@, child)
                            THEN Append(@, child) ELSE @]]
    /\ UNCHANGED <<calls, requests, caller, before>>

-----------------------------------------------------------------------------
\* Messages and requests.

Deliver(id, message) == actors' = [actors EXCEPT ![id].mailbox = Append(@, message)]

\* A dead actor receives too.
Send(id) ==
    /\ Idle
    /\ Counted
    /\ Deliver(id, Plain)
    /\ UNCHANGED <<calls, next_request_id, response_queue, tokens, caller, known, before>>

Recv(id) ==
    /\ Idle
    /\ actors[id].mailbox # <<>>
    /\ LET message == Head(actors[id].mailbox)
       IN  known' = known \cup (IF message.kind = "request" THEN {message.n} ELSE {})
    /\ actors' = [actors EXCEPT ![id].mailbox = Tail(@)]
    /\ UNCHANGED <<calls, next_request_id, response_queue, tokens, caller, operations, before>>

\* The responses that try_ask leaves: those behind its own, or none.
Unread(id) ==
    IF Contains(response_queue, id)
    THEN SubSeq(response_queue, SelectInSeq(response_queue, LAMBDA r : r = id) + 1,
                Len(response_queue))
    ELSE <<>>

\* The native ask.  It looks for its response at once and drops the others.
TryAsk(id) ==
    /\ Idle
    /\ Counted
    /\ next_request_id' = next_request_id + 1
    /\ Deliver(id, Request(next_request_id))
    /\ response_queue' = Unread(next_request_id)
    /\ UNCHANGED <<calls, tokens, caller, known, before>>

\* A program replies to requests it has received (actor.rs:280), as often as
\* it likes.
Reply(n) ==
    /\ Idle
    /\ n \in known
    /\ response_queue' = Append(response_queue, n)
    /\ caller' = "notify"
    /\ UNCHANGED <<actors, calls, next_request_id, tokens, operations, known, before>>

\* Nobody ever takes a notification: only ask_with_timeout waits for one,
\* and no program reaches it.  Without space the write blocks for ever.
Notify ==
    /\ caller = "notify"
    /\ tokens < NotifierSpace
    /\ tokens' = tokens + 1
    /\ caller' = "run"
    /\ UNCHANGED <<actors, calls, next_request_id, response_queue, operations, known, before>>

-----------------------------------------------------------------------------
\* kill_with_reason

\* Slip: an actor that escalates takes its parent along.
ToKillUpward(actor) ==
    CASE actor.death_strategy = "Terminate" -> actor.children
      [] actor.death_strategy = "Escalate" -> <<actor.parent>>
      [] actor.death_strategy = "Restart" -> <<>>

\* The children that the activation for this actor goes through: a copy.
ToKill(actor) == IF actor.death_strategy = "Terminate" THEN actor.children ELSE <<>>

Activation(id) == [id |-> id, todo |-> ToKill(actors[id]), parent |-> actors[id].parent]

\* Slip: the notice depends on the life of the actor itself.
MarkQuietly(id) ==
    LET actor == actors[id]
        dead == [actors EXCEPT ![id].alive = FALSE]
    IN  CASE actor.death_strategy = "Terminate" -> actors' = dead
          [] actor.death_strategy = "Restart" ->
               actors' = [actors EXCEPT ![id].alive = TRUE, ![id].mailbox = <<>>]
          [] actor.death_strategy = "Escalate" ->
               actors' = IF actor.parent \in Id /\ dead[id].alive
                         THEN [dead EXCEPT ![actor.parent].mailbox = Append(@, Died(id))]
                         ELSE dead

\* What the activation does to the table before it recurses.
Mark(id) ==
    LET actor == actors[id]
        dead == [actors EXCEPT ![id].alive = FALSE]
    IN  CASE actor.death_strategy = "Terminate" -> actors' = dead
          [] actor.death_strategy = "Restart" ->
               actors' = [actors EXCEPT ![id].alive = TRUE, ![id].mailbox = <<>>]
          [] actor.death_strategy = "Escalate" ->
               actors' = IF actor.parent \in Id /\ dead[actor.parent].alive
                         THEN [dead EXCEPT ![actor.parent].mailbox = Append(@, Died(id))]
                         ELSE dead

\* Calls kill_with_reason(id) from the activations in `outer`.
Enter(id, outer) ==
    IF Len(outer) < StackDepth
    THEN /\ Mark(id)
         /\ calls' = Append(outer, Activation(id))
         /\ UNCHANGED caller
    ELSE /\ caller' = "overflow"
         /\ calls' = <<>>
         /\ UNCHANGED actors

Kill(id) ==
    /\ Idle
    /\ Counted
    /\ before' = actors
    /\ Enter(id, <<>>)
    /\ UNCHANGED <<requests>>

Current == calls[Len(calls)]

\* Slip: an id without an actor stays at the head of the list.
DescendStuck ==
    /\ calls # <<>> /\ Current.todo # <<>>
    /\ Head(Current.todo) \in Id
    /\ Enter(Head(Current.todo), [calls EXCEPT ![Len(calls)].todo = Tail(@)])
    /\ UNCHANGED <<requests, operations, before>>

\* The next child of the current activation; an id without an actor is
\* passed over.
Descend ==
    /\ calls # <<>> /\ Current.todo # <<>>
    /\ LET rest == [calls EXCEPT ![Len(calls)].todo = Tail(@)]
       IN  IF Head(Current.todo) \in Id
           THEN Enter(Head(Current.todo), rest)
           ELSE calls' = rest /\ UNCHANGED <<actors, caller>>
    /\ UNCHANGED <<requests, operations, before>>

\* Vec::retain: the elements of seq that are in `keep`, in their order.
Kept(seq, keep) ==
    LET First[k \in 0 .. Len(seq)] ==
          IF k = 0 THEN <<>>
          ELSE IF seq[k] \in keep THEN Append(First[k - 1], seq[k]) ELSE First[k - 1]
    IN  First[Len(seq)]

Without(seq, id) == Kept(seq, AnyId \ {id})

\* Slip: the actor stays among its parent's children.
FinishLinked ==
    /\ calls # <<>> /\ Current.todo = <<>>
    /\ calls' = SubSeq(calls, 1, Len(calls) - 1)
    /\ before' = IF Len(calls) = 1 THEN <<>> ELSE before
    /\ UNCHANGED <<actors, requests, caller, operations>>

\* After the last child: unlink from the parent and return.
Finish ==
    /\ calls # <<>> /\ Current.todo = <<>>
    /\ actors' = IF Current.parent \in Id
                 THEN [actors EXCEPT ![Current.parent].children = Without(@, Current.id)]
                 ELSE actors
    /\ calls' = SubSeq(calls, 1, Len(calls) - 1)
    /\ before' = IF Len(calls) = 1 THEN <<>> ELSE before
    /\ UNCHANGED <<requests, caller, operations>>

-----------------------------------------------------------------------------
Next ==
    \/ Spawn
    \/ \E id \in Id, strategy \in Strategy : SetStrategy(id, strategy)
    \/ \E parent, child \in AnyId : Supervise(parent, child)
    \/ \E id \in Id : Send(id) \/ Recv(id) \/ TryAsk(id) \/ Kill(id)
    \/ \E n \in known : Reply(n)
    \/ Notify
    \/ Descend
    \/ Finish

Spec == Init /\ [][Next]_vars

\* The thread goes on inside a call.
FairSpec == Spec /\ WF_vars(Descend \/ Finish)
-----------------------------------------------------------------------------
Message == {Plain} \cup {Request(n) : n \in 1 .. MaxOperations} \cup {Died(c) : c \in 1 .. MaxActors}

TypeOK ==
    /\ Len(actors) <= MaxActors
    /\ \A id \in Id :
          /\ actors[id].mailbox \in Seq(Message)
          /\ actors[id].alive \in BOOLEAN
          /\ actors[id].parent \in AnyId
          /\ actors[id].children \in Seq(AnyId) /\ IsInjective(actors[id].children)
          /\ actors[id].death_strategy \in Strategy
    /\ Len(calls) <= StackDepth
    /\ \A i \in 1 .. Len(calls) : calls[i].id \in Id
    /\ next_request_id \in 1 .. MaxOperations + 1
    /\ response_queue \in Seq(1 .. MaxOperations)
    /\ tokens \in 0 .. NotifierSpace
    /\ caller \in {"run", "notify", "overflow"}

\* What the strategies say (actor.rs:39-44): only one of them ends the children.
Ends(actor) ==
    IF actor.death_strategy = "Terminate"
    THEN {actor.children[i] : i \in 1 .. Len(actor.children)} ELSE {}

\* The actors a kill of `root` in this table is for: root, and the children
\* of every one among them that terminates its children.
Doomed(table, root) ==
    LET ids == 1 .. Len(table)
        Closed(S) == \A a \in S : Ends(table[a]) \cap ids \subseteq S
    IN  {a \in ids : \A S \in SUBSET ids : root \in S /\ Closed(S) => a \in S}

\* Some of them terminate each other in a circle.
Circular(table, root) ==
    \E C \in (SUBSET Doomed(table, root)) \ {{}} :
        \A a \in C : Ends(table[a]) \cap C # {}

\* The outermost kill returns.
Over == Len(calls) = 1 /\ calls' = <<>> /\ caller' = "run"
Victims == Doomed(before, calls[1].id)

\* A kill does what the tree of children says, although it edits the tree
\* while it walks it and may meet an actor several times: when it returns,
\* all the actors it is for are dead, except those that restart, and are out
\* of the children of their parents; no other actor has died or lost a child.
KillEndsTree ==
    [][Over => \A a \in Id :
         /\ actors'[a].alive = IF a \in Victims THEN before[a].death_strategy = "Restart"
                                                ELSE before[a].alive
         /\ actors'[a].children = Kept(before[a].children,
                {c \in AnyId : ~(c \in Victims /\ before[c].parent = a)})]_vars

\* An actor outside the tree is told of the death of each of its children in
\* it that escalates, if it is alive, and of nothing else (actor.rs:19: when
\* a child crashes its parent is notified).
KillTellsParents ==
    [][Over => \A p \in Id \ Victims :
         LET old == before[p].mailbox
             new == actors'[p].mailbox
             notices == {new[i] : i \in Len(old) + 1 .. Len(new)}
         IN  /\ SubSeq(new, 1, Len(old)) = old
             /\ notices = {Died(c) : c \in {c \in Victims :
                               /\ before[c].parent = p
                               /\ before[c].death_strategy = "Escalate"
                               /\ before[p].alive}}]_vars

\* A kill runs out of stack exactly when supervision runs in a circle below
\* the actor killed.
OverflowOnlyInCircles ==
    [][/\ caller' = "overflow" /\ calls # <<>> => Circular(before, calls[1].id)
       /\ Over => ~Circular(before, calls[1].id)]_vars

\* And it returns or runs out of stack: it does not go on for ever.
KillEnds == (calls # <<>>) ~> (calls = <<>>)
=============================================================================
