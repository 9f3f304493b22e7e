------------------------------- MODULE Channel ------------------------------
(***************************************************************************)
(* seed/compiler/src/vm/channel.rs and its event notifiers: the channels   *)
(* of one VM, as the native functions of native.rs and the ChannelRuntime  *)
(* API drive them.  A VM runs on one thread, so sender and receiver are    *)
(* that thread; what makes the order of calls matter is that a channel has *)
(* two memories, the buffer and the notifier's pending wakeups ("tokens"), *)
(* and that only some operations use both.                                 *)
(*                                                                         *)
(* A pipe notifier (macOS, Windows) holds one byte per notification, at    *)
(* most PipeCapacity of them, and a wait takes one; the eventfd notifier   *)
(* (Linux) adds the notifications up and a wait takes them all.            *)
(***************************************************************************)
EXTENDS Integers, Sequences

CONSTANTS
    MaxChannels,    \* bound: channels created
    Bounds,         \* the capacities channels are created with, 0 unbounded
    Notifiers,      \* the notifiers create_notifier builds
    PipeCapacity,   \* bytes a pipe holds before a write blocks
    MaxSends        \* bound: send calls per channel

ASSUME ChannelAssumption ==
    /\ MaxChannels \in Nat
    /\ Bounds \subseteq Nat
    /\ Notifiers \subseteq {"pipe", "eventfd"}
    /\ PipeCapacity \in Nat \ {0}
    /\ MaxSends \in Nat

VARIABLES
    channels,       \* ChannelRuntime.channels: id |-> bound, notifier, buffer, tokens
    caller,         \* where the VM's thread is: running, or inside a call on a channel
    sends,          \* history: send calls per channel; the k-th sends message k
    accepted,       \* history: the messages send put into the buffer, in order
    received,       \* history: the messages handed to the program, in order
    nulls           \* history: waits that ended with Null

vars == <<channels, caller, sends, accepted, received, nulls>>
history == <<sends, accepted, received, nulls>>

Id == 1 .. Len(channels)
Message == 1 .. MaxSends

Running == [at |-> "run", on |-> 0]

Init ==
    /\ channels = <<>>
    /\ caller = Running
    /\ sends = <<>>
    /\ accepted = <<>>
    /\ received = <<>>
    /\ nulls = <<>>

\* The thread is free to make a call; the call ends in this step or leaves
\* the thread inside `place`.
Idle == caller = Running
Stop(place, c) == caller' = [at |-> place, on |-> c]

-----------------------------------------------------------------------------
\* new_channel(bound)

New ==
    /\ Idle
    /\ Len(channels) < MaxChannels
    /\ \E b \in Bounds, n \in Notifiers :
          channels' = Append(channels,
                             [bound |-> b, notifier |-> n, buffer |-> <<>>, tokens |-> 0])
    /\ sends' = Append(sends, 0)
    /\ accepted' = Append(accepted, <<>>)
    /\ received' = Append(received, <<>>)
    /\ nulls' = Append(nulls, 0)
    /\ UNCHANGED caller

-----------------------------------------------------------------------------
\* send

\* Slip: one message more than the bound fits.
FullOffByOne(c) ==
    channels[c].bound > 0 /\ Len(channels[c].buffer) > channels[c].bound

Full(c) ==
    channels[c].bound > 0 /\ Len(channels[c].buffer) >= channels[c].bound

\* send returns false, and channelSend does not look: the message is gone.
SendFull(c) ==
    /\ Idle
    /\ sends[c] < MaxSends
    /\ Full(c)
    /\ sends' = [sends EXCEPT ![c] = @ + 1]
    /\ UNCHANGED <<channels, caller, accepted, received, nulls>>

\* Slip: the message is pushed to the front.
SendFront(c) ==
    /\ Idle
    /\ sends[c] < MaxSends
    /\ ~Full(c)
    /\ channels' = [channels EXCEPT ![c].buffer = <<sends[c] + 1>> \o @]
    /\ sends' = [sends EXCEPT ![c] = @ + 1]
    /\ accepted' = [accepted EXCEPT ![c] = Append(@, sends[c] + 1)]
    /\ Stop("notify", c)
    /\ UNCHANGED <<received, nulls>>

Send(c) ==
    /\ Idle
    /\ sends[c] < MaxSends
    /\ ~Full(c)
    /\ channels' = [channels EXCEPT ![c].buffer = Append(@, sends[c] + 1)]
    /\ sends' = [sends EXCEPT ![c] = @ + 1]
    /\ accepted' = [accepted EXCEPT ![c] = Append(@, sends[c] + 1)]
    /\ Stop("notify", c)
    /\ UNCHANGED <<received, nulls>>

\* The notifier's write at the end of send; on a full pipe it blocks.
Writable(c) ==
    channels[c].notifier = "pipe" => channels[c].tokens < PipeCapacity

Notify(c) ==
    /\ caller = [at |-> "notify", on |-> c]
    /\ Writable(c)
    /\ channels' = [channels EXCEPT ![c].tokens = @ + 1]
    /\ caller' = Running
    /\ UNCHANGED history

-----------------------------------------------------------------------------
\* The receives.

\* pop_front, the message going to the program.
PopFront(c) ==
    /\ channels[c].buffer # <<>>
    /\ channels' = [channels EXCEPT ![c].buffer = Tail(@)]
    /\ received' = [received EXCEPT ![c] = Append(@, Head(channels[c].buffer))]

\* recv, recv_timeout, try_recv, select and selectTimeout all take the front
\* of a buffer that has one, without touching the notifier; the selects take
\* it from any of the channels they are given.
Take(c) ==
    /\ Idle
    /\ PopFront(c)
    /\ UNCHANGED <<caller, sends, accepted, nulls>>

\* recv of an empty buffer: wait(None).
Recv(c) ==
    /\ Idle
    /\ channels[c].buffer = <<>>
    /\ Stop("wait", c)
    /\ UNCHANGED <<channels, history>>

\* What a wait leaves of the notifications it found.
Left(c) == IF channels[c].notifier = "pipe" THEN channels[c].tokens - 1 ELSE 0

\* Slip: the wait looks at the event and leaves it in the notifier.
WakeUndrained(c) ==
    /\ caller = [at |-> "wait", on |-> c]
    /\ channels[c].tokens > 0
    /\ nulls' = [nulls EXCEPT ![c] = @ + 1]
    /\ caller' = Running
    /\ UNCHANGED <<channels, sends, accepted, received>>

\* The wait finds a notification; pop_front().unwrap_or(Null).
Wake(c) ==
    /\ caller = [at |-> "wait", on |-> c]
    /\ channels[c].tokens > 0
    /\ caller' = Running
    /\ IF channels[c].buffer = <<>>
       THEN /\ channels' = [channels EXCEPT ![c].tokens = Left(c)]
            /\ nulls' = [nulls EXCEPT ![c] = @ + 1]
            /\ UNCHANGED received
       ELSE /\ channels' = [channels EXCEPT ![c].tokens = Left(c),
                                            ![c].buffer = Tail(@)]
            /\ received' = [received EXCEPT ![c] = Append(@, Head(channels[c].buffer))]
            /\ UNCHANGED nulls
    /\ UNCHANGED <<sends, accepted>>

\* recv_timeout of an empty buffer: a notification that is there ends it at
\* once and is taken; without one it returns Null after the timeout and
\* changes nothing, as do try_recv and the selects.
RecvTimeout(c) ==
    /\ Idle
    /\ channels[c].buffer = <<>>
    /\ channels[c].tokens > 0
    /\ channels' = [channels EXCEPT ![c].tokens = Left(c)]
    /\ nulls' = [nulls EXCEPT ![c] = @ + 1]
    /\ UNCHANGED <<caller, sends, accepted, received>>

-----------------------------------------------------------------------------
Next ==
    \/ New
    \/ \E c \in Id :
          \/ SendFull(c)
          \/ Send(c)
          \/ Notify(c)
          \/ Take(c)
          \/ Recv(c)
          \/ Wake(c)
          \/ RecvTimeout(c)

Spec == Init /\ [][Next]_vars

\* A call the thread is inside goes on as soon as it can.
FairSpec == Spec /\ WF_vars(\E c \in Id : Notify(c) \/ Wake(c))

-----------------------------------------------------------------------------
\* One more notification is on its way while send is about to notify.
Coming(c) == IF caller = [at |-> "notify", on |-> c] THEN 1 ELSE 0

TypeOK ==
    /\ \A c \in Id :
          /\ channels[c].bound \in Bounds
          /\ channels[c].notifier \in Notifiers
          /\ channels[c].buffer \in Seq(Message)
          /\ channels[c].bound > 0 => Len(channels[c].buffer) <= channels[c].bound
          /\ channels[c].tokens \in 0 .. MaxSends
          /\ channels[c].notifier = "pipe" => channels[c].tokens <= PipeCapacity
    /\ caller \in {Running} \cup [at : {"notify", "wait"}, on : Id]
    /\ Len(sends) = Len(channels) /\ Len(accepted) = Len(channels)
    /\ Len(received) = Len(channels) /\ Len(nulls) = Len(channels)

\* What came out and what is still inside are what went in, in order: no
\* accepted message is lost, repeated or overtaken, whichever of the five
\* receiving calls takes it.
Fifo == \A c \in Id : received[c] \o channels[c].buffer = accepted[c]

\* Every buffered message has its notification, pending or on its way.
NotifiedMessages ==
    \A c \in Id : Len(channels[c].buffer) <= channels[c].tokens + Coming(c)

\* There are never more empty returns and pending notifications than messages
\* accepted.
NotificationsUsedOnce ==
    \A c \in Id : nulls[c] + channels[c].tokens + Coming(c) <= Len(accepted[c])

\* Buffer and notifier, two memories that no lock keeps together, stay in step:
\* no message lies in the buffer without a notification that would wake a
\* receive, and a notification left over by a receive that did not wait ends one
\* later wait with nothing, and no more than one.
NotificationsInStep == NotifiedMessages /\ NotificationsUsedOnce

\* channel.rs:16: "unbounded channel: send never blocks".  False of the code
\* over pipes: receives that find a message leave its notification behind,
\* until the pipe is full and the write in send blocks the only thread.
UnboundedSendReturns ==
    \A c \in 1 .. MaxChannels :
        (caller = [at |-> "notify", on |-> c] /\ channels[c].bound = 0)
            ~> (caller = Running)
=============================================================================
