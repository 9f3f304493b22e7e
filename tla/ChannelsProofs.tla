---------------------------- MODULE ChannelsProofs ---------------------------
(***************************************************************************)
(* Theorems about the channels of one VM and about values over a           *)
(* connection: what goes in comes out, in order.                           *)
(***************************************************************************)
EXTENDS MCChannels, SequenceTheorems, TLAPS

(***************************************************************************)
(* Channels of one VM.  A channel's buffer and its notifier change in      *)
(* different steps, and what keeps them in step is that the thread that    *)
(* waits for a notification came there from an empty buffer and is the     *)
(* only one that could fill it (EmptyInWait).                              *)
(***************************************************************************)
ChannelRecord ==
    [bound : Bounds, notifier : Notifiers, buffer : Seq(Message), tokens : Nat]

ChannelTypes ==
    /\ channels \in Seq(ChannelRecord)
    /\ caller \in {Running} \cup [at : {"notify", "wait"}, on : Id]
    /\ sends \in Seq(0 .. MaxSends) /\ nulls \in Seq(Nat)
    /\ accepted \in Seq(Seq(Message)) /\ received \in Seq(Seq(Message))
    /\ Len(sends) = Len(channels) /\ Len(accepted) = Len(channels)
    /\ Len(received) = Len(channels) /\ Len(nulls) = Len(channels)

(***************************************************************************)
(* One channel.  A bounded buffer has room for what is in it and a pipe    *)
(* for its bytes, and no more is accepted than was sent; recv waits at an  *)
(* empty buffer, which nobody can fill meanwhile; and then the channel's   *)
(* part of Fifo and of NotificationsInStep.                                *)
(***************************************************************************)
Sound(c) ==
    /\ channels[c].bound > 0 => Len(channels[c].buffer) <= channels[c].bound
    /\ channels[c].notifier = "pipe" => channels[c].tokens <= PipeCapacity
    /\ Len(accepted[c]) <= sends[c]
    /\ caller = [at |-> "wait", on |-> c] => channels[c].buffer = <<>>
    /\ received[c] \o channels[c].buffer = accepted[c]
    /\ Len(channels[c].buffer) <= channels[c].tokens + Coming(c)
    /\ nulls[c] + channels[c].tokens + Coming(c) <= Len(accepted[c])

ChannelInv == ChannelTypes /\ \A c \in Id : Sound(c)

-----------------------------------------------------------------------------
\* There are no channels yet.
LEMMA ChannelInvInit == Init => ChannelInv
  BY DEF Init, Running, ChannelInv, ChannelTypes, Id

\* A sequence with one more element.
LEMMA OneMore ==
    ASSUME NEW S, NEW s \in Seq(S), NEW e \in S
    PROVE  /\ Append(s, e) \in Seq(S) /\ Len(Append(s, e)) = Len(s) + 1
           /\ \A i \in 1 .. Len(s) : Append(s, e)[i] = s[i]
           /\ Append(s, e)[Len(s) + 1] = e
  OBVIOUS

\* What is known of one channel.
LEMMA OneChannel ==
    ASSUME ChannelTypes, NEW c \in Id
    PROVE  /\ channels[c] \in ChannelRecord /\ sends[c] \in 0 .. MaxSends
           /\ accepted[c] \in Seq(Message) /\ received[c] \in Seq(Message)
           /\ nulls[c] \in Nat
           /\ channels[c].bound \in Bounds /\ channels[c].notifier \in Notifiers
           /\ channels[c].buffer \in Seq(Message) /\ channels[c].tokens \in Nat
           /\ Len(accepted[c]) \in Nat /\ Len(channels[c].buffer) \in Nat
<1>1. channels[c] \in ChannelRecord /\ sends[c] \in 0 .. MaxSends /\ nulls[c] \in Nat
  BY ElementOfSeq DEF ChannelTypes, Id
<1>2. accepted[c] \in Seq(Message) /\ received[c] \in Seq(Message)
  BY DEF ChannelTypes, Id
<1>3. /\ channels[c].bound \in Bounds /\ channels[c].notifier \in Notifiers
      /\ channels[c].buffer \in Seq(Message) /\ channels[c].tokens \in Nat
  BY <1>1 DEF ChannelRecord
<1>4. Len(accepted[c]) \in Nat
  BY <1>2
<1>5. Len(channels[c].buffer) \in Nat
  BY <1>3
<1>6. QED
  BY <1>1, <1>2, <1>3, <1>4, <1>5

\* A channel is made.
LEMMA NewStep == ASSUME ChannelInv, New PROVE ChannelInv'
<1> USE DEF ChannelInv
<1>0. PICK new \in Nat : new = Len(channels) + 1
  BY DEF ChannelTypes
<1>1. PICK b \in Bounds, n \in Notifiers :
          channels' = Append(channels,
                             [bound |-> b, notifier |-> n, buffer |-> <<>>, tokens |-> 0])
  BY DEF New
<1>2. [bound |-> b, notifier |-> n, buffer |-> <<>>, tokens |-> 0] \in ChannelRecord
  BY DEF ChannelRecord
<1>3. /\ channels' \in Seq(ChannelRecord) /\ Len(channels') = Len(channels) + 1
      /\ \A c \in Id : channels'[c] = channels[c]
      /\ channels'[new]
            = [bound |-> b, notifier |-> n, buffer |-> <<>>, tokens |-> 0]
  BY <1>0, <1>1, <1>2 DEF ChannelTypes, Id
<1>4. /\ sends' \in Seq(0 .. MaxSends) /\ Len(sends') = Len(channels')
      /\ \A c \in Id : sends'[c] = sends[c]
      /\ sends'[new] = 0
  <2>1. 0 \in 0 .. MaxSends
    BY ChannelAssumption DEF ChannelAssumption
  <2>2. QED
    BY <1>0, <1>3, <2>1, OneMore DEF New, ChannelTypes, Id
<1>5. /\ nulls' \in Seq(Nat) /\ Len(nulls') = Len(channels')
      /\ \A c \in Id : nulls'[c] = nulls[c]
      /\ nulls'[new] = 0
  BY <1>0, <1>3, OneMore DEF New, ChannelTypes, Id
<1>6. /\ accepted' \in Seq(Seq(Message)) /\ Len(accepted') = Len(channels')
      /\ \A c \in Id : accepted'[c] = accepted[c]
      /\ accepted'[new] = <<>>
      /\ received' \in Seq(Seq(Message)) /\ Len(received') = Len(channels')
      /\ \A c \in Id : received'[c] = received[c]
      /\ received'[new] = <<>>
  <2>1. <<>> \in Seq(Message)
    OBVIOUS
  <2>2. QED
    BY <1>0, <1>3, <2>1, OneMore DEF New, ChannelTypes, Id
<1>7. Id' = Id \cup {new} /\ caller' = Running
  BY <1>0, <1>3 DEF New, ChannelTypes, Id, Idle
<1>8. ChannelTypes'
  BY <1>3, <1>4, <1>5, <1>6, <1>7 DEF ChannelTypes
<1>9. ASSUME NEW c \in Id
      PROVE  Sound(c)'
  <2>1. UNCHANGED <<channels[c], sends[c], accepted[c], received[c], nulls[c], Coming(c)>>
    BY <1>3, <1>4, <1>5, <1>6 DEF New, Coming
  <2>2. Sound(c) /\ caller' = Running
    BY <1>7
  <2>3. QED
    BY <2>1, <2>2 DEF Sound, Running
<1>10. Sound(new)'
  <2>1. Coming(new)' = 0
    BY <1>7 DEF Coming, Running
  <2>2. <<>> \o <<>> = <<>> /\ PipeCapacity >= 0
    BY ChannelAssumption DEF ChannelAssumption
  <2>3. caller' # [at |-> "wait", on |-> new]
    BY <1>7 DEF Running
  <2>4. /\ channels'[new].buffer = <<>>
        /\ channels'[new].tokens = 0
    BY <1>3
  <2>5. b \in Nat /\ channels'[new].bound = b
    BY <1>3, ChannelAssumption DEF ChannelAssumption
  <2>6. QED
    BY <1>4, <1>5, <1>6, <2>1, <2>2, <2>3, <2>4, <2>5 DEF Sound
<1>11. QED
  BY <1>7, <1>8, <1>9, <1>10

-----------------------------------------------------------------------------
\* A sequence with another element.
LEMMA OneOther ==
    ASSUME NEW S, NEW s \in Seq(S), NEW i \in 1 .. Len(s), NEW e \in S
    PROVE  /\ [s EXCEPT ![i] = e] \in Seq(S) /\ Len([s EXCEPT ![i] = e]) = Len(s)
           /\ [s EXCEPT ![i] = e][i] = e
           /\ \A j \in 1 .. Len(s) \ {i} : [s EXCEPT ![i] = e][j] = s[j]
  BY ExceptSeq

\* The thread is free or inside a call on channel c.
On(c) == {Running, [at |-> "notify", on |-> c], [at |-> "wait", on |-> c]}

\* In one channel's sequence there is something else now.
Sets(s, c, e) == s' = [s EXCEPT ![c] = e]

\* A step of one channel keeps the invariant if it keeps that channel sound.
LEMMA OneChanges ==
    ASSUME ChannelInv, NEW c \in Id, caller \in On(c), caller' \in On(c), Sound(c)',
           NEW r \in ChannelRecord, Sets(channels, c, r),
           NEW s \in 0 .. MaxSends, Sets(sends, c, s),
           NEW a \in Seq(Message), Sets(accepted, c, a),
           NEW e \in Seq(Message), Sets(received, c, e),
           NEW n \in Nat, Sets(nulls, c, n)
    PROVE  ChannelInv'
<1> USE DEF ChannelInv, Sets
<1>1. /\ channels' \in Seq(ChannelRecord) /\ Len(channels') = Len(channels)
      /\ \A d \in Id \ {c} : channels'[d] = channels[d]
  BY OneOther DEF ChannelTypes, Id
<1>2. /\ sends' \in Seq(0 .. MaxSends) /\ Len(sends') = Len(channels)
      /\ \A d \in Id \ {c} : sends'[d] = sends[d]
  BY OneOther DEF ChannelTypes, Id
<1>3. /\ accepted' \in Seq(Seq(Message)) /\ Len(accepted') = Len(channels)
      /\ \A d \in Id \ {c} : accepted'[d] = accepted[d]
  BY OneOther DEF ChannelTypes, Id
<1>4. /\ received' \in Seq(Seq(Message)) /\ Len(received') = Len(channels)
      /\ \A d \in Id \ {c} : received'[d] = received[d]
  BY OneOther DEF ChannelTypes, Id
<1>5. /\ nulls' \in Seq(Nat) /\ Len(nulls') = Len(channels)
      /\ \A d \in Id \ {c} : nulls'[d] = nulls[d]
  BY OneOther DEF ChannelTypes, Id
<1>6. Id' = Id
  BY <1>1 DEF Id
<1>7. ChannelTypes'
  <2>1. caller' \in {Running} \cup [at : {"notify", "wait"}, on : Id]
    BY DEF On
  <2>2. QED
    BY <1>1, <1>2, <1>3, <1>4, <1>5, <1>6, <2>1 DEF ChannelTypes
<1>8. ASSUME NEW d \in Id \ {c}
      PROVE  Sound(d)'
  <2>1. UNCHANGED <<channels[d], sends[d], accepted[d], received[d], nulls[d]>>
    BY <1>1, <1>2, <1>3, <1>4, <1>5
  <2>2. /\ Coming(d) = 0 /\ Coming(d)' = 0
        /\ caller' # [at |-> "wait", on |-> d]
    BY DEF Coming, On, Running
  <2>3. Sound(d)
    OBVIOUS
  <2>4. QED
    BY <2>1, <2>2, <2>3 DEF Sound
<1>9. QED
  BY <1>6, <1>7, <1>8

\* What a step leaves alone it sets to what it was.
LEMMA Kept ==
    ASSUME ChannelTypes, NEW c \in Id
    PROVE  /\ UNCHANGED channels => Sets(channels, c, channels[c])
           /\ UNCHANGED sends => Sets(sends, c, sends[c])
           /\ UNCHANGED accepted => Sets(accepted, c, accepted[c])
           /\ UNCHANGED received => Sets(received, c, received[c])
           /\ UNCHANGED nulls => Sets(nulls, c, nulls[c])
  BY DEF ChannelTypes, Id, Sets

\* A message put in at the back is the last to come out.
LEMMA PutAtBack ==
    ASSUME NEW S, NEW s \in Seq(S), NEW q \in Seq(S), NEW e \in S
    PROVE  /\ s \o Append(q, e) = Append(s \o q, e)
           /\ Append(q, e) \in Seq(S) /\ Len(Append(q, e)) = Len(q) + 1
  OBVIOUS

\* A message taken at the front is the next to have come out.
LEMMA TakeAtFront ==
    ASSUME NEW S, NEW s \in Seq(S), NEW q \in Seq(S), q # <<>>
    PROVE  /\ Append(s, Head(q)) \o Tail(q) = s \o q
           /\ Append(s, Head(q)) \in Seq(S)
           /\ Tail(q) \in Seq(S) /\ Len(Tail(q)) = Len(q) - 1
  OBVIOUS

\* send of a full channel: the message is dropped.
LEMMA SendFullStep == ASSUME ChannelInv, NEW c \in Id, SendFull(c) PROVE ChannelInv'
<1> USE DEF ChannelInv
<1>1. /\ caller = Running /\ sends[c] \in 0 .. MaxSends /\ sends[c] + 1 \in 0 .. MaxSends
      /\ UNCHANGED <<channels, caller, accepted, received, nulls>>
  BY OneChannel, ChannelAssumption DEF ChannelAssumption, SendFull, Idle
<1>2. Sets(sends, c, sends[c] + 1) /\ sends'[c] = sends[c] + 1
  BY DEF SendFull, Sets, ChannelTypes, Id
<1>3. Sound(c)'
  <2>1. Sound(c) /\ Len(accepted[c]) \in Nat
    BY OneChannel
  <2>2. Len(accepted'[c]) <= sends'[c]
    BY <1>1, <1>2, <2>1 DEF Sound
  <2>3. QED
    BY <1>1, <2>1, <2>2 DEF Sound, Coming
<1>4. QED
  BY <1>1, <1>2, <1>3, Kept, OneChannel, OneChanges DEF On

\* send of a channel that has room.
LEMMA SendStep == ASSUME ChannelInv, NEW c \in Id, Send(c) PROVE ChannelInv'
<1> USE DEF ChannelInv
<1> DEFINE m == sends[c] + 1
           b == Append(channels[c].buffer, m)
           r == [channels[c] EXCEPT !.buffer = b]
           a == Append(accepted[c], m)
<1>1. caller = Running /\ sends[c] \in Nat /\ m \in 0 .. MaxSends /\ m \in Message
  BY OneChannel, ChannelAssumption DEF ChannelAssumption, Send, Idle, Message
<1>2. /\ Sets(channels, c, r) /\ Sets(accepted, c, a) /\ Sets(sends, c, m)
      /\ caller' = [at |-> "notify", on |-> c] /\ UNCHANGED <<received, nulls>>
  BY DEF Send, Sets, Stop
<1>3. /\ b \in Seq(Message) /\ Len(b) = Len(channels[c].buffer) + 1
      /\ a \in Seq(Message) /\ Len(a) = Len(accepted[c]) + 1
      /\ received[c] \o b = Append(received[c] \o channels[c].buffer, m)
  <2> HIDE DEF m
  <2>1. channels[c].buffer \in Seq(Message) /\ accepted[c] \in Seq(Message)
        /\ received[c] \in Seq(Message)
    BY OneChannel
  <2>2. \A q \in Seq(Message) : Append(q, m) \in Seq(Message) /\ Len(Append(q, m)) = Len(q) + 1
    BY <1>1, PutAtBack
  <2>3. received[c] \o b = Append(received[c] \o channels[c].buffer, m)
    <3>1. \A s, q \in Seq(Message) : s \o Append(q, m) = Append(s \o q, m)
      BY <1>1, PutAtBack
    <3>2. QED
      BY <2>1, <3>1
  <2>4. QED
    BY <2>1, <2>2, <2>3
<1>4. /\ r \in ChannelRecord /\ r.buffer = b
      /\ r.bound = channels[c].bound /\ r.notifier = channels[c].notifier
      /\ r.tokens = channels[c].tokens
  <2> HIDE DEF b
  <2>1. QED
    BY <1>3, OneChannel DEF ChannelRecord
<1>5. r.bound > 0 => Len(r.buffer) <= r.bound
  BY <1>3, <1>4, OneChannel, ChannelAssumption DEF ChannelAssumption, Send, Full
<1> HIDE DEF m, b, r, a
<1>6. channels'[c] = r /\ accepted'[c] = a /\ sends'[c] = m
  BY <1>2 DEF Sets, ChannelTypes, Id
<1>7. /\ Coming(c) = 0 /\ Coming(c)' = 1
      /\ caller' # [at |-> "wait", on |-> c]
  BY <1>1, <1>2 DEF Coming, Running
<1>8. /\ Len(channels[c].buffer) \in Nat /\ channels[c].tokens \in Nat
      /\ Len(accepted[c]) \in Nat /\ nulls[c] \in Nat
  BY OneChannel
<1>9. Sound(c)'
  <2>1. Sound(c)
    OBVIOUS
  <2>2. received[c] \o b = a
    BY <1>3, <2>1 DEF Sound, a
  <2>3. Len(a) <= m
    BY <1>1, <1>3, <1>8, <2>1 DEF Sound, m
  <2>4. /\ Len(r.buffer) <= r.tokens + 1
        /\ nulls[c] + r.tokens + 1 <= Len(a)
    BY <1>3, <1>4, <1>7, <1>8, <2>1 DEF Sound
  <2>5. r.notifier = "pipe" => r.tokens <= PipeCapacity
    BY <1>4, <2>1 DEF Sound
  <2>6. UNCHANGED <<received[c], nulls[c]>>
    BY <1>2
  <2>7. QED
    BY <1>4, <1>5, <1>6, <1>7, <2>2, <2>3, <2>4, <2>5, <2>6 DEF Sound
<1>10. QED
  BY <1>1, <1>2, <1>3, <1>4, <1>9, Kept, OneChannel, OneChanges DEF On

\* The end of send notifies.
LEMMA NotifyStep == ASSUME ChannelInv, NEW c \in Id, Notify(c) PROVE ChannelInv'
<1> USE DEF ChannelInv
<1> DEFINE r == [channels[c] EXCEPT !.tokens = @ + 1]
<1>1. /\ Sets(channels, c, r) /\ UNCHANGED <<sends, accepted, received, nulls>>
      /\ caller = [at |-> "notify", on |-> c] /\ caller' = Running
  BY DEF Notify, Sets, history
<1>2. /\ Len(channels[c].buffer) \in Nat /\ channels[c].tokens \in Nat
      /\ channels[c] \in ChannelRecord
  BY OneChannel
<1>3. /\ r \in ChannelRecord /\ r.buffer = channels[c].buffer
      /\ r.bound = channels[c].bound /\ r.notifier = channels[c].notifier
      /\ r.tokens = channels[c].tokens + 1
  BY <1>2 DEF ChannelRecord
<1>4. r.notifier = "pipe" => r.tokens <= PipeCapacity
  BY <1>2, <1>3, ChannelAssumption DEF ChannelAssumption, Notify, Writable
<1> HIDE DEF r
<1>5. channels'[c] = r
  BY <1>1 DEF Sets, ChannelTypes, Id
<1>6. /\ Coming(c) = 1 /\ Coming(c)' = 0
      /\ caller' # [at |-> "wait", on |-> c]
  BY <1>1 DEF Coming, Running
<1>7. Sound(c)'
  <2>1. Sound(c)
    OBVIOUS
  <2>2. /\ Len(r.buffer) <= r.tokens
        /\ nulls[c] + r.tokens <= Len(accepted[c])
    BY <1>2, <1>3, <1>6, <2>1, OneChannel DEF Sound
  <2>3. nulls[c] + r.tokens + 0 = nulls[c] + r.tokens /\ r.tokens + 0 = r.tokens
    BY <1>2, <1>3, OneChannel
  <2>4. QED
    BY <1>1, <1>3, <1>4, <1>5, <1>6, <2>1, <2>2, <2>3 DEF Sound
<1>8. QED
  BY <1>1, <1>3, <1>7, Kept, OneChannel, OneChanges DEF On

\* A receive finds a message.
LEMMA TakeStep == ASSUME ChannelInv, NEW c \in Id, Take(c) PROVE ChannelInv'
<1> USE DEF ChannelInv
<1> DEFINE b == channels[c].buffer
           r == [channels[c] EXCEPT !.buffer = Tail(b)]
           e == Append(received[c], Head(b))
<1>1. /\ Sets(channels, c, r) /\ Sets(received, c, e)
      /\ caller = Running /\ UNCHANGED <<caller, sends, accepted, nulls>>
      /\ b # <<>>
  BY DEF Take, PopFront, Idle, Sets
<1>2. /\ channels[c] \in ChannelRecord /\ channels[c].tokens \in Nat
      /\ b \in Seq(Message) /\ received[c] \in Seq(Message)
  BY OneChannel
<1> HIDE DEF b
<1>3. /\ e \o Tail(b) = received[c] \o b /\ e \in Seq(Message)
      /\ Tail(b) \in Seq(Message) /\ Len(Tail(b)) = Len(b) - 1 /\ Len(b) \in Nat
  BY <1>1, <1>2, TakeAtFront
<1>4. /\ r \in ChannelRecord /\ r.buffer = Tail(b)
      /\ r.bound = channels[c].bound /\ r.notifier = channels[c].notifier
      /\ r.tokens = channels[c].tokens
  BY <1>2, <1>3 DEF ChannelRecord
<1> HIDE DEF r, e
<1>5. channels'[c] = r /\ received'[c] = e
  BY <1>1 DEF Sets, ChannelTypes, Id
<1>6. /\ Coming(c) = 0 /\ Coming(c)' = 0
      /\ caller' # [at |-> "wait", on |-> c]
  BY <1>1 DEF Coming, Running
<1>7. Sound(c)'
  <2>1. Sound(c)
    OBVIOUS
  <2>2. Len(b) <= channels[c].tokens + 0 /\ (channels[c].bound > 0 => Len(b) <= channels[c].bound)
    BY <1>6, <2>1 DEF Sound, b
  <2>2a. channels[c].bound \in Nat
    BY OneChannel, ChannelAssumption DEF ChannelAssumption, ChannelRecord
  <2>2b. Len(r.buffer) <= r.tokens + 0
    BY <1>2, <1>3, <1>4, <2>2
  <2>2c. r.bound > 0 => Len(r.buffer) <= r.bound
    BY <1>3, <1>4, <2>2, <2>2a
  <2>3. e \o r.buffer = accepted[c]
    BY <1>3, <1>4, <2>1 DEF Sound, b
  <2>4. QED
    BY <1>1, <1>4, <1>5, <1>6, <2>1, <2>2b, <2>2c, <2>3 DEF Sound
<1>8. QED
  BY <1>1, <1>3, <1>4, <1>7, Kept, OneChannel, OneChanges DEF On

\* recv goes to wait at an empty buffer.
LEMMA RecvStep == ASSUME ChannelInv, NEW c \in Id, Recv(c) PROVE ChannelInv'
<1> USE DEF ChannelInv
<1>1. /\ caller = Running /\ caller' = [at |-> "wait", on |-> c]
      /\ UNCHANGED <<channels, sends, accepted, received, nulls>>
      /\ channels[c].buffer = <<>>
  BY DEF Recv, Idle, Stop, history
<1>2. Coming(c) = 0 /\ Coming(c)' = 0
  BY <1>1 DEF Coming, Running
<1>3. Sound(c)'
  BY <1>1, <1>2 DEF Sound
<1>4. QED
  BY <1>1, <1>3, Kept, OneChannel, OneChanges DEF On

\* A wait that finds a notification and no message takes the notification,
\* and returns Null.
LEMMA SpendStep ==
    ASSUME ChannelInv, NEW c \in Id, channels[c].buffer = <<>>, channels[c].tokens > 0,
           Sets(channels, c, [channels[c] EXCEPT !.tokens = Left(c)]),
           Sets(nulls, c, nulls[c] + 1),
           caller \in {Running, [at |-> "wait", on |-> c]}, caller' = Running,
           UNCHANGED <<sends, accepted, received>>
    PROVE  ChannelInv'
<1> USE DEF ChannelInv
<1> DEFINE r == [channels[c] EXCEPT !.tokens = Left(c)]
<1>1. channels[c] \in ChannelRecord /\ channels[c].tokens \in Nat /\ nulls[c] \in Nat
  BY OneChannel
<1>2. Left(c) \in Nat /\ Left(c) <= channels[c].tokens - 1
  BY <1>1 DEF Left
<1>3. /\ r \in ChannelRecord /\ r.buffer = channels[c].buffer
      /\ r.bound = channels[c].bound /\ r.notifier = channels[c].notifier
      /\ r.tokens = Left(c)
  BY <1>1, <1>2 DEF ChannelRecord
<1> HIDE DEF r
<1>4. Sets(channels, c, r)
  BY DEF r
<1>5. channels'[c] = r /\ nulls'[c] = nulls[c] + 1
  BY <1>4 DEF Sets, ChannelTypes, Id
<1>6. /\ Coming(c) = 0 /\ Coming(c)' = 0
      /\ caller' # [at |-> "wait", on |-> c]
  BY DEF Coming, Running
<1>7. Sound(c)'
  <2>1. Sound(c)
    OBVIOUS
  <2>2. /\ Len(r.buffer) <= r.tokens + 0
        /\ nulls[c] + 1 + r.tokens + 0 <= Len(accepted[c])
    BY <1>1, <1>2, <1>3, <1>6, <2>1, OneChannel DEF Sound
  <2>3. r.notifier = "pipe" => r.tokens <= PipeCapacity
    BY <1>1, <1>2, <1>3, <2>1, ChannelAssumption DEF ChannelAssumption, Sound
  <2>4. QED
    BY <1>3, <1>5, <1>6, <2>1, <2>2, <2>3 DEF Sound
<1>8. QED
  BY <1>1, <1>3, <1>4, <1>7, Kept, OneChannel, OneChanges DEF On

\* Every step keeps the invariant.
LEMMA ChannelInvNext == ChannelInv /\ [Next]_vars => ChannelInv'
<1> SUFFICES ASSUME ChannelInv, [Next]_vars PROVE ChannelInv'
  OBVIOUS
<1>1. CASE UNCHANGED vars
  BY <1>1 DEF vars, ChannelInv, ChannelTypes, Id, Sound, Coming
<1>2. ASSUME NEW c \in Id, RecvTimeout(c)
      PROVE  ChannelInv'
  BY <1>2, SpendStep DEF RecvTimeout, Idle, Sets
<1>3. ASSUME NEW c \in Id, Wake(c)
      PROVE  ChannelInv'
  <2>1. channels[c].buffer = <<>>
    BY <1>3 DEF Wake, ChannelInv, Sound
  <2>2. QED
    BY <1>3, <2>1, SpendStep DEF Wake, Sets
<1>4. QED
  BY <1>1, <1>2, <1>3, NewStep, SendFullStep, SendStep, NotifyStep, TakeStep, RecvStep
     DEF Next

\* The invariant holds in every reachable state.
LEMMA ChannelInvariance == Spec => []ChannelInv
  BY ChannelInvInit, ChannelInvNext, PTL DEF Spec

\* Channels: no accepted message is lost, repeated or overtaken, whichever of
\* the receives takes it.
THEOREM ChannelOrder == Spec => []Fifo
<1>1. ChannelInv => Fifo
  BY DEF ChannelInv, Sound, Fifo
<1>2. QED
  BY <1>1, ChannelInvariance, PTL

\* Channels: no message lies in the buffer without its notification, and no
\* notification is used twice.
THEOREM BufferAndNotifier == Spec => []NotificationsInStep
<1>1. ChannelInv => NotificationsInStep
  BY DEF ChannelInv, Sound, NotificationsInStep, NotifiedMessages, NotificationsUsedOnce
<1>2. QED
  BY <1>1, ChannelInvariance, PTL

\* The state of the channels has its types: a bounded buffer stays within its
\* bound, and a pipe within its capacity.
THEOREM ChannelTypeCorrect == Spec => []TypeOK
<1>1. ChannelInv => TypeOK
  <2> SUFFICES ASSUME ChannelInv PROVE TypeOK
    OBVIOUS
  <2>1. ASSUME NEW c \in Id
        PROVE  channels[c].tokens \in 0 .. MaxSends
    <3>1. Sound(c) /\ Coming(c) \in {0, 1} /\ sends[c] \in 0 .. MaxSends
      BY OneChannel DEF ChannelInv, Coming
    <3>2. channels[c].tokens \in Nat /\ nulls[c] \in Nat /\ Len(accepted[c]) \in Nat
      BY OneChannel DEF ChannelInv
    <3>3. QED
      BY <3>1, <3>2, ChannelAssumption DEF ChannelAssumption, Sound
  <2>2. QED
    BY <2>1, OneChannel DEF ChannelInv, ChannelTypes, Sound, TypeOK
<1>2. QED
  BY <1>1, ChannelInvariance, PTL

-----------------------------------------------------------------------------
(***************************************************************************)
(* Values over a connection.  The units of a connection lie in one line:   *)
(* the ones read_exact has taken, the stream, and the ones write_all has   *)
(* still to write.                                                         *)
(***************************************************************************)
Arrived == taken \o stream
OnTheWay == Arrived \o writing

SentUnit == [value : 1 .. Len(bodies), part : 1 .. 2 + MaxBody]

FramesTypes ==
    /\ bodies \in Seq(1 .. MaxBody) /\ Len(bodies) <= MaxValues
    /\ writing \in Seq(SentUnit) /\ stream \in Seq(SentUnit) /\ taken \in Seq(SentUnit)
    /\ sender \in {"open", "quiet", "closed", "reset"}
    /\ closed \in BOOLEAN /\ ended \in BOOLEAN
    /\ at \in {"idle", "header", "body"}
    /\ need \in 0 .. 2 \cup 0 .. Limit
    /\ at = "header" => need + Len(taken) = 2
    /\ at = "idle" => need = 0
    /\ delivered \in Seq(0 .. MaxValues)
    /\ failures \in 0 .. MaxFailures /\ (at # "idle" => failures < MaxFailures)

\* At the start nothing is on its way.
LEMMA FramesTypesInit == FramesInit => FramesTypes
<1> SUFFICES ASSUME FramesInit PROVE FramesTypes
  OBVIOUS
<1>1. bodies = <<>> /\ writing = <<>> /\ stream = <<>> /\ taken = <<>> /\ delivered = <<>>
  BY DEF FramesInit
<1>2. /\ bodies \in Seq(1 .. MaxBody) /\ Len(bodies) = 0
      /\ writing \in Seq(SentUnit) /\ stream \in Seq(SentUnit) /\ taken \in Seq(SentUnit)
      /\ delivered \in Seq(0 .. MaxValues)
  BY <1>1, EmptySeq
<1>3. /\ need = 0 /\ failures = 0 /\ at = "idle" /\ sender = "open"
      /\ closed = FALSE /\ ended = FALSE
  BY DEF FramesInit
<1>4. 0 \in 0 .. MaxFailures /\ 0 \in 0 .. 2 /\ 0 <= MaxValues
  BY FramesAssumption DEF FramesAssumption
<1>5. QED
  BY <1>2, <1>3, <1>4 DEF FramesTypes

\* What is sent: its units, one after the other.
LEMMA EncodedUnits ==
    ASSUME NEW n \in Nat, NEW k \in 1 .. n, NEW body \in 1 .. MaxBody
    PROVE  /\ Encoded(k, body) \in Seq([value : 1 .. n, part : 1 .. 2 + MaxBody])
           /\ Len(Encoded(k, body)) = 2 + body
           /\ \A i \in 1 .. 2 + body : Encoded(k, body)[i] = [value |-> k, part |-> i]
<1> DEFINE S == [value : 1 .. n, part : 1 .. 2 + MaxBody]
           e == [i \in 1 .. 2 + body |-> [value |-> k, part |-> i]]
<1>1. 2 + body \in Nat /\ MaxBody \in Nat
  BY FramesAssumption DEF FramesAssumption
<1>2. \A i \in 1 .. 2 + body : [value |-> k, part |-> i] \in S
  BY <1>1
<1>3. e \in [1 .. 2 + body -> S]
  BY <1>2
<1>4. e \in Seq(S) /\ Len(e) = 2 + body
  BY <1>1, <1>3
<1>5. QED
  BY <1>4 DEF Encoded

\* A value is sent.
LEMMA SendTypes == ASSUME FramesTypes, SendValue PROVE FramesTypes'
<1>1. PICK body \in 1 .. MaxBody :
          /\ bodies' = Append(bodies, body)
          /\ writing' = Encoded(Len(bodies) + 1, body)
  BY DEF SendValue
<1>2. /\ bodies' \in Seq(1 .. MaxBody) /\ Len(bodies') = Len(bodies) + 1
      /\ Len(bodies) \in Nat /\ Len(bodies') <= MaxValues
  BY <1>1, FramesAssumption DEF FramesTypes, SendValue, FramesAssumption
<1>3. writing' \in Seq(SentUnit')
  BY <1>1, <1>2, EncodedUnits DEF SentUnit
<1>4. SentUnit \subseteq SentUnit'
  BY <1>2 DEF SentUnit
<1>5. stream' \in Seq(SentUnit') /\ taken' \in Seq(SentUnit')
  BY <1>4, SeqMonotonic DEF FramesTypes, SendValue, receiving
<1>6. QED
  BY <1>2, <1>3, <1>5 DEF FramesTypes, SendValue, receiving

\* A call returns.
LEMMA ReturnTypes ==
    ASSUME FramesTypes, Returns, at # "idle", UNCHANGED <<sending, stream>>,
           delivered' \in Seq(0 .. MaxValues), failures' \in {failures, failures + 1},
           ended' \in BOOLEAN
    PROVE  FramesTypes'
<1>1. taken' = <<>> /\ need' = 0 /\ at' = "idle"
  BY DEF Returns, ReadExact
<1>2. taken' \in Seq(SentUnit')
  BY <1>1, EmptySeq
<1>3. failures' \in 0 .. MaxFailures
  BY FramesAssumption DEF FramesTypes, FramesAssumption
<1>4. SentUnit' = SentUnit
  BY DEF SentUnit, sending
<1>5. /\ bodies' = bodies /\ writing' = writing /\ sender' = sender
      /\ closed' = closed /\ stream' = stream
  BY DEF sending
<1>6. QED
  BY <1>1, <1>2, <1>3, <1>4, <1>5, FramesAssumption DEF FramesTypes, FramesAssumption

\* The sending side keeps its types.
LEMMA SenderTypes ==
    ASSUME FramesTypes,
           Arrive \/ CloseSender \/ CloseServer \/ Crash \/ Reset \/ CloseReceiver
    PROVE  FramesTypes'
<1>1. /\ bodies' = bodies /\ ended' = ended /\ at' = at /\ need' = need /\ taken' = taken
      /\ delivered' = delivered /\ failures' = failures /\ closed' \in BOOLEAN
      /\ sender' \in {"open", "quiet", "closed", "reset"}
  BY DEF FramesTypes, Arrive, CloseSender, CloseServer, Crash, Reset, CloseReceiver, receiving
<1>2. SentUnit' = SentUnit
  BY <1>1 DEF SentUnit
<1>3. writing' \in Seq(SentUnit) /\ stream' \in Seq(SentUnit)
  <2>1. CASE Arrive
    BY <2>1, TakeAtFront DEF FramesTypes, Arrive
  <2>2. CASE ~Arrive
    BY <2>2, EmptySeq DEF FramesTypes, CloseSender, CloseServer, Crash, Reset, CloseReceiver
  <2>3. QED
    BY <2>1, <2>2
<1>4. QED
  BY <1>1, <1>2, <1>3 DEF FramesTypes

\* A read begins and goes on.
LEMMA ReaderTypes ==
    ASSUME FramesTypes, RecvValue \/ ReadUnit \/ HeaderRead
    PROVE  FramesTypes'
<1>1. CASE RecvValue
  <2>1. taken' = <<>> /\ need' = 2 /\ at' = "header"
    BY <1>1 DEF RecvValue, ReadExact
  <2>2. taken' \in Seq(SentUnit') /\ Len(taken') = 0
    BY <2>1, EmptySeq
  <2>3. SentUnit' = SentUnit
    BY <1>1 DEF SentUnit, sending, RecvValue
  <2>4. failures' < MaxFailures
    BY <1>1 DEF RecvValue
  <2>5. QED
    BY <1>1, <2>1, <2>2, <2>3, <2>4 DEF FramesTypes, RecvValue, sending
<1>2. CASE ReadUnit
  <2>1. /\ taken' \in Seq(SentUnit) /\ stream' \in Seq(SentUnit)
        /\ Len(taken') = Len(taken) + 1
    BY <1>2, TakeAtFront DEF ReadUnit, FramesTypes
  <2>2. need \in Nat /\ need > 0 /\ need' = need - 1
    BY <1>2, FramesAssumption DEF ReadUnit, FramesTypes, FramesAssumption
  <2>3. SentUnit' = SentUnit
    BY <1>2 DEF SentUnit, sending, ReadUnit
  <2>4. need' \in 0 .. 2 \cup 0 .. Limit
    BY <2>2, FramesAssumption DEF FramesTypes, FramesAssumption
  <2>5. Len(taken) \in Nat
    BY DEF FramesTypes
  <2>6. QED
    BY <1>2, <2>1, <2>2, <2>3, <2>4, <2>5 DEF FramesTypes, ReadUnit, sending
<1>3. CASE HeaderRead
  <2>1. CASE Fails
    <3>1. UNCHANGED <<sending, stream>> /\ at # "idle"
      BY <1>3 DEF HeaderRead
    <3>2. QED
      BY <2>1, <3>1, ReturnTypes DEF Fails, FramesTypes
  <2>2. ASSUME NEW n \in Length, n <= Limit, ReadExact("body", n),
               UNCHANGED <<delivered, failures, ended>>
        PROVE  FramesTypes'
    <3>1. n \in Nat
      <4>1. CASE IsHeader
        <5>1. Len(taken) = 2
          BY <1>3 DEF HeaderRead, FramesTypes
        <5>2. taken[1] \in SentUnit
          <6>1. 1 \in 1 .. Len(taken) /\ taken \in Seq(SentUnit)
            BY <5>1 DEF FramesTypes
          <6>2. QED
            BY <6>1, ElementOfSeq
        <5>3. n = bodies[taken[1].value] /\ taken[1].value \in 1 .. Len(bodies)
          BY <2>2, <4>1, <5>2 DEF Length, SentUnit
        <5>4. bodies[taken[1].value] \in 1 .. MaxBody
          <6>1. bodies \in Seq(1 .. MaxBody)
            BY DEF FramesTypes
          <6>2. QED
            BY <5>3, <6>1, ElementOfSeq
        <5>5. QED
          BY <5>3, <5>4
      <4>2. CASE ~IsHeader
        BY <2>2, <4>2, FramesAssumption DEF Length, FramesAssumption
      <4>3. QED
        BY <4>1, <4>2
    <3>2. taken' = <<>> /\ need' = n /\ at' = "body"
      BY <2>2 DEF ReadExact
    <3>3. taken' \in Seq(SentUnit')
      BY <3>2, EmptySeq
    <3>4. SentUnit' = SentUnit
      BY <1>3 DEF SentUnit, sending, HeaderRead
    <3>5. need' \in 0 .. 2 \cup 0 .. Limit
      BY <2>2, <3>1, <3>2, FramesAssumption DEF FramesAssumption
    <3>6. failures' < MaxFailures
      BY <1>3, <2>2 DEF HeaderRead, FramesTypes
    <3>7. QED
      BY <1>3, <2>2, <3>2, <3>3, <3>4, <3>5, <3>6 DEF FramesTypes, HeaderRead, sending
  <2>3. QED
    BY <1>3, <2>1, <2>2 DEF HeaderRead
<1>4. QED
  BY <1>1, <1>2, <1>3

\* A read ends.
LEMMA EndTypes ==
    ASSUME FramesTypes, BodyRead \/ EndOfStream \/ TimeOut
    PROVE  FramesTypes'
<1>1. UNCHANGED <<sending, stream>>
  BY DEF BodyRead, EndOfStream, TimeOut
<1>2. at # "idle" /\ Returns
  BY FramesAssumption DEF BodyRead, EndOfStream, TimeOut, Fails, FramesTypes, FramesAssumption
<1>3. failures' \in {failures, failures + 1} /\ ended' \in BOOLEAN
  BY DEF BodyRead, EndOfStream, TimeOut, Fails, FramesTypes
<1>4. delivered' \in Seq(0 .. MaxValues)
  <2>1. CASE delivered' = delivered
    BY <2>1 DEF FramesTypes
  <2>2. ASSUME NEW k \in 0 .. MaxValues, delivered' = Append(delivered, k)
        PROVE  delivered' \in Seq(0 .. MaxValues)
    BY <2>2 DEF FramesTypes
  <2>3. 0 \in 0 .. MaxValues /\ \A k \in DOMAIN bodies : k \in 0 .. MaxValues
    BY FramesAssumption DEF FramesTypes, FramesAssumption
  <2>4. QED
    BY <2>1, <2>2, <2>3 DEF BodyRead, EndOfStream, TimeOut, Fails
<1>5. QED
  BY <1>1, <1>2, <1>3, <1>4, ReturnTypes

-----------------------------------------------------------------------------
\* The value in hand, and how much of it is behind the reader.
Current == Len(delivered) + 1
Skipped == IF at = "body" THEN 2 ELSE 0

\* The unit after u on the line, for bodies of these sizes.
IsLast(sizes, u) == u.part = 2 + sizes[u.value]
Following(sizes, u) ==
    IF IsLast(sizes, u) THEN [value |-> u.value + 1, part |-> 1]
    ELSE [value |-> u.value, part |-> u.part + 1]

\* The units of s follow one another, the first of them u.
Chain(sizes, s, u) ==
    /\ s # <<>> => s[1] = u
    /\ \A i \in 1 .. Len(s) - 1 : s[i + 1] = Following(sizes, s[i])

\* The units of s belong to value k, and come after some others of it.
Piece(s, k, before) == \A i \in 1 .. Len(s) : s[i] = [value |-> k, part |-> before + i]

Final(s) == s[Len(s)]

(***************************************************************************)
(* Until a call fails, the line has no gap and begins where the reader is  *)
(* (Unbroken); read_exact asks for what belongs to the value in hand       *)
(* (Reading); the line ends with the last value sent, if its sender is     *)
(* there to write it (Sending); the values written whole are those whose   *)
(* last unit has arrived (Wholes); and after Ok(None) nothing comes        *)
(* (NothingMore).                                                          *)
(***************************************************************************)
Unbroken == Chain(bodies, OnTheWay, [value |-> Current, part |-> Skipped + 1])

Reading ==
    /\ at = "idle" => taken = <<>>
    /\ at = "body" => Current <= Len(bodies) /\ need + Len(taken) = bodies[Current]
    /\ Piece(taken, Current, Skipped)

Sending ==
    /\ sender \in {"closed", "reset"} => writing = <<>>
    /\ sender = "reset" => stream = <<>>
    /\ writing # <<>> =>
          /\ bodies # <<>>
          /\ Piece(writing, Len(bodies), 2 + bodies[Len(bodies)] - Len(writing))
    /\ sender \in {"open", "quiet"} =>
          IF OnTheWay = <<>> THEN at # "body" /\ Len(delivered) = Len(bodies)
          ELSE /\ bodies # <<>>
               /\ Final(OnTheWay) = [value |-> Len(bodies), part |-> 2 + bodies[Len(bodies)]]

WrittenWhole ==
    IF Arrived = <<>> THEN Len(delivered)
    ELSE IF IsLast(bodies, Final(Arrived)) THEN Final(Arrived).value
    ELSE Final(Arrived).value - 1

Wholes == sender # "reset" => whole = WrittenWhole

NothingMore ==
    ended => \/ sender = "reset"
             \/ sender = "closed" /\ stream = <<>> /\ taken = <<>> /\ at # "body"

InOrder ==
    /\ delivered = [k \in 1 .. Len(delivered) |-> k]
    /\ Unbroken /\ Reading /\ Sending /\ Wholes /\ NothingMore

FramesInv == FramesTypes /\ (failures = 0 => InOrder)

-----------------------------------------------------------------------------
\* Three sequences in a line, with and without the first.
LEMMA Line ==
    ASSUME NEW S, NEW a \in Seq(S), NEW b \in Seq(S), NEW c \in Seq(S)
    PROVE  LET w == (a \o b) \o c
               v == (<<>> \o b) \o c
           IN  /\ w \in Seq(S) /\ v \in Seq(S) /\ Len(w) = Len(a) + Len(v)
               /\ Len(v) = Len(b) + Len(c)
               /\ \A i \in 1 .. Len(a) : w[i] = a[i]
               /\ \A i \in 1 .. Len(v) : v[i] = w[Len(a) + i]
               /\ \A i \in 1 .. Len(b) : v[i] = b[i]
               /\ \A i \in 1 .. Len(c) : v[Len(b) + i] = c[i]
<1> DEFINE v == b \o c
           w == (a \o b) \o c
<1>1. <<>> \o b = b
  BY ConcatEmptySeq
<1>2. /\ v \in Seq(S) /\ Len(v) = Len(b) + Len(c)
      /\ \A i \in 1 .. Len(b) : v[i] = b[i]
      /\ \A i \in 1 .. Len(c) : v[Len(b) + i] = c[i]
  OBVIOUS
<1> HIDE DEF v
<1>3. w = a \o v
  BY ConcatAssociative DEF v
<1>4. /\ w \in Seq(S) /\ Len(w) = Len(a) + Len(v)
      /\ \A i \in 1 .. Len(a) : w[i] = a[i]
      /\ \A i \in 1 .. Len(v) : v[i] = w[Len(a) + i]
  BY <1>2, <1>3
<1>5. QED
  BY <1>1, <1>2, <1>4 DEF v

\* What is left of a chain follows what was taken.
LEMMA ChainTail ==
    ASSUME NEW S, NEW w \in Seq(S), NEW v \in Seq(S), NEW k \in Nat \ {0}, NEW u,
           Len(w) = k + Len(v), \A i \in 1 .. Len(v) : v[i] = w[k + i],
           Chain(bodies, w, u)
    PROVE  Chain(bodies, v, Following(bodies, w[k]))
<1>1. \A i \in 1 .. Len(w) - 1 : w[i + 1] = Following(bodies, w[i])
  BY DEF Chain
<1>2. v # <<>> => v[1] = Following(bodies, w[k])
  <2>1. SUFFICES ASSUME v # <<>> PROVE v[1] = Following(bodies, w[k])
    OBVIOUS
  <2>2. Len(v) \in Nat \ {0}
    BY <2>1, EmptySeq
  <2>3. k \in 1 .. Len(w) - 1 /\ v[1] = w[k + 1]
    BY <2>2
  <2>4. QED
    BY <1>1, <2>3
<1>3. ASSUME NEW i \in 1 .. Len(v) - 1
      PROVE  v[i + 1] = Following(bodies, v[i])
  <2>1. /\ v[i] = w[k + i] /\ v[i + 1] = w[(k + i) + 1] /\ k + i \in 1 .. Len(w) - 1
    <3>1. Len(v) \in Nat
      OBVIOUS
    <3>2. i \in 1 .. Len(v) /\ i + 1 \in 1 .. Len(v) /\ k + (i + 1) = (k + i) + 1
      BY <3>1
    <3>3. QED
      BY <3>1, <3>2
  <2>2. w[(k + i) + 1] = Following(bodies, w[k + i])
    BY <1>1, <2>1
  <2>3. QED
    BY <2>1, <2>2
<1>4. QED
  BY <1>2, <1>3 DEF Chain

\* One unit moves on.
LEMMA OneMoves ==
    ASSUME NEW S, NEW a \in Seq(S), NEW b \in Seq(S), b # <<>>
    PROVE  /\ Append(a, Head(b)) \o Tail(b) = a \o b
           /\ Append(a, Head(b)) \in Seq(S) /\ Tail(b) \in Seq(S)
           /\ Head(b) = b[1] /\ Len(b) \in Nat \ {0} /\ Len(Tail(b)) = Len(b) - 1
           /\ \A i \in 1 .. Len(b) - 1 : Tail(b)[i] = b[i + 1]
  OBVIOUS

\* The connection starts in order.
LEMMA FramesInvInit == FramesInit => FramesInv
<1> SUFFICES ASSUME FramesInit PROVE InOrder
  BY FramesTypesInit DEF FramesInv
<1>1. /\ OnTheWay = <<>> /\ Arrived = <<>> /\ taken = <<>> /\ writing = <<>>
      /\ bodies = <<>> /\ delivered = <<>> /\ at = "idle" /\ sender = "open"
      /\ ended = FALSE /\ whole = 0
  BY DEF FramesInit, OnTheWay, Arrived
<1>2. QED
  BY <1>1 DEF InOrder, Unbroken, Chain, Reading, Piece, Sending, Wholes, WrittenWhole, NothingMore

\* What is known of the connection's sequences.
LEMMA Known ==
    ASSUME FramesTypes
    PROVE  /\ Arrived \in Seq(SentUnit) /\ OnTheWay \in Seq(SentUnit)
           /\ Len(Arrived) \in Nat /\ Len(OnTheWay) \in Nat
           /\ Len(Arrived) = Len(taken) + Len(stream)
           /\ Len(OnTheWay) = Len(Arrived) + Len(writing)
           /\ Len(taken) \in Nat /\ Len(stream) \in Nat /\ Len(writing) \in Nat
           /\ Len(delivered) \in Nat /\ Len(bodies) \in Nat /\ need \in Nat
           /\ \A k \in 1 .. Len(bodies) : bodies[k] \in 1 .. MaxBody
           /\ MaxBody \in Nat
<1>1. taken \in Seq(SentUnit) /\ stream \in Seq(SentUnit) /\ writing \in Seq(SentUnit)
  BY DEF FramesTypes
<1>2. Arrived \in Seq(SentUnit) /\ Len(Arrived) = Len(taken) + Len(stream)
  BY <1>1 DEF Arrived
<1>3. OnTheWay \in Seq(SentUnit) /\ Len(OnTheWay) = Len(Arrived) + Len(writing)
  BY <1>1, <1>2 DEF OnTheWay
<1>4. need \in Nat /\ MaxBody \in Nat
  BY FramesAssumption DEF FramesTypes, FramesAssumption
<1>5. \A k \in 1 .. Len(bodies) : bodies[k] \in 1 .. MaxBody
  BY ElementOfSeq DEF FramesTypes
<1>6. Len(delivered) \in Nat /\ Len(bodies) \in Nat
  BY DEF FramesTypes
<1>7. QED
  BY <1>1, <1>2, <1>3, <1>4, <1>5, <1>6

\* The last of a line of two parts.
LEMMA FinalOfTwo ==
    ASSUME NEW S, NEW s \in Seq(S), NEW q \in Seq(S)
    PROVE  /\ s \o q = <<>> <=> s = <<>> /\ q = <<>>
           /\ q # <<>> => Final(s \o q) = Final(q)
           /\ q = <<>> => s \o q = s
  BY DEF Final

\* A read begins.
LEMMA BeginInOrder == ASSUME FramesTypes, InOrder, RecvValue PROVE InOrder'
<1>1. /\ taken' = taken /\ stream' = stream /\ writing' = writing /\ bodies' = bodies
      /\ delivered' = delivered /\ sender' = sender /\ ended' = ended /\ whole' = whole
      /\ at = "idle" /\ at' = "header"
  BY DEF RecvValue, ReadExact, sending, InOrder, Reading
<1>2. /\ OnTheWay' = OnTheWay /\ Arrived' = Arrived /\ Skipped' = Skipped /\ Current' = Current
  BY <1>1 DEF OnTheWay, Arrived, Skipped, Current
<1>3. Unbroken'
  BY <1>1, <1>2 DEF InOrder, Unbroken, Chain, Following, IsLast
<1>4. Reading'
  BY <1>1, <1>2 DEF InOrder, Reading, Piece
<1>5. Sending' /\ Wholes' /\ NothingMore'
  BY <1>1, <1>2 DEF InOrder, Sending, Piece, Final, Wholes, WrittenWhole, IsLast, NothingMore
<1>6. QED
  BY <1>1, <1>3, <1>4, <1>5 DEF InOrder

\* The receiver's flag, the server's, and a close between two values.
LEMMA CloseInOrder ==
    ASSUME FramesTypes, InOrder, CloseSender \/ CloseServer \/ CloseReceiver
    PROVE  InOrder'
<1>1. /\ taken' = taken /\ stream' = stream /\ writing' = writing /\ bodies' = bodies
      /\ delivered' = delivered /\ ended' = ended /\ whole' = whole /\ at' = at /\ need' = need
      /\ \/ sender' = sender
         \/ sender = "open" /\ sender' = "quiet"
         \/ sender = "open" /\ sender' = "closed" /\ writing = <<>>
  BY DEF CloseSender, CloseServer, CloseReceiver, receiving
<1>2. /\ OnTheWay' = OnTheWay /\ Arrived' = Arrived /\ Skipped' = Skipped /\ Current' = Current
  BY <1>1 DEF OnTheWay, Arrived, Skipped, Current
<1>3. Unbroken'
  BY <1>1, <1>2 DEF InOrder, Unbroken, Chain, Following, IsLast
<1>4. Reading'
  BY <1>1, <1>2 DEF InOrder, Reading, Piece
<1>5. Sending'
  BY <1>1, <1>2 DEF InOrder, Sending, Piece, Final
<1>6. Wholes' /\ NothingMore'
  BY <1>1, <1>2 DEF InOrder, Wholes, WrittenWhole, Final, IsLast, NothingMore
<1>7. QED
  BY <1>1, <1>3, <1>4, <1>5, <1>6 DEF InOrder

\* What is not written any more, or not read, is cut off the end of the line.
LEMMA CutInOrder ==
    ASSUME FramesTypes, InOrder, Crash \/ Reset
    PROVE  InOrder'
<1>1. /\ taken' = taken /\ writing' = <<>> /\ bodies' = bodies
      /\ delivered' = delivered /\ ended' = ended /\ whole' = whole /\ at' = at /\ need' = need
      /\ \/ sender \in {"open", "quiet"} /\ sender' = "closed" /\ stream' = stream
         \/ sender' = "reset" /\ stream' = <<>>
  BY DEF Crash, Reset, receiving
<1>2. Skipped' = Skipped /\ Current' = Current
  BY <1>1 DEF Skipped, Current
<1>3. taken \in Seq(SentUnit) /\ stream \in Seq(SentUnit) /\ writing \in Seq(SentUnit)
  BY DEF FramesTypes
<1>4. /\ OnTheWay' = Arrived' /\ Arrived' \in Seq(SentUnit)
      /\ Len(Arrived') \in Nat /\ Len(Arrived') <= Len(OnTheWay)
      /\ \A i \in 1 .. Len(Arrived') : Arrived'[i] = OnTheWay[i]
  <2>1. CASE stream' = stream
    BY <1>1, <1>3, <2>1 DEF OnTheWay, Arrived
  <2>2. CASE stream' = <<>>
    BY <1>1, <1>3, <2>2 DEF OnTheWay, Arrived
  <2>3. QED
    BY <1>1, <2>1, <2>2
<1>5. Unbroken'
  <2>1. OnTheWay' # <<>> => OnTheWay'[1] = [value |-> Current', part |-> Skipped' + 1]
    <3>1. SUFFICES ASSUME OnTheWay' # <<>>
                   PROVE  OnTheWay'[1] = [value |-> Current, part |-> Skipped + 1]
      BY <1>2
    <3>2. Len(Arrived') # 0
      BY <1>4, <3>1, EmptySeq
    <3>3. OnTheWay # <<>> /\ OnTheWay'[1] = OnTheWay[1]
      BY <1>4, <3>2, Known
    <3>4. QED
      BY <3>3 DEF InOrder, Unbroken, Chain
  <2>2. ASSUME NEW i \in 1 .. Len(OnTheWay') - 1
        PROVE  OnTheWay'[i + 1] = Following(bodies, OnTheWay'[i])
    <3>1. /\ i \in 1 .. Len(OnTheWay) - 1 /\ i + 1 \in 1 .. Len(Arrived')
          /\ i \in 1 .. Len(Arrived')
      BY <1>4, Known
    <3>2. OnTheWay[i + 1] = Following(bodies, OnTheWay[i])
      BY <3>1 DEF InOrder, Unbroken, Chain
    <3>3. QED
      BY <1>4, <3>1, <3>2
  <2>3. QED
    BY <1>1, <2>1, <2>2 DEF Unbroken, Chain, Following, IsLast
<1>6. Reading'
  BY <1>1, <1>2 DEF InOrder, Reading, Piece
<1>7. Sending'
  BY <1>1 DEF Sending
<1>8. Wholes'
  <2>1. CASE sender' = "reset"
    BY <2>1 DEF Wholes
  <2>2. CASE sender' = "closed"
    BY <1>1, <2>2 DEF InOrder, Wholes, WrittenWhole, Arrived, Final, IsLast
  <2>3. QED
    BY <1>1, <2>1, <2>2
<1>9. NothingMore'
  BY <1>1 DEF InOrder, NothingMore
<1>10. QED
  BY <1>1, <1>5, <1>6, <1>7, <1>8, <1>9 DEF InOrder

\* The unit at the head of the stream is the next of the value in hand, as
\* long as read_exact asks for one.
LEMMA NextUnit ==
    ASSUME FramesTypes, InOrder, need > 0, stream # <<>>
    PROVE  Head(stream) = [value |-> Current, part |-> Skipped + (Len(taken) + 1)]
<1>1. taken \in Seq(SentUnit) /\ stream \in Seq(SentUnit) /\ writing \in Seq(SentUnit)
  BY DEF FramesTypes
<1>2. Len(stream) \in Nat \ {0} /\ Head(stream) = stream[1]
  BY <1>1, OneMoves
<1>3. /\ \A i \in 1 .. Len(taken) : OnTheWay[i] = taken[i]
      /\ stream[1] = OnTheWay[Len(taken) + 1]
      /\ Len(taken) + 1 <= Len(OnTheWay)
  <2>1. LET w == (taken \o stream) \o writing
            v == (<<>> \o stream) \o writing
        IN  /\ Len(w) = Len(taken) + Len(v)
            /\ Len(v) = Len(stream) + Len(writing)
            /\ \A i \in 1 .. Len(taken) : w[i] = taken[i]
            /\ \A i \in 1 .. Len(v) : v[i] = w[Len(taken) + i]
            /\ \A i \in 1 .. Len(stream) : v[i] = stream[i]
    BY <1>1, Line
  <2>2. Len(taken) \in Nat /\ Len(writing) \in Nat
    BY <1>1
  <2>3. QED
    BY <1>2, <2>1, <2>2 DEF OnTheWay, Arrived
<1>4. CASE taken = <<>>
  <2>1. Len(taken) = 0 /\ OnTheWay # <<>>
    BY <1>3, <1>4, Known, EmptySeq
  <2>2. OnTheWay[1] = [value |-> Current, part |-> Skipped + 1]
    BY <2>1 DEF InOrder, Unbroken, Chain
  <2>3. QED
    BY <1>2, <1>3, <2>1, <2>2
<1>5. CASE taken # <<>>
  <2>1. Len(taken) \in 1 .. Len(OnTheWay) - 1
    BY <1>1, <1>3, <1>5, Known, EmptySeq
  <2>2. OnTheWay[Len(taken) + 1] = Following(bodies, OnTheWay[Len(taken)])
    BY <2>1 DEF InOrder, Unbroken, Chain
  <2>3. Len(taken) \in 1 .. Len(taken)
    BY <1>1, <2>1
  <2>4. OnTheWay[Len(taken)] = [value |-> Current, part |-> Skipped + Len(taken)]
    BY <1>3, <2>3 DEF InOrder, Reading, Piece
  <2>5. Current \in 1 .. Len(bodies)
    <3>1. OnTheWay[Len(taken)] \in SentUnit
      BY <1>1, <1>3, <2>3, ElementOfSeq
    <3>2. QED
      BY <2>4, <3>1 DEF SentUnit
  <2>6. Skipped + Len(taken) # 2 + bodies[Current]
    <3>1. bodies[Current] \in Nat \ {0} /\ Len(taken) \in Nat /\ need \in Nat
      BY <2>5, Known
    <3>2. CASE at = "body"
      BY <3>1, <3>2 DEF InOrder, Reading, Skipped
    <3>3. CASE at # "body"
      BY <3>1, <3>3 DEF FramesTypes, Skipped
    <3>4. QED
      BY <3>2, <3>3
  <2>7. Skipped + Len(taken) + 1 = Skipped + (Len(taken) + 1)
    BY Known DEF Skipped
  <2>8. QED
    BY <1>2, <1>3, <2>2, <2>4, <2>6, <2>7 DEF Following, IsLast
<1>6. QED
  BY <1>4, <1>5

\* A unit is read.
LEMMA ReadInOrder == ASSUME FramesTypes, InOrder, ReadUnit PROVE InOrder'
<1>1. /\ taken' = Append(taken, Head(stream)) /\ stream' = Tail(stream) /\ writing' = writing
      /\ bodies' = bodies /\ delivered' = delivered /\ sender' = sender /\ ended' = ended
      /\ whole' = whole /\ at' = at /\ need' = need - 1
      /\ need > 0 /\ stream # <<>>
  BY DEF ReadUnit, sending
<1>2. taken \in Seq(SentUnit) /\ stream \in Seq(SentUnit)
  BY DEF FramesTypes
<1>3. OnTheWay' = OnTheWay /\ Arrived' = Arrived /\ Skipped' = Skipped /\ Current' = Current
  BY <1>1, <1>2, OneMoves DEF OnTheWay, Arrived, Skipped, Current
<1>4. Unbroken'
  BY <1>1, <1>3 DEF InOrder, Unbroken, Chain, Following, IsLast
<1>5. /\ Len(taken') = Len(taken) + 1 /\ Head(stream) \in SentUnit
      /\ \A i \in 1 .. Len(taken) : taken'[i] = taken[i]
      /\ taken'[Len(taken) + 1] = Head(stream)
  BY <1>1, <1>2
<1>6. Reading'
  <2>1. ASSUME NEW i \in 1 .. Len(taken')
        PROVE  taken'[i] = [value |-> Current, part |-> Skipped + i]
    <3>1. CASE i \in 1 .. Len(taken)
      BY <1>5, <3>1 DEF InOrder, Reading, Piece
    <3>2. CASE i = Len(taken) + 1
      BY <1>1, <1>5, <3>2, NextUnit
    <3>3. QED
      BY <1>2, <1>5, <2>1, <3>1, <3>2
  <2>2. at # "idle"
    BY <1>1, Known DEF FramesTypes
  <2>3. need' + Len(taken') = need + Len(taken)
    BY <1>1, <1>5, Known
  <2>4. QED
    BY <1>1, <1>3, <2>1, <2>2, <2>3 DEF InOrder, Reading, Piece
<1>7. Sending'
  BY <1>1, <1>3 DEF InOrder, Sending, Piece, Final
<1>8. Wholes' /\ NothingMore'
  BY <1>1, <1>3 DEF InOrder, Wholes, WrittenWhole, Final, IsLast, NothingMore
<1>9. QED
  BY <1>1, <1>4, <1>6, <1>7, <1>8 DEF InOrder

\* The end of the stream in a header.
LEMMA EndInOrder ==
    ASSUME FramesTypes, InOrder, EndOfStream, at = "header"
    PROVE  InOrder'
<1>1. /\ taken' = <<>> /\ stream' = stream /\ stream = <<>> /\ writing' = writing
      /\ writing = <<>> /\ need > 0
      /\ bodies' = bodies /\ delivered' = delivered /\ sender' = sender /\ ended' = TRUE
      /\ whole' = whole /\ at' = "idle" /\ sender \in {"closed", "reset"}
  BY DEF EndOfStream, Returns, ReadExact, sending, InOrder, Sending
<1>2. OnTheWay' = <<>> /\ Arrived' = <<>>
  BY <1>1 DEF OnTheWay, Arrived
<1>3. Unbroken' /\ Reading'
  BY <1>1, <1>2 DEF Unbroken, Chain, Reading, Piece
<1>4. Sending' /\ NothingMore'
  BY <1>1 DEF Sending, NothingMore
<1>5. Wholes'
  <2>1. taken \in Seq(SentUnit) /\ Arrived = taken
    BY <1>1 DEF FramesTypes, Arrived
  <2>2. CASE taken = <<>>
    BY <1>1, <1>2, <2>1, <2>2 DEF InOrder, Wholes, WrittenWhole
  <2>3. CASE taken # <<>>
    <3>1. Len(taken) = 1
      <4>1. need + Len(taken) = 2
        BY DEF FramesTypes
      <4>2. Len(taken) \in Nat \ {0}
        BY <2>1, <2>3, EmptySeq
      <4>3. need \in Nat
        BY Known
      <4>4. need > 0
        BY <1>1
      <4>5. \A a, b \in Nat : a > 0 /\ b # 0 /\ a + b = 2 => b = 1
        OBVIOUS
      <4>6. QED
        BY <4>1, <4>2, <4>3, <4>4, <4>5
    <3>2. taken[1] = [value |-> Current, part |-> 1]
      BY <3>1 DEF InOrder, Reading, Piece, Skipped
    <3>3. Current \in 1 .. Len(bodies)
      <4>1. 1 \in 1 .. Len(taken)
        BY <3>1
      <4>2. taken[1] \in SentUnit
        BY <2>1, <4>1, ElementOfSeq
      <4>3. QED
        BY <3>2, <4>2 DEF SentUnit
    <3>4. 1 # 2 + bodies[Current] /\ Current - 1 = Len(delivered)
      BY <3>3, Known DEF Current
    <3>5. QED
      BY <1>1, <1>2, <2>1, <2>3, <3>1, <3>2, <3>4
         DEF InOrder, Wholes, WrittenWhole, IsLast, Final
  <2>4. QED
    BY <2>2, <2>3
<1>6. QED
  BY <1>1, <1>3, <1>4, <1>5 DEF InOrder

\* A unit arrives.
LEMMA ArriveInOrder == ASSUME FramesTypes, InOrder, Arrive PROVE InOrder'
<1> DEFINE h == Head(writing)
           n == Len(bodies)
<1>1. /\ taken' = taken /\ stream' = Append(stream, h) /\ writing' = Tail(writing)
      /\ bodies' = bodies /\ delivered' = delivered /\ sender' = sender /\ ended' = ended
      /\ whole' = (IF Len(writing) = 1 THEN whole + 1 ELSE whole)
      /\ at' = at /\ need' = need /\ writing # <<>> /\ sender \in {"open", "quiet"}
  BY DEF Arrive, receiving
<1>2. taken \in Seq(SentUnit) /\ stream \in Seq(SentUnit) /\ writing \in Seq(SentUnit)
  BY DEF FramesTypes
<1>3. /\ Len(writing) \in Nat \ {0} /\ h = writing[1] /\ Len(Tail(writing)) = Len(writing) - 1
      /\ \A i \in 1 .. Len(writing) - 1 : Tail(writing)[i] = writing[i + 1]
      /\ h \in SentUnit
  BY <1>1, <1>2, OneMoves
<1>4. n \in Nat \ {0} /\ bodies[n] \in Nat \ {0}
  BY <1>1, EmptySeq, Known DEF FramesTypes, InOrder, Sending
<1>5. h = [value |-> n, part |-> 2 + bodies[n] - Len(writing) + 1]
  BY <1>1, <1>3 DEF InOrder, Sending, Piece
<1> HIDE DEF h, n
<1>6. Arrived' = Append(Arrived, h) /\ Arrived \in Seq(SentUnit)
  <2>1. taken \o Append(stream, h) = Append(taken \o stream, h)
    BY <1>2, <1>3
  <2>2. QED
    BY <1>1, <1>2, <2>1 DEF Arrived
<1>7. OnTheWay' = OnTheWay
  <2>1. Append(Arrived, h) \o Tail(writing) = Arrived \o writing
    BY <1>1, <1>2, <1>6, OneMoves DEF h
  <2>2. QED
    BY <1>1, <1>6, <2>1 DEF OnTheWay
<1>8. Skipped' = Skipped /\ Current' = Current
  BY <1>1 DEF Skipped, Current
<1>9. Unbroken' /\ Reading'
  BY <1>1, <1>7, <1>8 DEF InOrder, Unbroken, Chain, Following, IsLast, Reading, Piece
<1>10. Sending'
  <2>1. ASSUME NEW i \in 1 .. Len(writing')
        PROVE  writing'[i] = [value |-> n, part |-> 2 + bodies[n] - Len(writing') + i]
    <3>1. Len(writing') = Len(writing) - 1 /\ i \in 1 .. Len(writing) - 1
      BY <1>1, <1>3
    <3>2. i + 1 \in 1 .. Len(writing) /\ writing'[i] = writing[i + 1]
      BY <1>1, <1>3, <3>1
    <3>3. writing[i + 1] = [value |-> n, part |-> 2 + bodies[n] - Len(writing) + (i + 1)]
      BY <1>1, <3>2 DEF InOrder, Sending, Piece, n
    <3>4. 2 + bodies[n] - Len(writing) + (i + 1) = 2 + bodies[n] - Len(writing') + i
      BY <1>3, <1>4, <3>1
    <3>5. QED
      BY <3>2, <3>3, <3>4
  <2>2. bodies # <<>>
    BY <1>1 DEF InOrder, Sending
  <2>3. QED
    BY <1>1, <1>7, <2>1, <2>2 DEF InOrder, Sending, Piece, Final, n
<1>11. Wholes'
  <2>1. Arrived' # <<>> /\ Final(Arrived') = h
    BY <1>3, <1>6 DEF Final
  <2>2. IsLast(bodies, h) <=> Len(writing) = 1
    <3>1. h.value = n /\ h.part = 2 + bodies[n] - Len(writing) + 1
      BY <1>5
    <3>2. h.part = 2 + bodies[n] <=> Len(writing) = 1
      BY <1>3, <1>4, <3>1
    <3>3. QED
      BY <3>1, <3>2 DEF IsLast
  <2>3. h.value = n
    BY <1>5
  <2>4. WrittenWhole = n - 1
    <3>1. CASE Arrived = <<>>
      <4>1. OnTheWay = writing
        BY <1>2, <3>1, ConcatEmptySeq DEF OnTheWay
      <4>2. writing[1] = [value |-> Current, part |-> Skipped + 1]
        BY <1>1, <4>1 DEF InOrder, Unbroken, Chain
      <4>3. Current = n
        <5>1. h = [value |-> Current, part |-> Skipped + 1]
          BY <1>3, <4>2
        <5>2. h.value = Current
          BY <5>1
        <5>3. h.value = n
          BY <1>5
        <5>4. QED
          BY <5>2, <5>3
      <4>4. QED
        BY <3>1, <4>3, Known DEF Current, WrittenWhole
    <3>2. CASE Arrived # <<>>
      <4>1. Len(Arrived) \in Nat \ {0}
        BY <1>6, <3>2, EmptySeq
      <4>2. Final(Arrived) \in SentUnit
        BY <1>6, <4>1, ElementOfSeq DEF Final
      <4>3. /\ OnTheWay[Len(Arrived)] = Final(Arrived) /\ OnTheWay[Len(Arrived) + 1] = h
            /\ Len(Arrived) \in 1 .. Len(OnTheWay) - 1
        <5>1. /\ Len(OnTheWay) = Len(Arrived) + Len(writing)
              /\ OnTheWay[Len(Arrived)] = Arrived[Len(Arrived)]
              /\ OnTheWay[Len(Arrived) + 1] = writing[1]
          BY <1>2, <1>3, <1>6, <4>1 DEF OnTheWay
        <5>2. QED
          BY <1>3, <4>1, <5>1 DEF Final
      <4>4. h = Following(bodies, Final(Arrived))
        BY <4>3 DEF InOrder, Unbroken, Chain
      <4>5. Final(Arrived).value \in Nat /\ Final(Arrived).part \in Nat
        BY <4>2 DEF SentUnit
      <4>6. CASE IsLast(bodies, Final(Arrived))
        <5>1. h.value = Final(Arrived).value + 1
          BY <4>4, <4>6 DEF Following
        <5>2. QED
          BY <1>4, <2>3, <3>2, <4>5, <4>6, <5>1 DEF WrittenWhole
      <4>7. CASE ~IsLast(bodies, Final(Arrived))
        <5>1. h.value = Final(Arrived).value
          BY <4>4, <4>7 DEF Following
        <5>2. QED
          BY <2>3, <3>2, <4>7, <5>1 DEF WrittenWhole
      <4>8. QED
        BY <4>6, <4>7
    <3>3. QED
      BY <3>1, <3>2
  <2>5. whole = n - 1
    BY <1>1, <2>4 DEF InOrder, Wholes
  <2>6. WrittenWhole' = (IF Len(writing) = 1 THEN n ELSE n - 1)
    BY <1>1, <2>1, <2>2, <2>3 DEF WrittenWhole
  <2>7. QED
    BY <1>1, <1>4, <2>5, <2>6 DEF Wholes
<1>12. NothingMore'
  BY <1>1 DEF InOrder, NothingMore
<1>13. QED
  BY <1>1, <1>9, <1>10, <1>11, <1>12 DEF InOrder

\* A value is sent: its units come after what is on its way.
LEMMA SendInOrder ==
    ASSUME FramesTypes, FramesTypes', InOrder, SendValue
    PROVE  InOrder'
<1> DEFINE n == Len(bodies)
<1>1. PICK body \in 1 .. MaxBody :
          bodies' = Append(bodies, body) /\ writing' = Encoded(n + 1, body)
  BY DEF SendValue
<1>2. /\ taken' = taken /\ stream' = stream /\ writing = <<>>
      /\ delivered' = delivered /\ sender' = sender /\ ended' = ended /\ whole' = whole
      /\ at' = at /\ need' = need /\ sender = "open"
  BY DEF SendValue, receiving
<1>3. n \in Nat /\ body \in Nat \ {0} /\ MaxBody \in Nat
  BY Known
<1>4. /\ Len(bodies') = n + 1 /\ bodies'[n + 1] = body
      /\ \A k \in 1 .. n : bodies'[k] = bodies[k]
      /\ bodies' # <<>>
  BY <1>1 DEF FramesTypes
<1>5. /\ writing' \in Seq([value : 1 .. n + 1, part : 1 .. 2 + MaxBody])
      /\ Len(writing') = 2 + body /\ writing' # <<>>
      /\ \A i \in 1 .. 2 + body : writing'[i] = [value |-> n + 1, part |-> i]
  <2>1. n + 1 \in Nat /\ n + 1 \in 1 .. n + 1
    BY <1>3
  <2>2. /\ writing' \in Seq([value : 1 .. n + 1, part : 1 .. 2 + MaxBody])
        /\ Len(writing') = 2 + body
        /\ \A i \in 1 .. 2 + body : writing'[i] = [value |-> n + 1, part |-> i]
    BY <1>1, <2>1, EncodedUnits
  <2>3. Len(writing') # 0
    BY <1>3, <2>2
  <2>4. QED
    BY <2>2, <2>3
<1> HIDE DEF n
<1>6. /\ Arrived' = Arrived /\ OnTheWay = Arrived
      /\ Skipped' = Skipped /\ Current' = Current
  BY <1>2, Known, ConcatEmptySeq DEF Arrived, OnTheWay, Skipped, Current
<1>7. /\ OnTheWay' = OnTheWay \o writing'
      /\ OnTheWay \in Seq([value : 1 .. n, part : 1 .. 2 + MaxBody])
  BY <1>6, Known DEF OnTheWay, SentUnit, n
<1>8. /\ Len(OnTheWay') = Len(OnTheWay) + (2 + body) /\ Len(OnTheWay) \in Nat
      /\ \A i \in 1 .. Len(OnTheWay) : OnTheWay'[i] = OnTheWay[i]
      /\ \A i \in 1 .. 2 + body : OnTheWay'[Len(OnTheWay) + i] = writing'[i]
      /\ OnTheWay' # <<>>
  <2>1. [value : 1 .. n, part : 1 .. 2 + MaxBody]
            \subseteq [value : 1 .. n + 1, part : 1 .. 2 + MaxBody]
    BY <1>3
  <2>2. OnTheWay \in Seq([value : 1 .. n + 1, part : 1 .. 2 + MaxBody])
    BY <1>7, <2>1, SeqMonotonic
  <2>3. /\ Len(OnTheWay') = Len(OnTheWay) + (2 + body) /\ Len(OnTheWay) \in Nat
        /\ \A i \in 1 .. Len(OnTheWay) : OnTheWay'[i] = OnTheWay[i]
        /\ \A i \in 1 .. 2 + body : OnTheWay'[Len(OnTheWay) + i] = writing'[i]
    <3>1. ASSUME NEW S, NEW s \in Seq(S), NEW q \in Seq(S)
          PROVE  /\ Len(s \o q) = Len(s) + Len(q) /\ Len(s) \in Nat
                 /\ \A i \in 1 .. Len(s) : (s \o q)[i] = s[i]
                 /\ \A i \in 1 .. Len(q) : (s \o q)[Len(s) + i] = q[i]
      OBVIOUS
    <3>2. PICK S : OnTheWay \in Seq(S) /\ writing' \in Seq(S)
      BY <1>5, <2>2
    <3>3. PICK q : q = writing'
      OBVIOUS
    <3>4. /\ Len(OnTheWay \o q) = Len(OnTheWay) + Len(q) /\ Len(OnTheWay) \in Nat
          /\ \A i \in 1 .. Len(OnTheWay) : (OnTheWay \o q)[i] = OnTheWay[i]
          /\ \A i \in 1 .. Len(q) : (OnTheWay \o q)[Len(OnTheWay) + i] = q[i]
      BY <3>1, <3>2, <3>3
    <3>5. OnTheWay' = OnTheWay \o q /\ Len(q) = 2 + body
      BY <1>5, <1>7, <3>3
    <3>6. QED
      BY <3>3, <3>4, <3>5
  <2>4. Len(OnTheWay') # 0
    BY <1>3, <2>3
  <2>5. QED
    BY <2>3, <2>4
<1>9. \A u \in SentUnit : /\ Following(bodies', u) = Following(bodies, u)
                          /\ IsLast(bodies', u) <=> IsLast(bodies, u)
  BY <1>4 DEF SentUnit, Following, IsLast, n
<1>10. Unbroken'
  <2>1. OnTheWay'[1] = [value |-> Current, part |-> Skipped + 1]
    <3>1. CASE OnTheWay = <<>>
      <4>1. Len(OnTheWay) = 0 /\ 1 \in 1 .. 2 + body
        BY <1>3, <3>1
      <4>2. OnTheWay'[1] = [value |-> n + 1, part |-> 1]
        BY <1>5, <1>8, <4>1
      <4>3. at # "body" /\ Len(delivered) = n
        BY <1>2, <3>1 DEF InOrder, Sending, n
      <4>4. QED
        BY <4>2, <4>3 DEF Current, Skipped
    <3>2. CASE OnTheWay # <<>>
      <4>1. 1 \in 1 .. Len(OnTheWay)
        BY <1>7, <1>8, <3>2, EmptySeq
      <4>2. QED
        BY <1>8, <3>2, <4>1 DEF InOrder, Unbroken, Chain
    <3>3. QED
      BY <3>1, <3>2
  <2>2. ASSUME NEW i \in 1 .. Len(OnTheWay') - 1
        PROVE  OnTheWay'[i + 1] = Following(bodies', OnTheWay'[i])
    <3>1. CASE i < Len(OnTheWay)
      <4>1. i \in 1 .. Len(OnTheWay) - 1 /\ i \in 1 .. Len(OnTheWay) /\ i + 1 \in 1 .. Len(OnTheWay)
        BY <1>8, <3>1
      <4>2. OnTheWay[i + 1] = Following(bodies, OnTheWay[i])
        BY <4>1 DEF InOrder, Unbroken, Chain
      <4>3. OnTheWay[i] \in SentUnit
        BY <4>1, Known, ElementOfSeq
      <4>4. PICK u \in SentUnit : u = OnTheWay[i]
        BY <4>3
      <4>5. OnTheWay'[i] = u /\ OnTheWay'[i + 1] = Following(bodies, u)
        BY <1>8, <4>1, <4>2, <4>4
      <4>6. QED
        BY <1>9, <4>5
    <3>2. CASE i = Len(OnTheWay)
      <4>1. OnTheWay # <<>> /\ i \in 1 .. Len(OnTheWay)
        BY <1>8, <2>2, <3>2
      <4>2. OnTheWay'[i] = [value |-> n, part |-> 2 + bodies[n]]
        BY <1>2, <1>8, <3>2, <4>1 DEF InOrder, Sending, Final, n
      <4>3. n \in 1 .. n
        BY <1>2, <1>3, <4>1, EmptySeq DEF InOrder, Sending, FramesTypes, n
      <4>4. OnTheWay'[i + 1] = [value |-> n + 1, part |-> 1]
        BY <1>3, <1>5, <1>8, <3>2
      <4>5. QED
        BY <1>4, <4>2, <4>3, <4>4 DEF Following, IsLast
    <3>3. CASE i > Len(OnTheWay)
      <4>1. PICK j \in 1 .. 1 + body : i = Len(OnTheWay) + j
        <5>1. i - Len(OnTheWay) \in 1 .. 1 + body /\ i = Len(OnTheWay) + (i - Len(OnTheWay))
          BY <1>3, <1>8, <3>3
        <5>2. QED
          BY <5>1
      <4>2. j \in 1 .. 2 + body /\ j + 1 \in 1 .. 2 + body /\ i + 1 = Len(OnTheWay) + (j + 1)
        BY <1>3, <1>8, <4>1
      <4>3. /\ OnTheWay'[i] = [value |-> n + 1, part |-> j]
            /\ OnTheWay'[i + 1] = [value |-> n + 1, part |-> j + 1]
        BY <1>5, <1>8, <4>1, <4>2
      <4>4. j # 2 + bodies'[n + 1]
        BY <1>3, <1>4, <4>1
      <4>5. QED
        BY <4>3, <4>4 DEF Following, IsLast
    <3>4. QED
      BY <1>8, <3>1, <3>2, <3>3
  <2>3. QED
    BY <1>6, <2>1, <2>2 DEF Unbroken, Chain
<1>11. Reading'
  <2>1. at = "body" => Current \in 1 .. n
    BY Known DEF InOrder, Reading, Current, n
  <2>2. QED
    BY <1>2, <1>3, <1>4, <1>6, <2>1 DEF InOrder, Reading, Piece, n
<1>12. Sending'
  <2>1. Final(OnTheWay') = [value |-> n + 1, part |-> 2 + body]
    <3>1. 2 + body \in 1 .. 2 + body
      BY <1>3
    <3>2. QED
      BY <1>5, <1>8, <3>1 DEF Final
  <2>2. ASSUME NEW i \in 1 .. Len(writing')
        PROVE  writing'[i] = [value |-> n + 1, part |-> 2 + body - Len(writing') + i]
    BY <1>3, <1>5
  <2>3. QED
    BY <1>2, <1>4, <1>5, <1>8, <2>1, <2>2 DEF Sending, Piece, Final
<1>13. Wholes'
  <2>1. WrittenWhole' = WrittenWhole
    <3>1. CASE Arrived = <<>>
      BY <1>2, <1>6, <3>1 DEF WrittenWhole
    <3>2. CASE Arrived # <<>>
      <4>1. Final(Arrived) \in SentUnit
        BY <3>2, Known, EmptySeq, ElementOfSeq DEF Final
      <4>2. PICK u \in SentUnit : u = Final(Arrived) /\ u = Final(Arrived')
        BY <1>6, <4>1
      <4>3. QED
        BY <1>6, <1>9, <3>2, <4>2 DEF WrittenWhole
    <3>3. QED
      BY <3>1, <3>2
  <2>2. QED
    BY <1>2, <2>1 DEF InOrder, Wholes
<1>14. NothingMore'
  BY <1>2 DEF InOrder, NothingMore
<1>15. QED
  BY <1>2, <1>10, <1>11, <1>12, <1>13, <1>14 DEF InOrder

\* What read_exact has read is taken off the line: what is left begins after it.
LEMMA TakenInOrder ==
    ASSUME FramesTypes, InOrder, taken # <<>>, taken' = <<>>,
           UNCHANGED <<sending, stream, ended>>,
           delivered' = [k \in 1 .. Len(delivered') |-> k],
           [value |-> Current', part |-> Skipped' + 1] = Following(bodies, Final(taken)),
           Len(delivered') = (IF IsLast(bodies, Final(taken)) THEN Final(taken).value
                              ELSE Final(taken).value - 1),
           at' = "body" => /\ ~IsLast(bodies, Final(taken))
                           /\ Current' <= Len(bodies)
                           /\ need' = bodies[Current'] /\ need' \in Nat
    PROVE  InOrder'
<1>1. /\ stream' = stream /\ writing' = writing /\ bodies' = bodies /\ sender' = sender
      /\ whole' = whole /\ ended' = ended
  BY DEF sending
<1>2. taken \in Seq(SentUnit) /\ stream \in Seq(SentUnit) /\ writing \in Seq(SentUnit)
  BY DEF FramesTypes
<1>3. PICK k \in Nat \ {0} : k = Len(taken)
  BY <1>2, EmptySeq
<1>4. Arrived' = stream
  BY <1>1, <1>2, ConcatEmptySeq DEF Arrived
<1>5. /\ OnTheWay' \in Seq(SentUnit) /\ OnTheWay \in Seq(SentUnit)
      /\ Len(OnTheWay) = k + Len(OnTheWay') /\ OnTheWay[k] = Final(taken)
      /\ \A i \in 1 .. Len(OnTheWay') : OnTheWay'[i] = OnTheWay[k + i]
  <2>1. LET w == (taken \o stream) \o writing
            v == (<<>> \o stream) \o writing
        IN  /\ w \in Seq(SentUnit) /\ v \in Seq(SentUnit) /\ Len(w) = Len(taken) + Len(v)
            /\ \A i \in 1 .. Len(taken) : w[i] = taken[i]
            /\ \A i \in 1 .. Len(v) : v[i] = w[Len(taken) + i]
    BY <1>2, Line
  <2>2. k \in 1 .. k
    OBVIOUS
  <2>3. QED
    BY <1>1, <1>3, <2>1, <2>2 DEF OnTheWay, Arrived, Final
<1>6. Unbroken'
  <2>1. PICK v \in Seq(SentUnit) : v = OnTheWay'
    BY <1>5
  <2>2. Chain(bodies, OnTheWay, [value |-> Current, part |-> Skipped + 1])
    BY DEF InOrder, Unbroken
  <2>3. Chain(bodies, v, Following(bodies, OnTheWay[k]))
    BY <1>5, <2>1, <2>2, ChainTail
  <2>4. QED
    BY <1>1, <1>5, <2>1, <2>3 DEF Unbroken, Chain
<1>7. Reading'
  <2>1. Len(taken') = 0 /\ (at' = "body" => need' + 0 = need')
    OBVIOUS
  <2>2. QED
    BY <1>1, <2>1 DEF Reading, Piece
<1>8. Sending'
  <2>1. sender \in {"open", "quiet"} =>
            /\ bodies # <<>>
            /\ Final(OnTheWay) = [value |-> Len(bodies), part |-> 2 + bodies[Len(bodies)]]
    <3>1. Len(OnTheWay) # 0
      BY <1>5
    <3>2. QED
      BY <3>1 DEF InOrder, Sending
  <2>2. CASE OnTheWay' = <<>>
    <3>1. Final(OnTheWay) = Final(taken)
      BY <1>5, <2>2 DEF Final
    <3>2. sender \in {"open", "quiet"} =>
              IsLast(bodies, Final(taken)) /\ Final(taken).value = Len(bodies)
      BY <2>1, <3>1 DEF IsLast
    <3>3. QED
      BY <1>1, <2>2, <3>2 DEF InOrder, Sending, Piece
  <2>3. CASE OnTheWay' # <<>>
    <3>1. Len(OnTheWay') \in 1 .. Len(OnTheWay')
      BY <1>5, <2>3, EmptySeq
    <3>2. Final(OnTheWay') = Final(OnTheWay)
      BY <1>5, <3>1 DEF Final
    <3>3. Final(OnTheWay)' = Final(OnTheWay')
      BY DEF Final
    <3>4. QED
      BY <1>1, <2>1, <2>3, <3>2, <3>3 DEF InOrder, Sending, Piece
  <2>4. QED
    BY <2>2, <2>3
<1>9. Wholes'
  <2>1. WrittenWhole' = WrittenWhole
    <3>1. Arrived # <<>>
      BY <1>2, <1>3, Known, EmptySeq
    <3>2. CASE stream = <<>>
      <4>1. Arrived = taken
        BY <1>2, <3>2, ConcatEmptySeq DEF Arrived
      <4>2. QED
        BY <1>1, <1>4, <3>1, <3>2, <4>1 DEF WrittenWhole
    <3>3. CASE stream # <<>>
      <4>1. Final(Arrived) = Final(stream)
        BY <1>2, <3>3, FinalOfTwo DEF Arrived
      <4>2. QED
        BY <1>1, <1>4, <3>1, <3>3, <4>1 DEF WrittenWhole, Final, IsLast
    <3>4. QED
      BY <3>2, <3>3
  <2>2. QED
    BY <1>1, <2>1 DEF InOrder, Wholes
<1>10. NothingMore'
  BY <1>1 DEF InOrder, NothingMore
<1>11. QED
  BY <1>6, <1>7, <1>8, <1>9, <1>10 DEF InOrder

\* The header was read: it is the one of the value in hand.
LEMMA HeaderInOrder ==
    ASSUME FramesTypes, InOrder, HeaderRead, failures' = failures
    PROVE  InOrder'
<1>1. taken \in Seq(SentUnit) /\ Len(taken) = 2 /\ taken # <<>>
  <2>1. taken \in Seq(SentUnit) /\ need + Len(taken) = 2 /\ need = 0
    BY DEF FramesTypes, HeaderRead
  <2>2. Len(taken) = 2
    BY <2>1
  <2>3. QED
    BY <2>1, <2>2
<1>2. at = "header" /\ Skipped = 0
  BY DEF HeaderRead, Skipped
<1>3. /\ taken[1] = [value |-> Current, part |-> 1]
      /\ taken[2] = [value |-> Current, part |-> 2]
  BY <1>1, <1>2 DEF InOrder, Reading, Piece
<1>4. Current \in 1 .. Len(bodies) /\ bodies[Current] \in Nat \ {0}
  <2>1. 1 \in 1 .. Len(taken)
    BY <1>1
  <2>2. taken[1] \in SentUnit
    BY <1>1, <2>1, ElementOfSeq
  <2>3. Current \in 1 .. Len(bodies)
    BY <1>3, <2>2 DEF SentUnit
  <2>4. QED
    BY <2>3, Known
<1>5. Length = {bodies[Current]}
  <2>1. IsHeader
    BY <1>3 DEF IsHeader
  <2>2. QED
    BY <1>3, <2>1 DEF Length
<1>6. /\ at' = "body" /\ need' = bodies[Current] /\ taken' = <<>>
      /\ delivered' = delivered /\ UNCHANGED <<sending, stream, ended>>
  <2>1. failures + 1 # failures
    BY FramesAssumption DEF FramesTypes, FramesAssumption
  <2>2. QED
    BY <1>5, <2>1 DEF HeaderRead, Fails, ReadExact
<1>7. /\ Final(taken) = [value |-> Current, part |-> 2]
      /\ ~IsLast(bodies, Final(taken))
  BY <1>1, <1>3, <1>4 DEF Final, IsLast
<1>8. /\ Current' = Current /\ Skipped' = 2
      /\ Following(bodies, Final(taken)) = [value |-> Current, part |-> 3]
  BY <1>6, <1>7 DEF Current, Skipped, Following
<1>9. Len(delivered') = Current - 1 /\ Current <= Len(bodies)
  BY <1>4, <1>6, Known DEF Current
<1>10. /\ Final(taken).value = Current
       /\ delivered' = [k \in 1 .. Len(delivered') |-> k]
  BY <1>6, <1>7 DEF InOrder
<1>11. [value |-> Current', part |-> Skipped' + 1] = Following(bodies, Final(taken))
  BY <1>8
<1>12. QED
  BY <1>1, <1>4, <1>6, <1>7, <1>8, <1>9, <1>10, <1>11, TakenInOrder

\* The body was read: it is the one of the value in hand, which is delivered.
LEMMA BodyInOrder ==
    ASSUME FramesTypes, InOrder, BodyRead, failures' = failures
    PROVE  InOrder'
<1>1. /\ taken \in Seq(SentUnit) /\ Len(taken) = bodies[Current]
      /\ Current \in 1 .. Len(bodies) /\ Len(taken) \in Nat \ {0}
      /\ at = "body" /\ Skipped = 2 /\ taken # <<>>
  <2>1. /\ taken \in Seq(SentUnit) /\ at = "body" /\ need = 0 /\ Skipped = 2
        /\ need + Len(taken) = bodies[Current] /\ Current <= Len(bodies)
    BY DEF FramesTypes, BodyRead, InOrder, Reading, Skipped
  <2>2. Current \in 1 .. Len(bodies) /\ bodies[Current] \in Nat \ {0}
    BY <2>1, Known DEF Current
  <2>3. Len(taken) = bodies[Current]
    BY <2>1, Known
  <2>4. QED
    BY <2>1, <2>2, <2>3, EmptySeq
<1>2. \A i \in 1 .. Len(taken) : taken[i] = [value |-> Current, part |-> 2 + i]
  BY <1>1 DEF InOrder, Reading, Piece
<1>3. \A k \in 1 .. Len(bodies) :
          LET s == SubSeq(Encoded(k, bodies[k]), 3, 2 + bodies[k])
          IN  /\ s \in Seq(SentUnit) /\ Len(s) = bodies[k] /\ bodies[k] \in Nat \ {0}
              /\ \A i \in 1 .. bodies[k] : s[i] = [value |-> k, part |-> 2 + i]
  <2>1. TAKE k \in 1 .. Len(bodies)
  <2>2. PICK b \in 1 .. MaxBody : b = bodies[k]
    BY Known
  <2>3. PICK e : e = Encoded(k, b)
    OBVIOUS
  <2>4. /\ e \in Seq(SentUnit) /\ Len(e) = 2 + b
        /\ \A i \in 1 .. 2 + b : e[i] = [value |-> k, part |-> i]
    BY <2>3, Known, EncodedUnits DEF SentUnit
  <2>5. b \in Nat \ {0} /\ 3 \in Int /\ 2 + b \in Int
    BY Known
  <2>6. \A i \in 3 .. 2 + b : e[i] \in SentUnit
    <3>1. TAKE i \in 3 .. 2 + b
    <3>2. i \in 1 .. Len(e)
      BY <2>4, <2>5
    <3>3. QED
      BY <2>4, <3>2, ElementOfSeq
  <2>7. /\ SubSeq(e, 3, 2 + b) \in Seq(SentUnit)
        /\ Len(SubSeq(e, 3, 2 + b)) = (IF 3 <= 2 + b THEN (2 + b) - 3 + 1 ELSE 0)
        /\ \A i \in 1 .. (2 + b) - 3 + 1 : SubSeq(e, 3, 2 + b)[i] = e[3 + i - 1]
    BY <2>5, <2>6, SubSeqProperties
  <2>8. ASSUME NEW i \in 1 .. b
        PROVE  SubSeq(e, 3, 2 + b)[i] = [value |-> k, part |-> 2 + i]
    <3>1. /\ i \in 1 .. (2 + b) - 3 + 1 /\ 3 + i - 1 = 2 + i
          /\ 2 + i \in 1 .. 2 + b
      BY <2>5
    <3>2. SubSeq(e, 3, 2 + b)[i] = e[2 + i]
      BY <2>7, <3>1
    <3>3. QED
      BY <2>4, <3>1, <3>2
  <2>9. Len(SubSeq(e, 3, 2 + b)) = b
    BY <2>5, <2>7
  <2>10. QED
    BY <2>2, <2>3, <2>5, <2>7, <2>8, <2>9
<1>4. IsBody(Current)
  <2>1. PICK s : s = SubSeq(Encoded(Current, bodies[Current]), 3, 2 + bodies[Current])
    OBVIOUS
  <2>2. /\ s \in Seq(SentUnit) /\ Len(s) = bodies[Current]
        /\ \A i \in 1 .. bodies[Current] : s[i] = [value |-> Current, part |-> 2 + i]
    BY <1>1, <1>3, <2>1
  <2>3. taken = s
    BY <1>1, <1>2, <2>2, SeqEqual
  <2>4. QED
    BY <2>1, <2>3 DEF IsBody
<1>5. \A k \in 1 .. Len(bodies) : IsBody(k) => k = Current
  <2>1. TAKE k \in 1 .. Len(bodies)
  <2>2. SUFFICES ASSUME IsBody(k) PROVE k = Current
    OBVIOUS
  <2>3. Len(taken) = bodies[k] /\ bodies[k] \in Nat \ {0}
    BY <1>3, <2>2 DEF IsBody
  <2>4. 1 \in 1 .. bodies[k] /\ 1 \in 1 .. Len(taken)
    BY <2>3
  <2>5. taken[1] = [value |-> k, part |-> 2 + 1]
    BY <1>3, <2>2, <2>4 DEF IsBody
  <2>6. taken[1] = [value |-> Current, part |-> 2 + 1]
    BY <1>2, <2>4
  <2>7. QED
    BY <2>5, <2>6
<1>6. /\ delivered' = Append(delivered, Current)
      /\ at' = "idle" /\ taken' = <<>> /\ UNCHANGED <<sending, stream, ended>>
  <2>1. DOMAIN bodies = 1 .. Len(bodies)
    BY DEF FramesTypes
  <2>2. QED
    BY <1>1, <1>4, <1>5, <2>1 DEF BodyRead, Returns, ReadExact
<1>7. /\ Len(delivered') = Current
      /\ delivered' = [k \in 1 .. Len(delivered') |-> k]
  <2>1. delivered \in Seq(Nat) /\ delivered = [k \in 1 .. Len(delivered) |-> k]
    BY FramesAssumption DEF FramesTypes, InOrder, FramesAssumption
  <2>2. QED
    BY <1>6, <2>1 DEF Current
<1>8. /\ Final(taken) = [value |-> Current, part |-> 2 + bodies[Current]]
      /\ IsLast(bodies, Final(taken))
  BY <1>1, <1>2 DEF Final, IsLast
<1>9. /\ Current' = Current + 1 /\ Skipped' = 0
      /\ Following(bodies, Final(taken)) = [value |-> Current + 1, part |-> 1]
  BY <1>6, <1>7, <1>8 DEF Current, Skipped, Following
<1>10. /\ Final(taken).value = Current
       /\ [value |-> Current', part |-> Skipped' + 1] = Following(bodies, Final(taken))
  BY <1>8, <1>9
<1>11. QED
  BY <1>1, <1>6, <1>7, <1>8, <1>10, TakenInOrder

\* Every step keeps the connection in order until a call fails.
LEMMA FramesInvNext == FramesInv /\ [FramesNext]_frameVars => FramesInv'
<1> SUFFICES ASSUME FramesInv, [FramesNext]_frameVars PROVE FramesInv'
  OBVIOUS
<1>1. FramesTypes
  BY DEF FramesInv
<1>2. CASE UNCHANGED frameVars
  <2>1. /\ bodies' = bodies /\ writing' = writing /\ sender' = sender /\ stream' = stream
        /\ closed' = closed /\ at' = at /\ need' = need /\ taken' = taken
        /\ delivered' = delivered /\ failures' = failures /\ ended' = ended /\ whole' = whole
    BY <1>2 DEF frameVars
  <2>2. FramesTypes'
    BY <1>1, <2>1 DEF FramesTypes, SentUnit
  <2>3. InOrder => InOrder'
    BY <2>1 DEF InOrder, Unbroken, Chain, Following, IsLast, OnTheWay, Arrived, Current, Skipped,
                Reading, Piece, Sending, Final, Wholes, WrittenWhole, NothingMore
  <2>4. QED
    BY <2>1, <2>2, <2>3 DEF FramesInv
<1>3. CASE FramesNext
  <2>1. FramesTypes'
    BY <1>1, <1>3, SendTypes, SenderTypes, ReaderTypes, EndTypes DEF FramesNext, RecvInside
  <2>2. ASSUME failures' = 0
        PROVE  InOrder'
    <3>1. failures = 0 /\ failures' = failures /\ failures' # failures + 1
      BY <1>1, <1>3, <2>2, FramesAssumption
         DEF FramesTypes, FramesAssumption, FramesNext, SendValue, Arrive, CloseSender,
             CloseServer, Crash, Reset, CloseReceiver, RecvValue, RecvInside, ReadUnit,
             HeaderRead, BodyRead, EndOfStream, TimeOut, Fails, receiving
    <3>2. InOrder
      BY <3>1 DEF FramesInv
    <3>3. ~TimeOut /\ (EndOfStream => at = "header")
      BY <3>1 DEF TimeOut, EndOfStream, Fails
    <3>4. QED
      BY <1>1, <1>3, <2>1, <3>1, <3>2, <3>3, BeginInOrder, CloseInOrder, CutInOrder,
         ReadInOrder, EndInOrder, ArriveInOrder, SendInOrder, HeaderInOrder, BodyInOrder
         DEF FramesNext, RecvInside
  <2>3. QED
    BY <2>1, <2>2 DEF FramesInv
<1>4. QED
  BY <1>2, <1>3

\* The invariant holds in every reachable state.
LEMMA FramesInvariance == FramesSpec => []FramesInv
  BY FramesInvInit, FramesInvNext, PTL DEF FramesSpec

\* A connection: until a call fails the values come out as they went in, none
\* lost, repeated or made up, and Ok(None) comes only when no more will.
THEOREM ValuesArrive == FramesSpec => []FramesArrive
<1>1. FramesInv => FramesArrive
  <2> SUFFICES ASSUME FramesInv, failures = 0, ended, sender # "reset"
               PROVE  sender = "closed" /\ Len(delivered) = whole
    BY DEF FramesInv, FramesArrive, InOrder
  <2>1. sender = "closed" /\ stream = <<>> /\ taken = <<>>
    BY DEF FramesInv, InOrder, NothingMore
  <2>2. Arrived = <<>>
    BY <2>1 DEF Arrived
  <2>3. QED
    BY <2>1, <2>2 DEF FramesInv, InOrder, Wholes, WrittenWhole
<1>2. QED
  BY <1>1, FramesInvariance, PTL

\* A connection's state has its types.
THEOREM FramesTypeCorrect == FramesSpec => []FramesTypeOK
<1>1. FramesInv => FramesTypeOK
  <2> SUFFICES ASSUME FramesTypes PROVE FramesTypeOK
    BY DEF FramesInv
  <2>1. SentUnit \subseteq Unit
    BY FramesAssumption DEF SentUnit, Unit, FramesTypes, FramesAssumption
  <2>2. writing \in Seq(Unit) /\ stream \in Seq(Unit) /\ taken \in Seq(Unit)
    BY <2>1, SeqMonotonic DEF FramesTypes
  <2>3. QED
    BY <2>2 DEF FramesTypes, FramesTypeOK
<1>2. QED
  BY <1>1, FramesInvariance, PTL

-----------------------------------------------------------------------------
\* The channels of a VM, or a connection between two: their state has its types.
THEOREM ChannelsTypeCorrect == MCFairSpec => []ChannelsTypeOK
<1>1. MCInit => Init /\ FramesInit
  BY DEF MCInit
<1>2. [MCNext]_mcVars => [Next]_vars /\ [FramesNext]_frameVars
  BY DEF MCNext, mcVars
<1>3. MCFairSpec => Spec /\ FramesSpec
  BY <1>1, <1>2, PTL DEF MCFairSpec, Spec, FramesSpec
<1>4. QED
  BY <1>3, ChannelTypeCorrect, FramesTypeCorrect, PTL DEF ChannelsTypeOK
=============================================================================
