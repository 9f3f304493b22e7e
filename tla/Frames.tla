-------------------------------- MODULE Frames ------------------------------
(***************************************************************************)
(* Values over a TCP connection: send_value and recv_value of              *)
(* channel_tcp.rs, which ipc.rs and actor_process.rs repeat.  A value is a *)
(* header, its length, and a body of that length; the receiver reads one   *)
(* and then the other, each with read_exact, and gives a read up when      *)
(* nothing comes for the connection's time limit.                          *)
(*                                                                         *)
(* This is one direction of a connection; the other is the same.  A value  *)
(* is its number; a header is two units long and a body one or more, and a *)
(* body longer than Limit is too large to be received (64 MB in the code). *)
(* The network keeps the order of what it delivers and duplicates nothing. *)
(***************************************************************************)
EXTENDS Integers, Sequences

CONSTANTS
    Limit,          \* the longest body that is received
    MaxBody,        \* bound: the longest body sent
    MaxValues,      \* bound: values sent
    MaxFailures     \* bound: recv_value calls that fail

ASSUME FramesAssumption ==
    /\ Limit \in Nat \ {0}
    /\ MaxBody \in Nat \ {0}
    /\ MaxValues \in Nat
    /\ MaxFailures \in Nat

VARIABLES
    bodies,         \* the lengths of the bodies of the values sent, in order
    writing,        \* the units write_all has not written yet
    sender,         \* "open", "quiet" (it sends no more), "closed", "reset"
    stream,         \* the units written and not read
    closed,         \* the receiver's flag
    at,             \* where the receiver is: "idle", "header", "body"
    need, taken,    \* in read_exact: the units missing, the units read
    delivered,      \* history: the values returned, 0 for one nobody sent
    failures,       \* history: calls that returned an error, other than NotConnected
    ended,          \* history: a call returned Ok(None)
    whole           \* history: the values that were written to their last unit

frameVars == <<bodies, writing, sender, stream, closed, at, need, taken,
               delivered, failures, ended, whole>>

Unit == [value : 1 .. MaxValues, part : 1 .. 2 + MaxBody]

\* Value k on the wire: parts 1 and 2 are the header.
Encoded(k, body) == [i \in 1 .. 2 + body |-> [value |-> k, part |-> i]]

FramesInit ==
    /\ bodies = <<>> /\ writing = <<>> /\ sender = "open" /\ stream = <<>>
    /\ closed = FALSE
    /\ at = "idle" /\ need = 0 /\ taken = <<>>
    /\ delivered = <<>> /\ failures = 0 /\ ended = FALSE /\ whole = 0

-----------------------------------------------------------------------------
\* The sender and the network.

receiving == <<closed, at, need, taken, delivered, failures, ended>>

SendValue ==
    /\ sender = "open" /\ writing = <<>>
    /\ Len(bodies) < MaxValues
    /\ \E body \in 1 .. MaxBody :
          /\ bodies' = Append(bodies, body)
          /\ writing' = Encoded(Len(bodies) + 1, body)
    /\ UNCHANGED <<sender, stream, whole, receiving>>

\* Some more of what is written arrives; the rest may take its time.
Arrive ==
    /\ writing # <<>> /\ sender \in {"open", "quiet"}
    /\ stream' = Append(stream, Head(writing))
    /\ writing' = Tail(writing)
    /\ whole' = IF Len(writing) = 1 THEN whole + 1 ELSE whole
    /\ UNCHANGED <<bodies, sender, receiving>>

\* close, at the sender, between two sends: what was written still arrives.
CloseSender ==
    /\ sender = "open" /\ writing = <<>>
    /\ sender' = "closed"
    /\ UNCHANGED <<bodies, writing, stream, whole, receiving>>

\* The server's close sets the flag its connections share; they send no
\* more, and their peers are not told.
CloseServer ==
    /\ sender = "open"
    /\ sender' = "quiet"
    /\ UNCHANGED <<bodies, writing, stream, whole, receiving>>

\* The sender's process ends, in the middle of a value or not: the stream
\* ends after what was written.
Crash ==
    /\ sender \in {"open", "quiet"}
    /\ sender' = "closed" /\ writing' = <<>>
    /\ UNCHANGED <<bodies, stream, whole, receiving>>

\* The connection is reset, and what was not read is lost.
Reset ==
    /\ sender # "reset"
    /\ sender' = "reset" /\ writing' = <<>> /\ stream' = <<>>
    /\ UNCHANGED <<bodies, whole, receiving>>

\* close or kill at the receiver, or the close of its server: its later
\* calls answer NotConnected.
CloseReceiver ==
    /\ ~closed /\ closed' = TRUE
    /\ UNCHANGED <<bodies, writing, sender, stream, at, need, taken,
                   delivered, failures, ended, whole>>

-----------------------------------------------------------------------------
\* recv_value

sending == <<bodies, writing, sender, whole, closed>>

\* read_exact of n units begins; the call returns.
ReadExact(where, n) == at' = where /\ need' = n /\ taken' = <<>>
Returns == ReadExact("idle", 0)

Fails ==
    /\ Returns
    /\ failures' = failures + 1
    /\ UNCHANGED <<delivered, ended>>

RecvValue ==
    /\ at = "idle" /\ ~closed /\ failures < MaxFailures
    /\ ReadExact("header", 2)
    /\ UNCHANGED <<sending, stream, delivered, failures, ended>>

ReadUnit ==
    /\ need > 0 /\ stream # <<>>
    /\ taken' = Append(taken, Head(stream))
    /\ need' = need - 1
    /\ stream' = Tail(stream)
    /\ UNCHANGED <<sending, at, delivered, failures, ended>>

IsHeader == [i \in 1 .. 2 |-> taken[i].part] = <<1, 2>> /\ taken[1].value = taken[2].value

\* The lengths the header can stand for: its value's, or any if it is not
\* a header at all, with Limit + 1 for all that are too large.
Length == IF IsHeader THEN {bodies[taken[1].value]} ELSE 0 .. Limit + 1

\* The length, and then the body; a body that is too large stays where it is.
HeaderRead ==
    /\ at = "header" /\ need = 0
    /\ \E n \in Length :
          \/ n > Limit /\ Fails
          \/ n <= Limit /\ ReadExact("body", n) /\ UNCHANGED <<delivered, failures, ended>>
    /\ UNCHANGED <<sending, stream>>

\* The value whose body was read, if it is one.
IsBody(k) ==
    taken = SubSeq(Encoded(k, bodies[k]), 3, 2 + bodies[k])

\* decode_value: the value; of anything else an error or some value.
BodyRead ==
    /\ at = "body" /\ need = 0
    /\ \/ /\ \E k \in DOMAIN bodies : IsBody(k) /\ delivered' = Append(delivered, k)
          /\ Returns /\ UNCHANGED <<failures, ended>>
       \/ /\ taken # <<>> /\ \A k \in DOMAIN bodies : ~IsBody(k)
          /\ delivered' = Append(delivered, 0)
          /\ Returns /\ UNCHANGED <<failures, ended>>
       \/ (\A k \in DOMAIN bodies : ~IsBody(k)) /\ Fails
    /\ UNCHANGED <<sending, stream>>

\* The end of the stream, or a reset: Ok(None) in a header, also in the
\* middle of one, and an error in a body.
EndOfStream ==
    /\ need > 0 /\ stream = <<>> /\ sender \in {"closed", "reset"}
    /\ \/ at = "header" /\ Returns /\ ended' = TRUE /\ UNCHANGED <<delivered, failures>>
       \/ at = "body" /\ Fails
    /\ UNCHANGED <<sending, stream>>

\* Slip: a time-out of the header is taken for the end.
TimeOutQuiet ==
    /\ need > 0 /\ stream = <<>> /\ sender \in {"open", "quiet"}
    /\ \/ at = "header" /\ Returns /\ ended' = TRUE /\ UNCHANGED <<delivered, failures>>
       \/ at = "body" /\ Fails
    /\ UNCHANGED <<sending, stream>>

\* Slip: the time limit is set for the headers only.
TimeOutHeader ==
    /\ at = "header" /\ need > 0 /\ stream = <<>> /\ sender \in {"open", "quiet"}
    /\ Fails
    /\ UNCHANGED <<sending, stream>>

\* The read gives up; the units it has read are lost.
TimeOut ==
    /\ need > 0 /\ stream = <<>> /\ sender \in {"open", "quiet"}
    /\ Fails
    /\ UNCHANGED <<sending, stream>>

-----------------------------------------------------------------------------
RecvInside == ReadUnit \/ HeaderRead \/ BodyRead \/ EndOfStream \/ TimeOut

FramesNext ==
    \/ SendValue \/ Arrive \/ CloseSender \/ CloseServer \/ Crash \/ Reset
    \/ CloseReceiver \/ RecvValue \/ RecvInside

FramesSpec == FramesInit /\ [][FramesNext]_frameVars

\* The receiver goes on as long as it can; a read that gets nothing is
\* given up in the end.
FramesFairSpec == FramesSpec /\ WF_frameVars(RecvInside)

-----------------------------------------------------------------------------
FramesTypeOK ==
    /\ bodies \in Seq(1 .. MaxBody) /\ Len(bodies) <= MaxValues
    /\ writing \in Seq(Unit) /\ stream \in Seq(Unit) /\ taken \in Seq(Unit)
    /\ sender \in {"open", "quiet", "closed", "reset"}
    /\ closed \in BOOLEAN /\ ended \in BOOLEAN
    /\ at \in {"idle", "header", "body"}
    /\ need \in 0 .. 2 \cup 0 .. Limit
    /\ delivered \in Seq(0 .. MaxValues)
    /\ failures \in 0 .. MaxFailures

\* Until a call fails the values come out as they went in, none lost, none
\* repeated, none made up; and Ok(None) says that there are no more: the
\* stream is at its end, and unless the connection was reset all that were
\* written whole have been received.
FramesArrive ==
    failures = 0 =>
        /\ delivered = [k \in 1 .. Len(delivered) |-> k]
        /\ ended => sender = "reset" \/ (sender = "closed" /\ Len(delivered) = whole)

\* Every recv_value returns, whatever became of the sender.
RecvReturns == (at # "idle") ~> (at = "idle")
=============================================================================
