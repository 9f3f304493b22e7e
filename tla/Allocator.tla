------------------------------ MODULE Allocator ------------------------------
(***************************************************************************)
(* The register allocator of the Photon backend,                           *)
(* photon/RegisterAllocator.aura: which of the values of a stream of       *)
(* machine instructions live in a register.  The others live in a slot of  *)
(* the frame each.                                                         *)
(*                                                                         *)
(* Only a value that is born and dies in one basic block, without a call   *)
(* between, gets a register; it gets the first one that no value already   *)
(* coloured and alive at a common instruction has.                         *)
(*                                                                         *)
(* Left aside: the nodes with a register from the start (parameters), all  *)
(* of them volatile and so outside the colours; constants, which are never *)
(* coloured and behave as any value with a slot.                           *)
(***************************************************************************)
EXTENDS Integers, Sequences, FiniteSetsExt, SequencesExt

CONSTANTS
    NodeCount,      \* MachineDag.nodeCount: the nodes are 1 .. NodeCount
    CallNode,       \* the nodes of kind "Call"
    Colours,        \* availList: the registers to be given, in order
    NoColour,       \* the colour "" of a node without one
    NoNode,         \* the output of an instruction that has none
    NoLabel,        \* the label of an instruction that has none
    Label,          \* the labels of the basic blocks
    Streams         \* the streams of instructions compiled

Node == 1 .. NodeCount

(***************************************************************************)
(* DagInstruction.  An "alu" reads its output as well; the operand nodes   *)
(* of a "call" are its own node, whose arguments are `in`.                 *)
(***************************************************************************)
Instr == [op : {"set", "mov", "alu", "cmp", "call", "ret", "label", "jmp", "jcc"},
          out : Node \cup {NoNode}, in : Seq(Node), label : Label \cup {NoLabel}]

ASSUME AllocatorAssumption ==
    /\ NodeCount \in Nat
    /\ CallNode \subseteq Node /\ NoNode \notin Node
    /\ IsInjective(Colours) /\ NoColour \notin Range(Colours)
    /\ Streams \subseteq Seq(Instr)

VARIABLES
    stream,         \* the instructions of the MachineDag
    spans,          \* spanFirst and spanLast; a node that does not occur has no span
    node,           \* the node that is considered next; 0 before the spans are known
    colour          \* colors

allocatorVars == <<stream, spans, node, colour>>

NoSpan == [first |-> 0, last |-> 0]

AllocatorInit ==
    /\ stream \in Streams
    /\ spans = [n \in Node |-> NoSpan]
    /\ node = 0
    /\ colour = [n \in Node |-> NoColour]

-----------------------------------------------------------------------------
\* The nodes that an instruction itself names.
Operands(i) ==
    LET instr == stream[i] IN
    ({instr.out} \ {NoNode}) \cup (IF instr.op = "call" THEN {} ELSE Range(instr.in))

\* DagNode.args: of a call, its arguments.
Args(n) ==
    UNION {Range(stream[i].in) : i \in {j \in DOMAIN stream : stream[j].op = "call" /\ stream[j].out = n}}

\* Slip: a call that keeps alive what it names only
TouchedOperands(i) == Operands(i)

\* What an instruction keeps alive: the emitter loads the arguments of a call
\* when it comes to the call, and no instruction of the stream does.
Touched(i) == Operands(i) \cup UNION {Args(n) : n \in Operands(i)}

\* The instruction a label is at.
At(label) == CHOOSE i \in DOMAIN stream : stream[i].op = "label" /\ stream[i].label = label

BackEdge(i) == stream[i].op \in {"jmp", "jcc"} /\ At(stream[i].label) < i

\* A span that meets a loop without being inside it grows over all of it.
OverLoop(span, from, to) ==
    IF span.first <= to /\ span.last >= from /\ ~ (span.first >= from /\ span.last <= to)
    THEN [first |-> Min({span.first, from}), last |-> Max({span.last, to})]
    ELSE span

OverLoops(span) ==
    LET Upto[i \in 0 .. Len(stream)] ==
          IF i = 0 THEN span
          ELSE IF BackEdge(i) THEN OverLoop(Upto[i - 1], At(stream[i].label), i)
          ELSE Upto[i - 1]
    IN Upto[Len(stream)]

\* Eight times over all the loops, and no more.
Settled(span) ==
    LET Round[k \in 0 .. 8] == IF k = 0 THEN span ELSE OverLoops(Round[k - 1]) IN Round[8]

SpanOf(n) ==
    LET where == {i \in DOMAIN stream : n \in Touched(i)} IN
    IF where = {} THEN NoSpan ELSE Settled([first |-> Min(where), last |-> Max(where)])

\* buildBackEdges, buildNodeSpans
BuildSpans ==
    /\ node = 0
    /\ spans' = [n \in Node |-> SpanOf(n)]
    /\ node' = 1
    /\ UNCHANGED <<stream, colour>>

-----------------------------------------------------------------------------
Occurs(n) == spans[n].first > 0

\* A block starts after every terminator: a label alone starts none.
Terminator == {"ret", "jmp", "jcc"}
BlockStart == {i + 1 : i \in {j \in DOMAIN stream : stream[j].op \in Terminator}}

ColorMaxSpan == 1000000

IsColorableLocal(n) ==
    LET f == spans[n].first
        l == spans[n].last IN
    /\ Occurs(n)
    /\ l - f <= ColorMaxSpan
    /\ \A b \in BlockStart : ~ (f < b /\ b <= l)
    /\ \A i \in f .. l : stream[i].op # "call"

\* Two nodes that occur are alive at a common instruction.
Overlap(m, n) ==
    /\ Occurs(m) /\ Occurs(n)
    /\ spans[n].first <= spans[m].last /\ spans[m].first <= spans[n].last

\* buildIntervalInterference
Interference(n) == {colour[m] : m \in {k \in Node \ {n} : colour[k] # NoColour /\ Overlap(k, n)}}

FreeColours(n) == {i \in DOMAIN Colours : Colours[i] \notin Interference(n)}

Considered(n) == node = n /\ node' = node + 1 /\ UNCHANGED <<stream, spans>>

\* tryColorLocal finds a free colour, the first there is.
TryColorLocal(n) ==
    /\ Considered(n)
    /\ n \notin CallNode /\ IsColorableLocal(n)
    /\ \E i \in FreeColours(n) :
          /\ \A j \in FreeColours(n) : i <= j
          /\ colour' = [colour EXCEPT ![n] = Colours[i]]

\* The node stays without a colour: it is never spilled.
LeaveUncoloured(n) ==
    /\ Considered(n)
    /\ n \in CallNode \/ ~ IsColorableLocal(n) \/ FreeColours(n) = {}
    /\ UNCHANGED colour

Allocate == BuildSpans \/ \E n \in Node : TryColorLocal(n) \/ LeaveUncoloured(n)

Allocated == node > NodeCount

AllocatorSpec == AllocatorInit /\ [][Allocate]_allocatorVars

AllocatorTypeOK ==
    /\ stream \in Seq(Instr)
    /\ spans \in [Node -> [first : Nat, last : Nat]]
    /\ node \in 0 .. NodeCount + 1
    /\ colour \in [Node -> Range(Colours) \cup {NoColour}]

\* A node with a colour is a value of one block, with no call in its life.
ColouredAreLocal == \A n \in Node : colour[n] # NoColour => n \notin CallNode /\ IsColorableLocal(n)

\* Two values that are alive at a common instruction have different registers:
\* the later of the two to be coloured has been compared with the other.
NeverShared ==
    \A m, n \in Node : m # n /\ Overlap(m, n) /\ colour[m] # NoColour => colour[m] # colour[n]
=============================================================================
