---------------------------- MODULE CompilerProofs ---------------------------
(***************************************************************************)
(* Theorems about what the tools make of a program: the registers and the  *)
(* slots of its values in the Photon backend, and its dependencies.        *)
(***************************************************************************)
EXTENDS MCCompiler, ExceptionsProofs, SequenceTheorems

(***************************************************************************)
(* What the allocator promises of any stream of instructions, with any     *)
(* registers: two values alive at a common instruction never share one,    *)
(* and a value with a register lives inside one block and across no call.  *)
(*                                                                         *)
(* Both hold because a node is considered once, after the spans are final, *)
(* against all that was coloured before it.                                *)
(***************************************************************************)
\* The nodes that have not been considered have no colour; before the first is
\* considered, and the spans are known, none has.
Untouched ==
    /\ node \in Nat
    /\ colour \in [Node -> Range(Colours) \cup {NoColour}]
    /\ \A n \in Node : n >= node => colour[n] = NoColour

\* A node that is coloured takes a colour that no coloured node alive with it has.
LEMMA FreshColour ==
    ASSUME Untouched, NEW n \in Node, TryColorLocal(n)
    PROVE  /\ colour'[n] \in Range(Colours) \ Interference(n)
           /\ \A m \in Node \ {n} : colour'[m] = colour[m]
           /\ colour' \in [Node -> Range(Colours) \cup {NoColour}]
<1>1. PICK i \in FreeColours(n) : colour' = [colour EXCEPT ![n] = Colours[i]]
  BY DEF TryColorLocal
<1>2. Colours[i] \in Range(Colours) \ Interference(n)
  BY <1>1 DEF FreeColours, Range
<1>3. QED
  BY <1>1, <1>2 DEF Untouched

\* The nodes are numbered from 1, after the 0 of a run without spans.
LEMMA NodesAreNumbers == \A n \in Node : n \in Nat /\ n > 0
  BY AllocatorAssumption DEF AllocatorAssumption, Node

\* The nodes are coloured in their order.
THEOREM InOrder == AllocatorSpec => []Untouched
<1>1. AllocatorInit => Untouched
  BY DEF AllocatorInit, Untouched
<1>2. Untouched /\ [Allocate]_allocatorVars => Untouched'
  <2> SUFFICES ASSUME Untouched, [Allocate]_allocatorVars PROVE Untouched'
    OBVIOUS
  <2>1. CASE BuildSpans
    BY <2>1, NodesAreNumbers DEF BuildSpans, Untouched
  <2>2. ASSUME NEW n \in Node, TryColorLocal(n) PROVE Untouched'
    <3>1. node' = node + 1 /\ node = n
      BY <2>2 DEF TryColorLocal, Considered
    <3>2. QED
      BY <2>2, <3>1, FreshColour, NodesAreNumbers DEF Untouched
  <2>3. ASSUME NEW n \in Node, LeaveUncoloured(n) PROVE Untouched'
    BY <2>3, NodesAreNumbers DEF LeaveUncoloured, Considered, Untouched
  <2>4. CASE UNCHANGED allocatorVars
    BY <2>4 DEF allocatorVars, Untouched
  <2>5. QED
    BY <2>1, <2>2, <2>3, <2>4 DEF Allocate
<1>3. QED
  BY <1>1, <1>2, PTL DEF AllocatorSpec

-----------------------------------------------------------------------------
\* Once spans are known, colouring a node keeps every other node's span, so that
\* overlapping is the same before and after, from either side.
LEMMA SameOverlap ==
    ASSUME UNCHANGED spans, NEW m \in Node, NEW n \in Node
    PROVE  /\ Overlap(m, n)' <=> Overlap(m, n)
           /\ Overlap(m, n) <=> Overlap(n, m)
  BY DEF Overlap, Occurs

\* RegisterAllocator.tryColorLocal: no two values whose spans meet are given
\* the same register.
THEOREM NoSharing == AllocatorSpec => []NeverShared
<1>1. AllocatorInit => NeverShared
  BY DEF AllocatorInit, NeverShared
<1>2. Untouched /\ NeverShared /\ [Allocate]_allocatorVars => NeverShared'
  <2> SUFFICES ASSUME Untouched, NeverShared, [Allocate]_allocatorVars,
                      NEW a \in Node, NEW b \in Node, a # b,
                      Overlap(a, b)', colour'[a] # NoColour
               PROVE  colour'[a] # colour'[b]
    BY DEF NeverShared
  <2>1. CASE BuildSpans
    BY <2>1, NodesAreNumbers DEF BuildSpans, Untouched
  <2>2. ASSUME NEW n \in Node, TryColorLocal(n) PROVE colour'[a] # colour'[b]
    <3>1. Overlap(a, b) /\ Overlap(b, a)
      BY <2>2, SameOverlap DEF TryColorLocal, Considered
    <3>2. /\ colour'[n] \in Range(Colours) /\ colour'[n] \notin Interference(n)
          /\ \A m \in Node \ {n} : colour'[m] = colour[m]
      BY <2>2, FreshColour
    <3>3. colour'[n] # NoColour
      BY <3>2, AllocatorAssumption DEF AllocatorAssumption
    <3>4. \A m \in Node \ {n} : colour[m] # NoColour /\ Overlap(m, n) => colour[m] # colour'[n]
      BY <3>2 DEF Interference
    <3>5. CASE a = n
      BY <3>1, <3>2, <3>3, <3>4, <3>5
    <3>6. CASE b = n
      BY <3>1, <3>2, <3>3, <3>4, <3>6
    <3>7. CASE a # n /\ b # n
      BY <3>1, <3>2, <3>7 DEF NeverShared
    <3>8. QED
      BY <3>5, <3>6, <3>7
  <2>3. ASSUME NEW n \in Node, LeaveUncoloured(n) PROVE colour'[a] # colour'[b]
    BY <2>3, SameOverlap DEF LeaveUncoloured, Considered, NeverShared
  <2>4. CASE UNCHANGED allocatorVars
    BY <2>4, SameOverlap DEF allocatorVars, NeverShared
  <2>5. QED
    BY <2>1, <2>2, <2>3, <2>4 DEF Allocate
<1>3. QED
  BY <1>1, <1>2, InOrder, PTL DEF AllocatorSpec

\* RegisterAllocator.isColorableLocal: a value that crosses a block boundary or
\* a call never has a register, however the spans grew around the loops.
THEOREM OnlyLocals == AllocatorSpec => []ColouredAreLocal
<1>1. AllocatorInit => ColouredAreLocal
  BY DEF AllocatorInit, ColouredAreLocal
<1>2. Untouched /\ ColouredAreLocal /\ [Allocate]_allocatorVars => ColouredAreLocal'
  <2> SUFFICES ASSUME Untouched, ColouredAreLocal, [Allocate]_allocatorVars,
                      NEW a \in Node, colour'[a] # NoColour
               PROVE  a \notin CallNode /\ IsColorableLocal(a)'
    BY DEF ColouredAreLocal
  <2>1. CASE BuildSpans
    BY <2>1, NodesAreNumbers DEF BuildSpans, Untouched
  <2>2. ASSUME UNCHANGED <<spans, stream>> PROVE IsColorableLocal(a)' <=> IsColorableLocal(a)
    BY <2>2 DEF IsColorableLocal, Occurs, BlockStart
  <2>3. ASSUME NEW n \in Node, TryColorLocal(n) PROVE a \notin CallNode /\ IsColorableLocal(a)'
    <3>1. a # n => colour'[a] = colour[a]
      BY <2>3, FreshColour
    <3>2. QED
      BY <2>2, <2>3, <3>1 DEF TryColorLocal, Considered, ColouredAreLocal
  <2>4. ASSUME NEW n \in Node, LeaveUncoloured(n) PROVE a \notin CallNode /\ IsColorableLocal(a)'
    BY <2>2, <2>4 DEF LeaveUncoloured, Considered, ColouredAreLocal
  <2>5. CASE UNCHANGED allocatorVars
    BY <2>2, <2>5 DEF allocatorVars, ColouredAreLocal
  <2>6. QED
    BY <2>1, <2>3, <2>4, <2>5 DEF Allocate
<1>3. QED
  BY <1>1, <1>2, InOrder, PTL DEF AllocatorSpec

-----------------------------------------------------------------------------
(***************************************************************************)
(* Numbers, and the results of doing something over and over, which is     *)
(* what OverLoops and EmitCall are.                                        *)
(***************************************************************************)
\* A set of numbers up to n that is not empty has a least.
LEMMA Smallest ==
    ASSUME NEW n \in Nat, NEW S \in SUBSET (1 .. n), S # {}
    PROVE  Min(S) \in S /\ \A k \in S : Min(S) <= k
<1> DEFINE T == {n + 1 - k : k \in S}
<1>1. T \in SUBSET (1 .. n) /\ T # {}
  <2>1. \A k \in S : k \in 1 .. n /\ n + 1 - k \in 1 .. n
    OBVIOUS
  <2>2. PICK k \in S : TRUE
    OBVIOUS
  <2>3. n + 1 - k \in T
    BY <2>2
  <2>4. \A x \in T : x \in 1 .. n
    BY <2>1
  <2>5. QED
    BY <2>3, <2>4
<1>2. PICK m \in T : \A k \in T : k <= m
  <2> HIDE DEF T
  <2>1. QED
    BY <1>1, Greatest
<1>3. n + 1 - m \in S /\ \A k \in S : n + 1 - m <= k
  BY <1>2
<1>4. QED
  BY <1>3 DEF Min

\* h has the results of doing g, which stays in S, up to N times from s.
StaysIn(g, N, S) == \A n \in 1 .. N, x \in S : g[<<n, x>>] \in S

Repeats(h, g, N, S, s) ==
    h \in [0 .. N -> S] /\ h[0] = s /\ \A n \in 1 .. N : h[n] = g[<<n, h[n - 1]>>]

\* Doing g over and over has results.
LEMMA Iterates ==
    ASSUME NEW N \in Nat, NEW S, NEW s \in S, NEW g, StaysIn(g, N, S)
    PROVE  \E h : Repeats(h, g, N, S, s)
<1> DEFINE P == {m \in Nat : m <= N =>
                    \E h \in [0 .. m -> S] : h[0] = s /\ \A n \in 1 .. m : h[n] = g[<<n, h[n - 1]>>]}
<1>1. 0 \in P
  <2> DEFINE h == [n \in 0 .. 0 |-> s]
  <2>1. h \in [0 .. 0 -> S] /\ h[0] = s /\ \A n \in 1 .. 0 : h[n] = g[<<n, h[n - 1]>>]
    OBVIOUS
  <2> HIDE DEF h
  <2>2. QED
    BY <2>1
<1>2. ASSUME NEW m \in Nat, m \in P PROVE m + 1 \in P
  <2> SUFFICES ASSUME m + 1 <= N
               PROVE  \E h \in [0 .. m + 1 -> S] :
                         h[0] = s /\ \A n \in 1 .. m + 1 : h[n] = g[<<n, h[n - 1]>>]
    OBVIOUS
  <2>1. PICK h \in [0 .. m -> S] : h[0] = s /\ \A n \in 1 .. m : h[n] = g[<<n, h[n - 1]>>]
    BY <1>2
  <2> DEFINE last == g[<<m + 1, h[m]>>]
             e == [n \in 0 .. m + 1 |-> IF n = m + 1 THEN last ELSE h[n]]
  <2>2. last \in S
    BY <2>1 DEF StaysIn
  <2>3. e \in [0 .. m + 1 -> S] /\ e[0] = s
    BY <2>1, <2>2
  <2>4. ASSUME NEW n \in 1 .. m + 1 PROVE e[n] = g[<<n, e[n - 1]>>]
    <3>1. e[n - 1] = h[n - 1]
      OBVIOUS
    <3>2. CASE n = m + 1
      <4>1. n - 1 = m /\ e[n] = last
        BY <3>2
      <4>2. QED
        BY <3>1, <3>2, <4>1
    <3>3. CASE n # m + 1
      BY <2>1, <3>1, <3>3
    <3>4. QED
      BY <3>2, <3>3
  <2> HIDE DEF e
  <2>5. QED
    BY <2>3, <2>4
<1>3. Nat \subseteq P
  <2> HIDE DEF P
  <2>1. QED
    BY <1>1, <1>2, AllNumbers
<1>4. \E h \in [0 .. N -> S] : h[0] = s /\ \A n \in 1 .. N : h[n] = g[<<n, h[n - 1]>>]
  <2>1. N \in P /\ N <= N
    BY <1>3
  <2>2. QED
    BY <2>1, Zenon
<1>5. QED
  BY <1>4 DEF Repeats

-----------------------------------------------------------------------------
(***************************************************************************)
(* The spans. However they grow around the loops, they only grow: no       *)
(* instruction touches a value outside of its span.                        *)
(***************************************************************************)
Span == [first : Nat, last : Nat]

\* A span that has grown out of another.
Over(new, span) == new \in Span /\ new.first <= span.first /\ new.last >= span.last

\* OverLoop only widens a span.
LEMMA LoopGrows ==
    ASSUME NEW span \in Span, NEW from \in Nat, NEW to \in Nat
    PROVE  Over(OverLoop(span, from, to), span)
<1> DEFINE a == Min({span.first, from})
           b == Max({span.last, to})
<1>1. span.first \in Nat /\ span.last \in Nat
  BY DEF Span
<1>2. a \in {span.first, from} /\ a <= span.first
  <2>1. \E x \in {span.first, from} : \A y \in {span.first, from} : x <= y
    BY <1>1
  <2>2. QED
    BY <1>1, <2>1 DEF Min
<1>3. b \in {span.last, to} /\ b >= span.last
  <2>1. \E x \in {span.last, to} : \A y \in {span.last, to} : x >= y
    BY <1>1
  <2>2. QED
    BY <1>1, <2>1 DEF Max
<1>4. a \in Nat /\ b \in Nat
  BY <1>1, <1>2, <1>3
<1> HIDE DEF a, b
<1>5. OverLoop(span, from, to) \in {span, [first |-> a, last |-> b]}
  BY DEF OverLoop, a, b
<1>6. QED
  BY <1>1, <1>2, <1>3, <1>4, <1>5 DEF Over, Span

\* What has grown out of a span that has grown has grown out of the first.
LEMMA OverAgain ==
    ASSUME NEW a, NEW b, NEW c \in Span, Over(b, c), Over(a, b) PROVE Over(a, c)
<1>1. \A x \in Span : x.first \in Nat /\ x.last \in Nat
  BY DEF Span
<1>2. QED
  BY <1>1 DEF Over

\* A jump has a label to go to.
LEMMA LabelsAreThere ==
    ASSUME stream \in Streams, NEW i \in DOMAIN stream, stream[i].op \in Jumps
    PROVE  /\ At(stream[i].label) \in 1 .. Len(stream)
           /\ stream[At(stream[i].label)].op = "label"
           /\ stream[At(stream[i].label)].label = stream[i].label
<1>1. \E j \in DOMAIN stream : stream[j].op = "label" /\ stream[j].label = stream[i].label
  BY EmitterAssumption DEF EmitterAssumption, WellFormed
<1>2. stream \in Seq(Instr) /\ DOMAIN stream = 1 .. Len(stream)
  BY AllocatorAssumption DEF AllocatorAssumption
<1>3. QED
  BY <1>1, <1>2 DEF At

\* buildNodeSpans: going over all the loops only widens a span.
LEMMA LoopsGrow ==
    ASSUME stream \in Streams, NEW span \in Span
    PROVE  Over(OverLoops(span), span)
<1> DEFINE N == Len(stream)
           Grown(x, i) == IF BackEdge(i) THEN OverLoop(x, At(stream[i].label), i) ELSE x
           Def(f, i) == IF i = 0 THEN span ELSE IF BackEdge(i)
                        THEN OverLoop(f[i - 1], At(stream[i].label), i) ELSE f[i - 1]
           f == CHOOSE f : f = [i \in 0 .. N |-> Def(f, i)]
           g == [p \in (1 .. N) \X Span |-> Grown(p[2], p[1])]
<1>1. N \in Nat /\ DOMAIN stream = 1 .. N
  BY AllocatorAssumption DEF AllocatorAssumption
<1> HIDE DEF N
<1>2. ASSUME NEW i \in 1 .. N, NEW x \in Span PROVE Grown(x, i) \in Span /\ Over(Grown(x, i), x)
  <2>1. BackEdge(i) => Over(OverLoop(x, At(stream[i].label), i), x)
    <3>1. BackEdge(i) => At(stream[i].label) \in Nat /\ i \in Nat
      BY <1>1, LabelsAreThere DEF BackEdge, Jumps
    <3>2. QED
      BY <3>1, LoopGrows
  <2>2. Over(x, x)
    BY DEF Over, Span
  <2>3. QED
    BY <2>1, <2>2 DEF Over
<1>3. ASSUME NEW i \in 1 .. N, NEW x \in Span PROVE g[<<i, x>>] = Grown(x, i)
  <2> HIDE DEF Grown
  <2>1. QED
    OBVIOUS
<1>4. PICK h : h \in [0 .. N -> Span] /\ h[0] = span /\ \A i \in 1 .. N : h[i] = g[<<i, h[i - 1]>>]
  <2>1. StaysIn(g, N, Span)
    BY <1>2, <1>3 DEF StaysIn
  <2> HIDE DEF g
  <2>2. \E h : Repeats(h, g, N, Span, span)
    BY <1>1, <2>1, Iterates
  <2>3. QED
    BY <2>2 DEF Repeats
<1>5. ASSUME NEW i \in 0 .. N PROVE h[i] = Def(h, i)
  <2>1. CASE i = 0
    BY <1>4, <2>1
  <2>2. CASE i # 0
    <3>1. i \in 1 .. N /\ i - 1 \in 0 .. N
      BY <1>1, <2>2
    <3>2. h[i - 1] \in Span
      BY <1>4, <3>1
    <3>3. h[i] = Grown(h[i - 1], i)
      <4> HIDE DEF g, Grown
      <4>1. QED
        BY <1>3, <1>4, <3>1, <3>2
    <3>4. QED
      BY <2>2, <3>3
  <2>3. QED
    BY <2>1, <2>2
<1>6. h = [i \in 0 .. N |-> Def(h, i)]
  <2> HIDE DEF Def
  <2>1. QED
    BY <1>4, <1>5
<1>7. f = [i \in 0 .. N |-> Def(f, i)]
  <2> HIDE DEF Def
  <2>1. \E d : d = [i \in 0 .. N |-> Def(d, i)]
    BY <1>6, Zenon
  <2>2. QED
    BY <2>1, Zenon
<1>8. OverLoops(span) = f[N]
  BY DEF OverLoops, N
<1> HIDE DEF f
<1>9. f[0] = span
  BY <1>1, <1>7
<1>10. ASSUME NEW i \in 1 .. N PROVE f[i] = Grown(f[i - 1], i)
  <2>1. i \in 0 .. N /\ i # 0
    BY <1>1
  <2>2. f[i] = Def(f, i)
    <3> HIDE DEF Def
    <3>1. QED
      BY <1>7, <2>1
  <2>3. QED
    BY <2>1, <2>2
<1> DEFINE P == {i \in Nat : i <= N => f[i] \in Span /\ Over(f[i], span)}
<1>11. 0 \in P
  BY <1>9 DEF Over, Span
<1>12. ASSUME NEW i \in Nat, i \in P PROVE i + 1 \in P
  <2> SUFFICES ASSUME i + 1 <= N PROVE f[i + 1] \in Span /\ Over(f[i + 1], span)
    OBVIOUS
  <2>1. f[i] \in Span /\ Over(f[i], span) /\ i + 1 \in 1 .. N /\ (i + 1) - 1 = i
    BY <1>1, <1>12
  <2>2. f[i + 1] = Grown(f[i], i + 1)
    <3> HIDE DEF Grown
    <3>1. QED
      BY <1>10, <2>1
  <2> HIDE DEF Grown
  <2>3. f[i + 1] \in Span /\ Over(f[i + 1], f[i])
    BY <1>2, <2>1, <2>2
  <2>4. QED
    BY <2>1, <2>3, OverAgain
<1>13. Nat \subseteq P
  <2> HIDE DEF P
  <2>1. QED
    BY <1>11, <1>12, AllNumbers
<1>14. QED
  BY <1>1, <1>8, <1>13

\* So does going over them eight times.
LEMMA SettledGrows ==
    ASSUME stream \in Streams, NEW span \in Span
    PROVE  Over(Settled(span), span)
<1> DEFINE Def(f, k) == IF k = 0 THEN span ELSE OverLoops(f[k - 1])
           f == CHOOSE f : f = [k \in 0 .. 8 |-> Def(f, k)]
           g == [p \in (1 .. 8) \X Span |-> OverLoops(p[2])]
<1>1. ASSUME NEW x \in Span PROVE OverLoops(x) \in Span /\ Over(OverLoops(x), x)
  BY LoopsGrow DEF Over
<1>2. \A k \in 1 .. 8, x \in Span : g[<<k, x>>] = OverLoops(x)
  OBVIOUS
<1>3. PICK h : h \in [0 .. 8 -> Span] /\ h[0] = span /\ \A k \in 1 .. 8 : h[k] = g[<<k, h[k - 1]>>]
  <2>1. StaysIn(g, 8, Span)
    BY <1>1, <1>2 DEF StaysIn
  <2> HIDE DEF g
  <2>2. \E h : Repeats(h, g, 8, Span, span)
    BY <2>1, Iterates
  <2>3. QED
    BY <2>2 DEF Repeats
<1> HIDE DEF g
<1>4. ASSUME NEW k \in 0 .. 8 PROVE h[k] = Def(h, k)
  <2>1. CASE k = 0
    BY <1>3, <2>1
  <2>2. CASE k # 0
    <3>1. k \in 1 .. 8 /\ k - 1 \in 0 .. 8
      BY <2>2
    <3>2. QED
      BY <1>2, <1>3, <2>2, <3>1
  <2>3. QED
    BY <2>1, <2>2
<1>5. h = [k \in 0 .. 8 |-> Def(h, k)]
  <2> HIDE DEF Def
  <2>1. QED
    BY <1>3, <1>4
<1>6. f = [k \in 0 .. 8 |-> Def(f, k)]
  <2> HIDE DEF Def
  <2>1. \E d : d = [k \in 0 .. 8 |-> Def(d, k)]
    BY <1>5, Zenon
  <2>2. QED
    BY <2>1, Zenon
<1>7. Settled(span) = f[8]
  BY DEF Settled
<1> HIDE DEF f
<1>8. f[0] = span
  BY <1>6
<1>9. ASSUME NEW k \in 1 .. 8 PROVE f[k] = OverLoops(f[k - 1])
  <2>1. k \in 0 .. 8 /\ k # 0
    OBVIOUS
  <2>2. f[k] = Def(f, k)
    <3> HIDE DEF Def
    <3>1. QED
      BY <1>6, <2>1
  <2>3. QED
    BY <2>1, <2>2
<1> DEFINE P == {k \in Nat : k <= 8 => f[k] \in Span /\ Over(f[k], span)}
<1>10. 0 \in P
  BY <1>8 DEF Over, Span
<1>11. ASSUME NEW k \in Nat, k \in P PROVE k + 1 \in P
  <2> SUFFICES ASSUME k + 1 <= 8 PROVE f[k + 1] \in Span /\ Over(f[k + 1], span)
    OBVIOUS
  <2>1. f[k] \in Span /\ Over(f[k], span) /\ k + 1 \in 1 .. 8 /\ (k + 1) - 1 = k
    BY <1>11
  <2>2. f[k + 1] = OverLoops(f[k])
    BY <1>9, <2>1
  <2>3. f[k + 1] \in Span /\ Over(f[k + 1], f[k])
    BY <1>1, <2>1, <2>2
  <2>4. QED
    BY <2>1, <2>3, OverAgain
<1>12. Nat \subseteq P
  <2> HIDE DEF P
  <2>1. QED
    BY <1>10, <1>11, AllNumbers
<1>13. QED
  BY <1>7, <1>12

\* The span of a node has every instruction that touches it.
LEMMA SpanCovers ==
    ASSUME stream \in Streams, NEW n \in Node
    PROVE  /\ SpanOf(n) \in Span
           /\ \A i \in DOMAIN stream :
                 n \in Touched(i) => SpanOf(n).first <= i /\ i <= SpanOf(n).last
<1> DEFINE where == {i \in DOMAIN stream : n \in Touched(i)}
           span == [first |-> Min(where), last |-> Max(where)]
<1>1. Len(stream) \in Nat /\ DOMAIN stream = 1 .. Len(stream)
  BY AllocatorAssumption DEF AllocatorAssumption
<1>2. CASE where = {}
  <2>1. SpanOf(n) = NoSpan
    BY <1>2 DEF SpanOf
  <2>2. QED
    BY <1>2, <2>1 DEF NoSpan, Span
<1>3. CASE where # {}
  <2>1. SpanOf(n) = Settled(span)
    BY <1>3 DEF SpanOf
  <2>2. where \in SUBSET (1 .. Len(stream))
    BY <1>1
  <2> HIDE DEF where
  <2>3. /\ Min(where) \in where /\ \A i \in where : Min(where) <= i
        /\ Max(where) \in where /\ \A i \in where : i <= Max(where)
    BY <1>1, <1>3, <2>2, Smallest, Greatest
  <2>4. span \in Span /\ span.first = Min(where) /\ span.last = Max(where)
    <3>1. Min(where) \in Nat /\ Max(where) \in Nat
      <4>1. \A i \in where : i \in Nat
        BY <2>2
      <4>2. QED
        BY <2>3, <4>1
    <3>2. QED
      BY <3>1 DEF Span
  <2> HIDE DEF span
  <2>5. Over(SpanOf(n), span)
    BY <2>1, <2>4, SettledGrows
  <2>6. SpanOf(n).first \in Nat /\ SpanOf(n).last \in Nat
    BY <2>5 DEF Over, Span
  <2>7. \A i \in where : i \in Nat
    BY <2>2
  <2>8. ASSUME NEW i \in where PROVE SpanOf(n).first <= i /\ i <= SpanOf(n).last
    <3>1. /\ SpanOf(n).first <= Min(where) /\ Min(where) <= i /\ Min(where) \in Nat
          /\ SpanOf(n).last >= Max(where) /\ Max(where) >= i /\ Max(where) \in Nat /\ i \in Nat
      BY <2>3, <2>4, <2>5, <2>7 DEF Over
    <3>2. QED
      BY <2>6, <3>1
  <2>9. QED
    BY <2>5, <2>8 DEF Over, where
<1>4. QED
  BY <1>2, <1>3

\* A node is alive wherever an instruction touches it.
SpansCover ==
    /\ stream \in Streams /\ node \in Nat
    /\ node > 0 =>
          /\ spans \in [Node -> Span]
          /\ \A n \in Node, i \in DOMAIN stream :
                n \in Touched(i) => spans[n].first <= i /\ i <= spans[n].last

\* buildNodeSpans: no instruction touches a value outside of its span.
THEOREM SpansAreWide == AllocatorSpec => []SpansCover
<1>1. AllocatorInit => SpansCover
  BY DEF AllocatorInit, SpansCover
<1>2. SpansCover /\ [Allocate]_allocatorVars => SpansCover'
  <2> SUFFICES ASSUME SpansCover, [Allocate]_allocatorVars PROVE SpansCover'
    OBVIOUS
  <2>1. CASE BuildSpans
    <3>1. /\ stream' = stream /\ node' = 1 /\ stream \in Streams
          /\ spans' = [n \in Node |-> SpanOf(n)]
      BY <2>1 DEF BuildSpans, SpansCover
    <3>2. \A n \in Node, i \in DOMAIN stream : Touched(i)' = Touched(i)
      BY <3>1 DEF Touched, Operands, Args
    <3>3. spans' \in [Node -> Span]
      BY <3>1, SpanCovers
    <3>4. \A n \in Node, i \in DOMAIN stream :
             n \in Touched(i) => spans'[n].first <= i /\ i <= spans'[n].last
      BY <3>1, SpanCovers
    <3>5. QED
      BY <3>1, <3>2, <3>3, <3>4 DEF SpansCover
  <2>2. CASE UNCHANGED <<stream, spans>> /\ node' \in Nat /\ (node' > 0 => node > 0)
    <3>1. \A n \in Node, i \in DOMAIN stream : Touched(i)' = Touched(i)
      BY <2>2 DEF Touched, Operands, Args
    <3>2. QED
      BY <2>2, <3>1 DEF SpansCover
  <2>3. ASSUME NEW n \in Node, Considered(n)
        PROVE  UNCHANGED <<stream, spans>> /\ node' \in Nat /\ (node' > 0 => node > 0)
    BY <2>3, AllocatorAssumption DEF AllocatorAssumption, Considered, Node
  <2>4. QED
    BY <2>1, <2>2, <2>3 DEF SpansCover, Allocate, TryColorLocal, LeaveUncoloured, allocatorVars
<1>3. QED
  BY <1>1, <1>2, PTL DEF AllocatorSpec

-----------------------------------------------------------------------------
(***************************************************************************)
(* The code. Each item has a tag: the instruction it belongs to, and       *)
(* whether it is a read whose store was taken back. Fit says what an item  *)
(* of an instruction may be; Link, what an item and the next ask of each   *)
(* other: a value that is given is stored or copied at once, a store or a  *)
(* copy comes right after what gives the value, and the read of a value    *)
(* with a slot right after its load, or after what gave it.                *)
(***************************************************************************)
Register == Scratch \cup Range(Colours)

Site == Location \cup {Reg(NoColour)}

Items == [do : {"move", "use", "define", "alias", "elided", "call"}
               \cup {"ret", "label"} \cup Jumps,
          node : Node \cup {NoNode}, to : Site, from : Site, label : Label \cup {NoLabel}]

\* What an item belongs to: an instruction of the stream, and whether the item is
\* the read of a value whose store was taken back.
Tags == [at : Nat, elide : BOOLEAN]
Tag(k) == [at |-> k, elide |-> FALSE]
Retold(k) == [at |-> k, elide |-> TRUE]

\* The item gives node n the value it has, which is in register r.
Gives(x, n, r) == x = Define(n, r) \/ x = Alias(n, r)

\* x is an item that instruction s may become.
FitRead(x, s, elide) ==
    \E n \in Reads(s), r \in Register :
        x = Use(n, r) /\ (InRegister(n) => r = colour[n] /\ ~ elide)

FitMake(x, s) ==
    \E n \in Makes(s), r \in Register :
        \/ x = Define(n, r) /\ (IF InRegister(n) THEN r = colour[n] ELSE r \in Scratch)
        \/ x = Alias(n, r)
        \/ x = Copy(colour[n], r) /\ InRegister(n)
        \/ x = Keep(n, r) /\ ~ InRegister(n)

FitOther(x, s) ==
    \/ \E n \in Node, r \in Scratch : x = Load(r, n)
    \/ \E n \in Node : x = Elided(n)
    \/ x = Clobber
    \/ s.op = "ret" /\ x = Control("ret", NoLabel)
    \/ s.op \in {"label"} \cup Jumps /\ x = Control(s.op, s.label)

Fit(x, t) ==
    /\ x \in Items /\ t \in Tags /\ t.at \in DOMAIN stream
    /\ t.elide => x.do = "use"
    /\ \/ FitRead(x, stream[t.at], t.elide)
       \/ FitMake(x, stream[t.at])
       \/ FitOther(x, stream[t.at])

\* x may be the last item of its instruction.
Ends(x, t) ==
    /\ ~ t.elide
    /\ stream[t.at].op \in {"ret", "label"} \cup Jumps => x.do = stream[t.at].op
    /\ \A n \in Makes(stream[t.at]) :
          IF InRegister(n) THEN \E r \in Register : x = Define(n, r) \/ x = Copy(colour[n], r)
          ELSE \E r \in Register : x = Keep(n, r) \/ Gives(x, n, r)

\* x asks nothing of what follows.
Settles(x, t) ==
    /\ ~ t.elide
    /\ \A n, r : Gives(x, n, r) /\ ~ InRegister(n) => FALSE
    /\ \A n, r : x = Alias(n, r) /\ InRegister(n) => FALSE

\* y asks nothing of what is before.
Alone(y) ==
    /\ \A n, r : y = Keep(n, r) => FALSE
    /\ \A c, r : y = Copy(c, r) => FALSE
    /\ \A n, r : y = Use(n, r) => InRegister(n)

\* y, of u, directly follows x, of t.
Asks(x, t, y, u) ==
    /\ \A n, r : Gives(x, n, r) /\ ~ InRegister(n) =>
          (\E q : y = Keep(n, q)) \/ (y = Use(n, r) /\ u.elide)
    /\ \A n, r : x = Alias(n, r) /\ InRegister(n) => y = Copy(colour[n], r)
    /\ \A n, r : x = Use(n, r) /\ t.elide => y = Elided(n)

Needs(x, t, y, u) ==
    /\ \A n, r : y = Keep(n, r) => Gives(x, n, r) /\ u.at = t.at
    /\ \A c, r : y = Copy(c, r) => \E n \in Node : InRegister(n) /\ colour[n] = c /\ x = Alias(n, r)
    /\ \A n, r : y = Use(n, r) /\ ~ InRegister(n) =>
          IF u.elide THEN Gives(x, n, r) ELSE x = Load(r, n)

Link(x, t, y, u) ==
    /\ u.at = t.at \/ (u.at = t.at + 1 /\ Ends(x, t))
    /\ Asks(x, t, y, u) /\ Needs(x, t, y, u)

Chain(c, t) ==
    /\ c \in Seq(Items) /\ t \in Seq(Tags) /\ Len(t) = Len(c)
    /\ \A p \in 1 .. Len(c) : Fit(c[p], t[p])
    /\ c # <<>> => Alone(c[1]) /\ t[1].at = 1
    /\ \A p \in 1 .. Len(c) - 1 : Link(c[p], t[p], c[p + 1], t[p + 1])

\* y may be the next item of the code.
Joins(c, t, y, u) ==
    IF c = <<>> THEN Alone(y) /\ u.at = 1 ELSE Link(c[Len(c)], t[Len(c)], y, u)

\* An item of instruction k may come after the code c.
MayFollow(c, t, k) ==
    /\ Chain(c, t)
    /\ c = <<>> => k = 1
    /\ c # <<>> => \/ t[Len(c)].at = k
                   \/ t[Len(c)].at + 1 = k /\ Ends(c[Len(c)], t[Len(c)])

\* d is c with y, of tag u.
Longer(c, t, d, v, y, u) ==
    /\ d = Append(c, y) /\ v = Append(t, u)
    /\ d # <<>> /\ Len(d) = Len(c) + 1 /\ Len(d) \in Nat
    /\ d[Len(d)] = y /\ v[Len(d)] = u
    /\ \A p \in 1 .. Len(c) : d[p] = c[p]

\* A sequence with one more element.
LEMMA OneMore ==
    ASSUME NEW S, NEW s \in Seq(S), NEW e \in S
    PROVE  LET b == Append(s, e)
           IN  /\ b \in Seq(S) /\ Len(b) = Len(s) + 1 /\ b[Len(b)] = e
               /\ \A i \in 1 .. Len(s) : b[i] = s[i]
  OBVIOUS

\* One more item.
LEMMA LonelyLink ==
    ASSUME NEW c, NEW t, Chain(c, t), NEW y, NEW u, Fit(y, u), Joins(c, t, y, u)
    PROVE  /\ Chain(Append(c, y), Append(t, u))
           /\ Longer(c, t, Append(c, y), Append(t, u), y, u)
<1> DEFINE d == Append(c, y)
           v == Append(t, u)
<1>1. /\ c \in Seq(Items) /\ t \in Seq(Tags) /\ Len(t) = Len(c) /\ Len(c) \in Nat
      /\ y \in Items /\ u \in Tags
  BY DEF Chain, Fit
<1>2. /\ d \in Seq(Items) /\ v \in Seq(Tags) /\ Len(d) = Len(c) + 1 /\ Len(v) = Len(c) + 1
      /\ d # <<>> /\ d[Len(c) + 1] = y /\ v[Len(c) + 1] = u
      /\ \A p \in 1 .. Len(c) : d[p] = c[p] /\ v[p] = t[p]
  <2>1. /\ d \in Seq(Items) /\ Len(d) = Len(c) + 1 /\ d[Len(d)] = y
        /\ \A p \in 1 .. Len(c) : d[p] = c[p]
    BY <1>1, OneMore
  <2>2. /\ v \in Seq(Tags) /\ Len(v) = Len(t) + 1 /\ v[Len(v)] = u
        /\ \A p \in 1 .. Len(t) : v[p] = t[p]
    BY <1>1, OneMore
  <2> HIDE DEF d, v
  <2>3. d # <<>>
    BY <1>1, <2>1
  <2>4. QED
    BY <1>1, <2>1, <2>2, <2>3
<1> HIDE DEF d, v
<1>3. ASSUME NEW p \in 1 .. Len(d) PROVE Fit(d[p], v[p])
  <2>1. CASE p = Len(c) + 1
    BY <1>2, <2>1
  <2>2. CASE p # Len(c) + 1
    <3>1. p \in 1 .. Len(c)
      BY <1>1, <1>2, <2>2
    <3>2. QED
      BY <1>2, <3>1 DEF Chain
  <2>3. QED
    BY <2>1, <2>2
<1>4. Alone(d[1]) /\ v[1].at = 1
  <2>1. CASE c = <<>>
    BY <1>2, <2>1 DEF Joins
  <2>2. CASE c # <<>>
    <3>1. 1 \in 1 .. Len(c)
      BY <1>1, <2>2
    <3>2. QED
      BY <1>2, <2>2, <3>1 DEF Chain
  <2>3. QED
    BY <2>1, <2>2
<1>5. ASSUME NEW p \in 1 .. Len(d) - 1 PROVE Link(d[p], v[p], d[p + 1], v[p + 1])
  <2>1. p \in 1 .. Len(c) /\ c # <<>>
    BY <1>1, <1>2
  <2>2. CASE p = Len(c)
    BY <1>2, <2>1, <2>2 DEF Joins
  <2>3. CASE p # Len(c)
    <3>1. p \in 1 .. Len(c) - 1 /\ p + 1 \in 1 .. Len(c)
      BY <1>1, <2>1, <2>3
    <3>2. QED
      BY <1>2, <2>1, <3>1 DEF Chain
  <2>4. QED
    BY <2>2, <2>3
<1>6. Chain(d, v)
  BY <1>2, <1>3, <1>4, <1>5 DEF Chain
<1>7. Longer(c, t, d, v, y, u)
  BY <1>1, <1>2 DEF Longer, d, v
<1>8. QED
  BY <1>6, <1>7 DEF d, v

\* Items that say different things are different.
LEMMA GivesOnce ==
    ASSUME NEW x, NEW n, NEW r, Gives(x, n, r)
    PROVE  /\ x.do \in {"define", "alias"} /\ x.node = n
           /\ x.to = Reg(r) /\ x.from = Reg(r)
           /\ \A m, q : Gives(x, m, q) => m = n /\ q = r
           /\ \A m, q : x # Use(m, q) /\ x # Keep(m, q) /\ x # Copy(m, q) /\ x # Load(m, q)
<1>1. x.do \in {"define", "alias"} /\ x.node = n /\ x.to = Reg(r) /\ x.from = Reg(r)
  BY DEF Gives, Define, Alias, Item
<1>2. \A m, q : Gives(x, m, q) => x.node = m /\ x.to = Reg(q)
  BY DEF Gives, Define, Alias, Item
<1>3. \A q : Reg(q) = Reg(r) => q = r
  BY DEF Reg
<1>4. \A m, q : /\ Use(m, q).do = "use" /\ Keep(m, q).do = "move"
                /\ Copy(m, q).do = "move" /\ Load(m, q).do = "move"
  BY DEF Use, Keep, Copy, Load, Item
<1>5. QED
  BY <1>1, <1>2, <1>3, <1>4

\* A store is no other item, and stores one value from one register.
LEMMA KeepOnce ==
    ASSUME NEW n, NEW r
    PROVE  /\ Keep(n, r).do = "move" /\ Keep(n, r).to = Slot(n) /\ Keep(n, r).from = Reg(r)
           /\ \A m, q : Keep(m, q) = Keep(n, r) => m = n /\ q = r
           /\ \A m, q : Keep(n, r) # Use(m, q) /\ Keep(n, r) # Copy(m, q) /\ Keep(n, r) # Load(m, q)
                        /\ ~ Gives(Keep(n, r), m, q) /\ Keep(n, r) # Alias(m, q)
<1>1. Keep(n, r).do = "move" /\ Keep(n, r).to = Slot(n) /\ Keep(n, r).from = Reg(r)
  BY DEF Keep, Item
<1>2. \A m, q : Keep(m, q).to = Slot(m) /\ Keep(m, q).from = Reg(q)
  BY DEF Keep, Item
<1>3. \A m, q : Slot(m) = Slot(n) /\ Reg(q) = Reg(r) => m = n /\ q = r
  BY DEF Slot, Reg
<1>4. \A m, q : Copy(m, q).to = Reg(m) /\ Load(m, q).to = Reg(m) /\ Use(m, q).do = "use"
  BY DEF Copy, Load, Use, Item
<1>5. \A m : Slot(n) # Reg(m)
  BY DEF Slot, Reg
<1>6. \A m, q : Alias(m, q).do = "alias" /\ Define(m, q).do = "define"
  BY DEF Alias, Define, Item
<1>7. \A m, q : ~ Gives(Keep(n, r), m, q) /\ Keep(n, r) # Alias(m, q)
  BY <1>1, <1>6 DEF Gives
<1>8. QED
  BY <1>1, <1>2, <1>3, <1>4, <1>5, <1>7

\* A copy into a register is no other item.
LEMMA CopyOnce ==
    ASSUME NEW c, NEW r
    PROVE  /\ Copy(c, r).do = "move" /\ Copy(c, r).to = Reg(c) /\ Copy(c, r).from = Reg(r)
           /\ \A m, q : Copy(m, q) = Copy(c, r) => m = c /\ q = r
           /\ \A m, q : Copy(c, r) # Use(m, q) /\ Copy(c, r) # Keep(m, q) /\ Copy(c, r) # Load(m, q)
                        /\ ~ Gives(Copy(c, r), m, q) /\ Copy(c, r) # Alias(m, q)
<1>1. Copy(c, r).do = "move" /\ Copy(c, r).to = Reg(c) /\ Copy(c, r).from = Reg(r)
  BY DEF Copy, Item
<1>2. \A m, q : Copy(m, q).to = Reg(m) /\ Copy(m, q).from = Reg(q)
  BY DEF Copy, Item
<1>3. \A m, q : Reg(m) = Reg(c) /\ Reg(q) = Reg(r) => m = c /\ q = r
  BY DEF Reg
<1>4. \A m, q : Load(m, q).from = Slot(q) /\ Keep(m, q).to = Slot(m) /\ Use(m, q).do = "use"
  BY DEF Keep, Load, Use, Item
<1>5. \A m, q : Slot(m) # Reg(q)
  BY DEF Slot, Reg
<1>6. \A m, q : Alias(m, q).do = "alias" /\ Define(m, q).do = "define"
  BY DEF Alias, Define, Item
<1>7. \A m, q : ~ Gives(Copy(c, r), m, q) /\ Copy(c, r) # Alias(m, q)
  BY <1>1, <1>6 DEF Gives
<1>8. QED
  BY <1>1, <1>2, <1>3, <1>4, <1>5, <1>7

\* A load is no other item, and loads one value into one register.
LEMMA LoadOnce ==
    ASSUME NEW r, NEW n
    PROVE  /\ Load(r, n).do = "move" /\ Load(r, n).to = Reg(r) /\ Load(r, n).from = Slot(n)
           /\ \A m, q : Load(q, m) = Load(r, n) => m = n /\ q = r
           /\ \A m, q : Load(r, n) # Use(m, q) /\ Load(r, n) # Keep(m, q) /\ Load(r, n) # Copy(m, q)
                        /\ ~ Gives(Load(r, n), m, q) /\ Load(r, n) # Alias(m, q)
<1>1. Load(r, n).do = "move" /\ Load(r, n).to = Reg(r) /\ Load(r, n).from = Slot(n)
  BY DEF Load, Item
<1>2. \A m, q : Load(q, m).to = Reg(q) /\ Load(q, m).from = Slot(m)
  BY DEF Load, Item
<1>3. \A m, q : Slot(m) = Slot(n) /\ Reg(q) = Reg(r) => m = n /\ q = r
  BY DEF Reg, Slot
<1>4. \A m, q : Copy(m, q).from = Reg(q) /\ Keep(m, q).from = Reg(q) /\ Use(m, q).do = "use"
  BY DEF Keep, Copy, Use, Item
<1>5. \A q : Slot(n) # Reg(q)
  BY DEF Slot, Reg
<1>6. \A m, q : Alias(m, q).do = "alias" /\ Define(m, q).do = "define"
  BY DEF Alias, Define, Item
<1>7. \A m, q : ~ Gives(Load(r, n), m, q) /\ Load(r, n) # Alias(m, q)
  BY <1>1, <1>6 DEF Gives
<1>8. QED
  BY <1>1, <1>2, <1>3, <1>4, <1>5, <1>7

\* A read is no other item, and reads one value in one register.
LEMMA UseOnce ==
    ASSUME NEW n, NEW r
    PROVE  /\ Use(n, r).do = "use" /\ Use(n, r).node = n /\ Use(n, r).to = Reg(r)
           /\ Use(n, r).from = Reg(r)
           /\ \A m, q : Use(m, q) = Use(n, r) => m = n /\ q = r
           /\ \A m, q : Use(n, r) # Keep(m, q) /\ Use(n, r) # Copy(m, q) /\ Use(n, r) # Load(m, q)
                        /\ ~ Gives(Use(n, r), m, q) /\ Use(n, r) # Alias(m, q)
<1>1. /\ Use(n, r).do = "use" /\ Use(n, r).node = n /\ Use(n, r).to = Reg(r)
      /\ Use(n, r).from = Reg(r)
  BY DEF Use, Item
<1>2. \A m, q : Use(m, q).node = m /\ Use(m, q).to = Reg(q)
  BY DEF Use, Item
<1>3. \A q : Reg(q) = Reg(r) => q = r
  BY DEF Reg
<1>4. \A m, q : Copy(m, q).do = "move" /\ Keep(m, q).do = "move" /\ Load(m, q).do = "move"
  BY DEF Keep, Copy, Load, Item
<1>5. \A m, q : Alias(m, q).do = "alias" /\ Define(m, q).do = "define"
  BY DEF Alias, Define, Item
<1>6. \A m, q : ~ Gives(Use(n, r), m, q) /\ Use(n, r) # Alias(m, q)
  BY <1>1, <1>5 DEF Gives
<1>7. QED
  BY <1>1, <1>2, <1>3, <1>4, <1>6

\* The other items.
LEMMA OtherItems ==
    ASSUME NEW y, y.do \notin {"move", "use"}
    PROVE  /\ Alone(y)
           /\ y.do \notin {"define", "alias"} => \A m, q : ~ Gives(y, m, q) /\ y # Alias(m, q)
<1>1. \A m, q : /\ Copy(m, q).do = "move" /\ Keep(m, q).do = "move" /\ Use(m, q).do = "use"
                /\ Alias(m, q).do = "alias" /\ Define(m, q).do = "define"
  BY DEF Keep, Copy, Use, Alias, Define, Item
<1>2. QED
  BY <1>1 DEF Alone, Gives

-----------------------------------------------------------------------------
Settled0(c, t) == c # <<>> => Settles(c[Len(c)], t[Len(c)])

\* The same, where the next instruction is k.
LEMMA PutLinked ==
    ASSUME NEW c, NEW t, NEW k \in Nat, Chain(c, t), NEW y, NEW u, Fit(y, u), u.at = k,
           IF c = <<>> THEN Alone(y) /\ k = 1 ELSE Link(c[Len(c)], t[Len(c)], y, u)
    PROVE  /\ MayFollow(Append(c, y), Append(t, u), k)
           /\ Longer(c, t, Append(c, y), Append(t, u), y, u)
<1>1. Joins(c, t, y, u)
  BY DEF Joins
<1>2. Chain(Append(c, y), Append(t, u)) /\ Longer(c, t, Append(c, y), Append(t, u), y, u)
  BY <1>1, LonelyLink
<1>3. MayFollow(Append(c, y), Append(t, u), k)
  BY <1>2 DEF MayFollow, Longer
<1>4. QED
  BY <1>2, <1>3

\* An item that asks nothing of the one before, which asks nothing of it.
LEMMA PutPlain ==
    ASSUME NEW c, NEW t, NEW k \in Nat, MayFollow(c, t, k), Settled0(c, t),
           NEW y, Alone(y), Fit(y, Tag(k))
    PROVE  /\ MayFollow(Append(c, y), Append(t, Tag(k)), k)
           /\ Longer(c, t, Append(c, y), Append(t, Tag(k)), y, Tag(k))
<1> DEFINE u == Tag(k)
<1>a. u.at = k /\ u.elide = FALSE
  BY DEF Tag
<1> HIDE DEF u
<1>1. CASE c = <<>>
  <2>1. k = 1 /\ Chain(c, t)
    BY <1>1 DEF MayFollow
  <2>2. QED
    BY <1>1, <1>a, <2>1, PutLinked DEF u
<1>2. CASE c # <<>>
  <2> DEFINE x == c[Len(c)]
             b == t[Len(c)]
  <2>1. Settles(x, b) /\ (b.at = k \/ (b.at + 1 = k /\ Ends(x, b)))
    BY <1>2 DEF Settled0, MayFollow
  <2> HIDE DEF x, b
  <2>2. Asks(x, b, y, Tag(k))
    BY <2>1 DEF Asks, Settles
  <2>3. Needs(x, b, y, Tag(k))
    BY DEF Needs, Alone
  <2>4. Link(x, b, y, Tag(k))
    BY <2>1, <2>2, <2>3 DEF Link, Tag
  <2>5. QED
    BY <1>2, <2>4, PutLinked DEF MayFollow, Tag, x, b
<1>3. QED
  BY <1>1, <1>2

\* The store of a value into its slot.
LEMMA PutKeep ==
    ASSUME NEW c, NEW t, NEW k \in Nat, Chain(c, t), c # <<>>, NEW n, NEW r,
           Gives(c[Len(c)], n, r), t[Len(c)] = Tag(k), ~ InRegister(n),
           Fit(Keep(n, r), Tag(k))
    PROVE  /\ MayFollow(Append(c, Keep(n, r)), Append(t, Tag(k)), k)
           /\ Longer(c, t, Append(c, Keep(n, r)), Append(t, Tag(k)), Keep(n, r), Tag(k))
<1> DEFINE x == c[Len(c)]
<1>1. Gives(x, n, r)
  OBVIOUS
<1> HIDE DEF x
<1>2. Asks(x, Tag(k), Keep(n, r), Tag(k))
  BY <1>1, GivesOnce DEF Asks, Gives
<1>3. Needs(x, Tag(k), Keep(n, r), Tag(k))
  BY <1>1, KeepOnce DEF Needs
<1>4. Link(x, Tag(k), Keep(n, r), Tag(k))
  BY <1>2, <1>3 DEF Link, Tag
<1>5. QED
  BY <1>4, PutLinked DEF x, Tag

\* The copy of a value into its register.
LEMMA PutCopy ==
    ASSUME NEW c, NEW t, NEW k \in Nat, Chain(c, t), c # <<>>, NEW n \in Node, NEW r,
           c[Len(c)] = Alias(n, r), t[Len(c)] = Tag(k), InRegister(n),
           Fit(Copy(colour[n], r), Tag(k))
    PROVE  /\ MayFollow(Append(c, Copy(colour[n], r)), Append(t, Tag(k)), k)
           /\ Longer(c, t, Append(c, Copy(colour[n], r)), Append(t, Tag(k)),
                     Copy(colour[n], r), Tag(k))
<1> DEFINE x == c[Len(c)]
           y == Copy(colour[n], r)
<1>1. Gives(x, n, r) /\ x = Alias(n, r)
  BY DEF Gives
<1> HIDE DEF x
<1>2. Asks(x, Tag(k), y, Tag(k))
  <2>1. \A m, q : Gives(x, m, q) => m = n /\ q = r
    BY <1>1, GivesOnce
  <2>2. \A m, q : x # Use(m, q)
    BY <1>1, GivesOnce
  <2>3. QED
    BY <2>1, <2>2 DEF Asks, Gives
<1>3. Needs(x, Tag(k), y, Tag(k))
  BY <1>1, CopyOnce DEF Needs
<1>4. Link(x, Tag(k), y, Tag(k))
  BY <1>2, <1>3 DEF Link, Tag
<1>5. QED
  BY <1>4, PutLinked DEF x, Tag

\* The read of what was loaded.
LEMMA PutUse ==
    ASSUME NEW c, NEW t, NEW k \in Nat, Chain(c, t), c # <<>>, NEW n, NEW r,
           c[Len(c)] = Load(r, n), t[Len(c)] = Tag(k), ~ InRegister(n),
           Fit(Use(n, r), Tag(k))
    PROVE  /\ MayFollow(Append(c, Use(n, r)), Append(t, Tag(k)), k)
           /\ Longer(c, t, Append(c, Use(n, r)), Append(t, Tag(k)), Use(n, r), Tag(k))
<1> DEFINE x == c[Len(c)]
<1>1. x = Load(r, n)
  OBVIOUS
<1> HIDE DEF x
<1>2. Asks(x, Tag(k), Use(n, r), Tag(k))
  BY <1>1, LoadOnce DEF Asks
<1>3. Needs(x, Tag(k), Use(n, r), Tag(k))
  BY <1>1, UseOnce DEF Needs, Tag
<1>4. Link(x, Tag(k), Use(n, r), Tag(k))
  BY <1>2, <1>3 DEF Link, Tag
<1>5. QED
  BY <1>4, PutLinked DEF x, Tag

\* Registers are places.
LEMMA RegisterPlaces == \A r \in Register : Reg(r) \in Location
  BY DEF Register, Scratch, Location, Volatile

\* Each item has its types.
LEMMA ItemTypes ==
    /\ \A n \in Node, r \in Register :
          /\ Use(n, r) \in Items /\ Define(n, r) \in Items /\ Alias(n, r) \in Items
          /\ Keep(n, r) \in Items /\ Load(r, n) \in Items /\ Elided(n) \in Items
    /\ \A c, r \in Register : Copy(c, r) \in Items
    /\ Clobber \in Items
    /\ \A do \in {"ret", "label"} \cup Jumps, l \in Label \cup {NoLabel} : Control(do, l) \in Items
<1>1. \A r \in Register : Reg(r) \in Site
  BY RegisterPlaces DEF Site
<1>2. \A n \in Node : Slot(n) \in Site
  BY DEF Site, Location
<1>3. "rax" \in Register /\ Reg(NoColour) \in Site
  BY DEF Register, Scratch, Site
<1>4. QED
  BY <1>1, <1>2, <1>3 DEF Items, Use, Define, Alias, Keep, Load, Elided, Copy, Clobber, Control, Item

\* What the proofs below take of the state: one of the streams, and its colours.
Colouring ==
    /\ stream \in Streams
    /\ colour \in [Node -> Range(Colours) \cup {NoColour}]
    /\ \A n \in Node : colour[n] # NoColour => n \notin CallNode

\* What is known of an instruction of the stream.
LEMMA StreamFacts ==
    ASSUME Colouring, NEW k \in DOMAIN stream
    PROVE  /\ Len(stream) \in Nat /\ k \in 1 .. Len(stream) /\ k \in Nat
           /\ stream[k] \in Instr
           /\ Reads(stream[k]) \subseteq Node /\ Makes(stream[k]) \subseteq Node
           /\ \A m, n \in Makes(stream[k]) : m = n
           /\ WellFormed(stream) /\ NeverTooEarly(stream, Known[stream])
<1>1. stream \in Seq(Instr)
  BY AllocatorAssumption DEF Colouring, AllocatorAssumption
<1>2. stream[k] \in Instr /\ Len(stream) \in Nat /\ DOMAIN stream = 1 .. Len(stream)
  BY <1>1
<1>3. stream[k].in \in Seq(Node) /\ stream[k].out \in Node \cup {NoNode}
  BY <1>2 DEF Instr
<1>4. WellFormed(stream) /\ NeverTooEarly(stream, Known[stream])
  BY EmitterAssumption DEF Colouring, EmitterAssumption
<1>5. stream[k].op = "alu" => stream[k].out \in Node
  BY <1>4 DEF WellFormed
<1>6. Range(stream[k].in) \subseteq Node
  BY <1>3 DEF Range
<1>7. QED
  BY <1>2, <1>3, <1>4, <1>5, <1>6 DEF Reads, Makes

\* A colour is a register that is not scratch.
LEMMA ColourFacts ==
    ASSUME Colouring, NEW n \in Node
    PROVE  /\ InRegister(n) <=> colour[n] # NoColour
           /\ InRegister(n) => colour[n] \in Register /\ colour[n] \notin Scratch
<1>1. colour[n] \in Range(Colours) \cup {NoColour}
  BY DEF Colouring
<1>2. QED
  BY <1>1, EmitterAssumption DEF EmitterAssumption, Colouring, InRegister, Register

-----------------------------------------------------------------------------
\* A chain without its last item.
LEMMA Shortened ==
    ASSUME NEW c, NEW t, Chain(c, t), Len(c) > 1
    PROVE  /\ Chain(Front(c), Front(t))
           /\ Front(c) # <<>> /\ Len(Front(c)) = Len(c) - 1
           /\ \A p \in 1 .. Len(c) - 1 : Front(c)[p] = c[p] /\ Front(t)[p] = t[p]
<1> DEFINE d == Front(c)
           v == Front(t)
<1>1. /\ c \in Seq(Items) /\ t \in Seq(Tags) /\ Len(t) = Len(c) /\ Len(c) \in Nat
  BY DEF Chain
<1>2. /\ d \in Seq(Items) /\ v \in Seq(Tags) /\ Len(d) = Len(c) - 1 /\ Len(v) = Len(c) - 1
      /\ \A p \in 1 .. Len(c) - 1 : d[p] = c[p] /\ v[p] = t[p]
  BY <1>1 DEF Front
<1>3. d # <<>>
  BY <1>1, <1>2
<1> HIDE DEF d, v
<1>4. \A p \in 1 .. Len(d) : p \in 1 .. Len(c) - 1 /\ p \in 1 .. Len(c)
  BY <1>1, <1>2
<1>5. \A p \in 1 .. Len(d) - 1 : p \in 1 .. Len(c) - 1 /\ p + 1 \in 1 .. Len(c) - 1
  BY <1>1, <1>2
<1>6. c # <<>> /\ 1 \in 1 .. Len(c) - 1
  BY <1>1
<1>7. Chain(d, v)
  <2>1. \A p \in 1 .. Len(d) : Fit(d[p], v[p])
    BY <1>2, <1>4 DEF Chain
  <2>2. \A p \in 1 .. Len(d) - 1 : Link(d[p], v[p], d[p + 1], v[p + 1])
    BY <1>2, <1>5 DEF Chain
  <2>3. Alone(d[1]) /\ v[1].at = 1
    BY <1>2, <1>6 DEF Chain
  <2>4. QED
    BY <1>2, <2>1, <2>2, <2>3 DEF Chain
<1>8. QED
  BY <1>2, <1>3, <1>7 DEF d, v

\* What gives a node its value belongs to the instruction that makes it.
LEMMA GivesFits ==
    ASSUME Colouring, NEW x, NEW t, Fit(x, t), NEW n, NEW r, Gives(x, n, r)
    PROVE  n \in Makes(stream[t.at]) /\ r \in Register /\ ~ t.elide
<1>1. x.do \in {"define", "alias"} /\ ~ t.elide
  BY GivesOnce DEF Fit
<1>2. ~ FitRead(x, stream[t.at], t.elide)
  BY <1>1, UseOnce DEF FitRead
<1>3. ~ FitOther(x, stream[t.at])
  <2>1. \A m, q : Load(m, q).do = "move" /\ Elided(m).do = "elided" /\ Control(m, q).do = m
    BY DEF Load, Elided, Control, Item
  <2>2. Clobber.do = "call"
    BY DEF Clobber, Item
  <2>3. QED
    BY <1>1, <2>1, <2>2 DEF FitOther, Jumps
<1>4. PICK m \in Makes(stream[t.at]), q \in Register :
          x = Define(m, q) \/ x = Alias(m, q) \/ x = Copy(colour[m], q) \/ x = Keep(m, q)
  BY <1>2, <1>3 DEF Fit, FitMake
<1>5. Gives(x, m, q)
  BY <1>1, <1>4, CopyOnce, KeepOnce DEF Gives
<1>6. QED
  BY <1>1, <1>5, GivesOnce

\* The load of what has just been stored is not emitted, and the store is taken back.
LEMMA PutRetold ==
    ASSUME Colouring, NEW c, NEW t, NEW k \in DOMAIN stream, MayFollow(c, t, k), c # <<>>,
           NEW n \in Node, NEW r \in Register, c[Len(c)] = Keep(n, r),
           n \in Reads(stream[k]), ~ InRegister(n)
    PROVE  LET d == Append(Append(Front(c), Use(n, r)), Elided(n))
           IN  /\ \E v : MayFollow(d, v, k) /\ v[Len(d)] = Tag(k)
               /\ d # <<>> /\ d[Len(d)] = Elided(n) /\ Len(d) = Len(c) + 1
               /\ \A p \in 1 .. Len(c) - 1 : d[p] = c[p]
<1>1. /\ Chain(c, t) /\ Len(c) \in Nat /\ Len(c) > 0 /\ k \in Nat
  BY StreamFacts DEF MayFollow, Chain
<1>2. Len(c) # 1
  BY <1>1 DEF Chain, Alone
<1> DEFINE p == Len(c) - 1
           x == c[p]
           b == t[p]
           u == t[Len(c)]
<1>3. p \in 1 .. Len(c) - 1 /\ p + 1 = Len(c) /\ p \in 1 .. Len(c) /\ Len(c) > 1 /\ p \in Nat
  <2>1. \A l \in Nat : l > 0 /\ l # 1 =>
           l - 1 \in 1 .. l - 1 /\ (l - 1) + 1 = l /\ l - 1 \in 1 .. l /\ l > 1 /\ l - 1 \in Nat
    OBVIOUS
  <2>2. QED
    BY <1>1, <1>2, <2>1
<1>4. Link(x, b, Keep(n, r), u) /\ Fit(x, b)
  BY <1>1, <1>3 DEF Chain
<1>5. Gives(x, n, r) /\ u.at = b.at
  BY <1>4 DEF Link, Needs
<1>6. u.at = k \/ (u.at + 1 = k /\ Ends(Keep(n, r), u))
  BY DEF MayFollow
<1>7. Chain(Front(c), Front(t)) /\ Front(c) # <<>> /\ Len(Front(c)) = p
      /\ Front(c)[p] = x /\ Front(t)[p] = b
      /\ \A q \in 1 .. Len(c) - 1 : Front(c)[q] = c[q]
  BY <1>1, <1>3, Shortened
<1> HIDE DEF p, x, b, u
<1>8. b.at + 1 = k => Ends(x, b)
  <2> SUFFICES ASSUME b.at + 1 = k PROVE Ends(x, b)
    OBVIOUS
  <2>1. n \in Makes(stream[b.at]) /\ ~ b.elide /\ b.at \in DOMAIN stream
    BY <1>4, <1>5, GivesFits DEF Fit
  <2>2. u.at # k
    BY <1>1, <1>5, <2>1, StreamFacts
  <2>3. stream[b.at].op \in {"ret", "label"} \cup Jumps => Keep(n, r).do = stream[b.at].op
    BY <1>5, <1>6, <2>2 DEF Ends
  <2>4. \A m \in Makes(stream[b.at]) : m = n
    BY <2>1, StreamFacts
  <2>5. QED
    BY <1>5, <2>1, <2>3, <2>4, KeepOnce DEF Ends, Jumps
<1>9. Fit(Use(n, r), Retold(k)) /\ Fit(Elided(n), Tag(k))
  BY <1>1, ItemTypes, UseOnce DEF Fit, Retold, Tag, Tags, FitRead, FitOther
<1>10. Link(x, b, Use(n, r), Retold(k))
  <2>1. Asks(x, b, Use(n, r), Retold(k))
    <3>1. \A m, q : Gives(x, m, q) => m = n /\ q = r
      BY <1>5, GivesOnce
    <3>2. \A m, q : x # Use(m, q)
      BY <1>5, GivesOnce
    <3>3. \A m, q : x = Alias(m, q) => Gives(x, m, q)
      BY DEF Gives
    <3>4. QED
      BY <3>1, <3>2, <3>3 DEF Asks, Retold
  <2>2. Needs(x, b, Use(n, r), Retold(k))
    BY <1>5, UseOnce DEF Needs, Retold
  <2>3. QED
    BY <1>5, <1>6, <1>8, <2>1, <2>2 DEF Link, Retold
<1> DEFINE c1 == Append(Front(c), Use(n, r))
           t1 == Append(Front(t), Retold(k))
<1>11. MayFollow(c1, t1, k) /\ Longer(Front(c), Front(t), c1, t1, Use(n, r), Retold(k))
  BY <1>1, <1>7, <1>9, <1>10, PutLinked DEF Retold
<1>12. Link(Use(n, r), Retold(k), Elided(n), Tag(k))
  <2>1. Asks(Use(n, r), Retold(k), Elided(n), Tag(k))
    BY UseOnce DEF Asks
  <2>2. Needs(Use(n, r), Retold(k), Elided(n), Tag(k))
    BY OtherItems DEF Needs, Alone, Elided, Item
  <2>3. QED
    BY <2>1, <2>2 DEF Link, Retold, Tag
<1> HIDE DEF c1, t1
<1> DEFINE d == Append(c1, Elided(n))
           v == Append(t1, Tag(k))
<1>13. MayFollow(d, v, k) /\ Longer(c1, t1, d, v, Elided(n), Tag(k))
  <2>1. Chain(c1, t1) /\ c1 # <<>> /\ c1[Len(c1)] = Use(n, r) /\ t1[Len(c1)] = Retold(k)
    BY <1>11 DEF MayFollow, Longer
  <2>2. Tag(k).at = k /\ k \in Nat
    BY <1>1 DEF Tag
  <2>3. QED
    BY <1>9, <1>12, <2>1, <2>2, PutLinked
<1> HIDE DEF d, v
<1>14. /\ d # <<>> /\ d[Len(d)] = Elided(n) /\ v[Len(d)] = Tag(k) /\ Len(d) = Len(c) + 1
       /\ \A q \in 1 .. Len(c) - 1 : d[q] = c[q]
  BY <1>1, <1>3, <1>7, <1>11, <1>13 DEF Longer
<1>15. QED
  BY <1>13, <1>14 DEF d, c1

\* The labels before instruction k are in the code.
LabelsOut(c, k) ==
    \A i \in DOMAIN stream :
        i < k /\ stream[i].op = "label" =>
            \E p \in 1 .. Len(c) : c[p] = Control("label", stream[i].label)

\* The code c is right as far as it goes, and instruction k may go on.
Base(c, k) == LabelsOut(c, k) /\ \E t : MayFollow(c, t, k) /\ Settled0(c, t)

\* The same, but the last item is x, of instruction k, and may ask for more.
Tip(c, k, x) ==
    /\ LabelsOut(c, k)
    /\ c # <<>> /\ c[Len(c)] = x
    /\ \E t : MayFollow(c, t, k) /\ t[Len(c)] = Tag(k)

\* stored has the last item, or none that counts.
StoreKnown(e) ==
    \/ e.stored = NoStore
    \/ /\ e.stored.at \in 1 .. Len(e.code)
       /\ e.stored.at = Len(e.code) =>
             e.code[Len(e.code)] = Keep(e.stored.slot, e.stored.reg)

\* What is right is a sequence of items.
LEMMA BaseIsCode ==
    ASSUME NEW c, NEW k, Base(c, k) PROVE c \in Seq(Items) /\ Len(c) \in Nat
  BY DEF Base, MayFollow, Chain

\* The same of code with a last item.
LEMMA TipIsCode ==
    ASSUME NEW c, NEW k, NEW x, Tip(c, k, x) PROVE c \in Seq(Items) /\ Len(c) \in Nat /\ Len(c) > 0
<1>1. c \in Seq(Items)
  BY DEF Tip, MayFollow, Chain
<1>2. QED
  BY <1>1 DEF Tip

\* A longer code that keeps the labels has them.
LEMMA LabelsStay ==
    ASSUME NEW c, NEW d, NEW k, LabelsOut(c, k), Len(c) \in Nat, Len(d) \in Nat, Len(d) > Len(c),
           \A p \in 1 .. Len(c) : c[p].do = "label" => d[p] = c[p]
    PROVE  LabelsOut(d, k)
<1>1. \A p \in 1 .. Len(c) : p \in 1 .. Len(d)
  OBVIOUS
<1>2. \A l : Control("label", l).do = "label"
  BY DEF Control, Item
<1>3. QED
  BY <1>1, <1>2 DEF LabelsOut

\* The item that has been put is the last.
LEMMA OpenTip ==
    ASSUME NEW c, NEW t, NEW k, NEW y, LabelsOut(c, k), Len(c) \in Nat,
           MayFollow(Append(c, y), Append(t, Tag(k)), k),
           Longer(c, t, Append(c, y), Append(t, Tag(k)), y, Tag(k))
    PROVE  Tip(Append(c, y), k, y) /\ Len(Append(c, y)) = Len(c) + 1
<1> DEFINE d == Append(c, y)
           v == Append(t, Tag(k))
<1>1. Longer(c, t, d, v, y, Tag(k)) /\ MayFollow(d, v, k)
  OBVIOUS
<1> HIDE DEF d, v
<1>2. LabelsOut(d, k)
  <2>1. Len(d) \in Nat /\ Len(d) > Len(c) /\ \A p \in 1 .. Len(c) : d[p] = c[p]
    BY <1>1 DEF Longer
  <2>2. QED
    BY <2>1, LabelsStay
<1>3. Tip(d, k, y) /\ Len(d) = Len(c) + 1
  BY <1>1, <1>2 DEF Tip, Longer
<1>4. QED
  BY <1>3 DEF d

\* Right code with one more item: one that asks for nothing before it,
LEMMA AddPlain ==
    ASSUME Colouring, NEW c, NEW k \in DOMAIN stream, Base(c, k), NEW y, Alone(y), Fit(y, Tag(k))
    PROVE  Tip(Append(c, y), k, y) /\ Len(Append(c, y)) = Len(c) + 1
<1>1. PICK t : MayFollow(c, t, k) /\ Settled0(c, t)
  BY DEF Base
<1>2. k \in Nat /\ LabelsOut(c, k) /\ Len(c) \in Nat
  BY StreamFacts, BaseIsCode DEF Base
<1>3. QED
  BY <1>1, <1>2, PutPlain, OpenTip

\* the store of a value that was just given,
LEMMA AddKeep ==
    ASSUME Colouring, NEW c, NEW k \in DOMAIN stream, NEW x, Tip(c, k, x), NEW n, NEW r,
           Gives(x, n, r), ~ InRegister(n), Fit(Keep(n, r), Tag(k))
    PROVE  /\ Tip(Append(c, Keep(n, r)), k, Keep(n, r))
           /\ Len(Append(c, Keep(n, r))) = Len(c) + 1
<1>1. PICK t : MayFollow(c, t, k) /\ t[Len(c)] = Tag(k)
  BY DEF Tip
<1>2. /\ k \in Nat /\ LabelsOut(c, k) /\ Len(c) \in Nat /\ c # <<>> /\ c[Len(c)] = x
      /\ Chain(c, t)
  BY <1>1, StreamFacts, TipIsCode DEF Tip, MayFollow
<1>3. QED
  BY <1>1, <1>2, PutKeep, OpenTip

\* the copy of a value into its register,
LEMMA AddCopy ==
    ASSUME Colouring, NEW c, NEW k \in DOMAIN stream, NEW n \in Node, NEW r,
           Tip(c, k, Alias(n, r)), InRegister(n), Fit(Copy(colour[n], r), Tag(k))
    PROVE  /\ Tip(Append(c, Copy(colour[n], r)), k, Copy(colour[n], r))
           /\ Len(Append(c, Copy(colour[n], r))) = Len(c) + 1
<1>1. PICK t : MayFollow(c, t, k) /\ t[Len(c)] = Tag(k)
  BY DEF Tip
<1>2. /\ k \in Nat /\ LabelsOut(c, k) /\ Len(c) \in Nat /\ c # <<>> /\ c[Len(c)] = Alias(n, r)
      /\ Chain(c, t)
  BY <1>1, StreamFacts, TipIsCode DEF Tip, MayFollow
<1>3. QED
  BY <1>1, <1>2, PutCopy, OpenTip

\* the read of a value that was just loaded,
LEMMA AddUse ==
    ASSUME Colouring, NEW c, NEW k \in DOMAIN stream, NEW n, NEW r,
           Tip(c, k, Load(r, n)), ~ InRegister(n), Fit(Use(n, r), Tag(k))
    PROVE  /\ Tip(Append(c, Use(n, r)), k, Use(n, r))
           /\ Len(Append(c, Use(n, r))) = Len(c) + 1
<1>1. PICK t : MayFollow(c, t, k) /\ t[Len(c)] = Tag(k)
  BY DEF Tip
<1>2. /\ k \in Nat /\ LabelsOut(c, k) /\ Len(c) \in Nat /\ c # <<>> /\ c[Len(c)] = Load(r, n)
      /\ Chain(c, t)
  BY <1>1, StreamFacts, TipIsCode DEF Tip, MayFollow
<1>3. QED
  BY <1>1, <1>2, PutUse, OpenTip

\* and the read of one that was just stored, which takes the store back.
LEMMA AddRetold ==
    ASSUME Colouring, NEW c, NEW k \in DOMAIN stream, Base(c, k), c # <<>>,
           NEW n \in Node, NEW r \in Register, c[Len(c)] = Keep(n, r),
           n \in Reads(stream[k]), ~ InRegister(n)
    PROVE  LET d == Append(Append(Front(c), Use(n, r)), Elided(n))
           IN  Tip(d, k, Elided(n)) /\ Len(d) = Len(c) + 1
<1>1. PICK t : MayFollow(c, t, k)
  BY DEF Base
<1> DEFINE d == Append(Append(Front(c), Use(n, r)), Elided(n))
<1>2. /\ \E v : MayFollow(d, v, k) /\ v[Len(d)] = Tag(k)
      /\ d # <<>> /\ d[Len(d)] = Elided(n) /\ Len(d) = Len(c) + 1
      /\ \A p \in 1 .. Len(c) - 1 : d[p] = c[p]
  BY <1>1, PutRetold
<1> HIDE DEF d
<1>3. LabelsOut(c, k) /\ Len(c) \in Nat
  BY BaseIsCode DEF Base
<1>4. \A p \in 1 .. Len(c) : c[p].do = "label" => d[p] = c[p]
  <2>1. c[Len(c)].do = "move"
    BY KeepOnce
  <2>2. \A p \in 1 .. Len(c) : p # Len(c) => p \in 1 .. Len(c) - 1
    BY <1>3
  <2>3. QED
    BY <1>2, <2>1, <2>2
<1>5. LabelsOut(d, k)
  BY <1>2, <1>3, <1>4, LabelsStay
<1>6. Tip(d, k, Elided(n))
  BY <1>2, <1>5 DEF Tip
<1>7. QED
  BY <1>2, <1>6 DEF d

\* An item that asks for nothing lets any other follow.
LEMMA TipIsBase ==
    ASSUME NEW c, NEW k, NEW x, Tip(c, k, x), Settles(x, Tag(k))
    PROVE  Base(c, k)
  BY DEF Tip, Base, Settled0

\* The last item of an instruction.
LEMMA TipEnds ==
    ASSUME Colouring, NEW c, NEW k \in DOMAIN stream, NEW x, Tip(c, k, x), Settles(x, Tag(k)),
           Ends(x, Tag(k)),
           stream[k].op = "label" => x = Control("label", stream[k].label)
    PROVE  Base(c, k + 1)
<1>1. PICK t : MayFollow(c, t, k) /\ t[Len(c)] = Tag(k)
  BY DEF Tip
<1>2. c # <<>> /\ c[Len(c)] = x /\ LabelsOut(c, k) /\ k \in Nat /\ Len(c) \in Nat /\ Len(c) > 0
  BY StreamFacts, TipIsCode DEF Tip
<1>3. MayFollow(c, t, k + 1) /\ Settled0(c, t)
  BY <1>1, <1>2 DEF MayFollow, Settled0, Tag
<1>4. LabelsOut(c, k + 1)
  <2>1. Len(c) \in 1 .. Len(c) /\ DOMAIN stream \subseteq Nat
    BY <1>2, StreamFacts
  <2>2. \A i \in DOMAIN stream : i < k + 1 => i < k \/ i = k
    BY <1>2, <2>1
  <2>3. QED
    BY <1>2, <2>1, <2>2 DEF LabelsOut
<1>5. QED
  BY <1>3, <1>4 DEF Base

\* One item after another.
LEMMA AfterCode ==
    ASSUME NEW c \in Seq(Items)
    PROVE  /\ \A a \in Items : c \o <<a>> = Append(c, a)
           /\ \A a, b \in Items : c \o <<a, b>> = Append(Append(c, a), b)
  OBVIOUS

\* Three, and four.
LEMMA AfterCode3 ==
    ASSUME NEW c \in Seq(Items), NEW a \in Items, NEW b \in Items, NEW d \in Items
    PROVE  /\ c \o <<a, b, d>> = Append(Append(Append(c, a), b), d)
           /\ Append(c, a) \in Seq(Items)
  OBVIOUS

\* Four.
LEMMA AfterCode4 ==
    ASSUME NEW c \in Seq(Items), NEW a \in Items, NEW b \in Items, NEW d \in Items, NEW e \in Items
    PROVE  c \o <<a, b, d, e>> = Append(Append(Append(Append(c, a), b), d), e)
  OBVIOUS

\* What each item needs to fit its instruction.
LEMMA Fits ==
    ASSUME Colouring, NEW k \in DOMAIN stream
    PROVE  /\ \A n \in Reads(stream[k]), r \in Register :
                 (InRegister(n) => r = colour[n]) => Fit(Use(n, r), Tag(k))
           /\ \A n \in Makes(stream[k]), r \in Register :
                 /\ (IF InRegister(n) THEN r = colour[n] ELSE r \in Scratch) => Fit(Define(n, r), Tag(k))
                 /\ Fit(Alias(n, r), Tag(k))
                 /\ InRegister(n) => Fit(Copy(colour[n], r), Tag(k))
                 /\ ~ InRegister(n) => Fit(Keep(n, r), Tag(k))
           /\ \A n \in Node, r \in Scratch : Fit(Load(r, n), Tag(k))
           /\ Fit(Clobber, Tag(k))
           /\ stream[k].op = "ret" => Fit(Control("ret", NoLabel), Tag(k))
           /\ stream[k].op \in {"label"} \cup Jumps =>
                 Fit(Control(stream[k].op, stream[k].label), Tag(k))
<1>1. /\ Tag(k) \in Tags /\ Tag(k).at = k /\ Tag(k).elide = FALSE /\ k \in DOMAIN stream
      /\ Reads(stream[k]) \subseteq Node /\ Makes(stream[k]) \subseteq Node
      /\ stream[k].label \in Label \cup {NoLabel} /\ Scratch \subseteq Register
  BY StreamFacts DEF Tag, Tags, Instr, Register
<1>2. \A x \in Items : \/ FitRead(x, stream[k], FALSE)
                       \/ FitMake(x, stream[k])
                       \/ FitOther(x, stream[k])
                       => Fit(x, Tag(k))
  <2> DEFINE u == Tag(k)
  <2>1. u \in Tags /\ u.at = k /\ u.elide = FALSE /\ k \in DOMAIN stream
    BY <1>1
  <2> HIDE DEF u
  <2> SUFFICES ASSUME NEW x \in Items,
                      FitRead(x, stream[k], FALSE) \/ FitMake(x, stream[k]) \/ FitOther(x, stream[k])
               PROVE  Fit(x, u)
    BY DEF u
  <2>2. FitRead(x, stream[k], FALSE) = FitRead(x, stream[u.at], u.elide)
    BY <2>1
  <2>3. QED
    BY <2>1, <2>2 DEF Fit
<1>3. \A n \in Reads(stream[k]), r \in Register :
          (InRegister(n) => r = colour[n]) => Fit(Use(n, r), Tag(k))
  BY <1>1, <1>2, ItemTypes DEF FitRead
<1>4. \A n \in Makes(stream[k]) : InRegister(n) => colour[n] \in Register
  BY <1>1, ColourFacts
<1>5. \A n \in Makes(stream[k]), r \in Register :
          /\ (IF InRegister(n) THEN r = colour[n] ELSE r \in Scratch) => Fit(Define(n, r), Tag(k))
          /\ Fit(Alias(n, r), Tag(k))
          /\ InRegister(n) => Fit(Copy(colour[n], r), Tag(k))
          /\ ~ InRegister(n) => Fit(Keep(n, r), Tag(k))
  BY <1>1, <1>2, <1>4, ItemTypes DEF FitMake
<1>6. \A n \in Node, r \in Scratch : Fit(Load(r, n), Tag(k))
  BY <1>1, <1>2, ItemTypes DEF FitOther
<1>7. Fit(Clobber, Tag(k))
  BY <1>2, ItemTypes DEF FitOther
<1>8. stream[k].op = "ret" => Fit(Control("ret", NoLabel), Tag(k))
  BY <1>2, ItemTypes DEF FitOther
<1>9. stream[k].op \in {"label"} \cup Jumps => Fit(Control(stream[k].op, stream[k].label), Tag(k))
  BY <1>1, <1>2, ItemTypes DEF FitOther
<1>10. QED
  BY <1>3, <1>5, <1>6, <1>7, <1>8, <1>9

\* Which items ask for what follows.
LEMMA Quiet ==
    ASSUME NEW k, NEW x, x.do \notin {"define", "alias"} PROVE Settles(x, Tag(k))
<1>1. \A n, r : ~ Gives(x, n, r) /\ x # Alias(n, r)
  BY GivesOnce DEF Gives
<1>2. QED
  BY <1>1 DEF Settles, Tag

\* A new value in its own register asks for nothing.
LEMMA QuietDefine ==
    ASSUME NEW k, NEW n, NEW r, InRegister(n) PROVE Settles(Define(n, r), Tag(k))
<1>1. Gives(Define(n, r), n, r) /\ Define(n, r).do = "define" /\ \A m, q : Alias(m, q).do = "alias"
  BY DEF Gives, Define, Alias, Item
<1>2. \A m, q : Gives(Define(n, r), m, q) => m = n
  BY <1>1, GivesOnce
<1>3. QED
  BY <1>1, <1>2 DEF Settles, Tag

\* resolveToReg
LEMMA Resolve1 ==
    ASSUME Colouring, NEW k \in DOMAIN stream, NEW e, Base(e.code, k), StoreKnown(e),
           NEW n \in Reads(stream[k]), NEW tmp \in Scratch
    PROVE  LET d == ResolveToReg(e, n, tmp)
           IN  /\ \E x : Tip(d.code, k, x) /\ x.do \in {"use", "elided"}
               /\ StoreKnown(d)
<1> DEFINE c == e.code
           d == ResolveToReg(e, n, tmp)
<1>1. n \in Node /\ tmp \in Register /\ c \in Seq(Items) /\ Len(c) \in Nat
  BY StreamFacts, BaseIsCode DEF Register
<1>2. CASE InRegister(n)
  <2>1. d = [code |-> c \o <<Use(n, colour[n])>>, stored |-> e.stored]
    BY <1>2 DEF ResolveToReg, Emitted
  <2>2. colour[n] \in Register
    BY <1>1, <1>2, ColourFacts
  <2>3. c \o <<Use(n, colour[n])>> = Append(c, Use(n, colour[n]))
    BY <1>1, <2>2, ItemTypes, AfterCode
  <2>4. Fit(Use(n, colour[n]), Tag(k))
    BY <2>2, Fits
  <2>5. Alone(Use(n, colour[n]))
    BY <1>2, UseOnce DEF Alone
  <2> HIDE DEF c
  <2>6. /\ Tip(Append(c, Use(n, colour[n])), k, Use(n, colour[n]))
        /\ Len(Append(c, Use(n, colour[n]))) = Len(c) + 1
    BY <2>4, <2>5, AddPlain DEF c
  <2>7. d.code = Append(c, Use(n, colour[n])) /\ d.stored = e.stored
    BY <2>1, <2>3
  <2> HIDE DEF d
  <2>8. StoreKnown(d)
    BY <1>1, <2>6, <2>7 DEF StoreKnown, c
  <2>9. QED
    BY <2>6, <2>7, <2>8, UseOnce DEF d
<1>3. CASE ~ InRegister(n) /\ JustStored(e, n, tmp)
  <2>1. d = [code |-> Front(c) \o <<Use(n, tmp), Elided(n)>>, stored |-> NoStore]
    BY <1>3 DEF ResolveToReg
  <2>2. e.stored = [at |-> Len(c), slot |-> n, reg |-> tmp]
    BY <1>3 DEF JustStored
  <2>3. e.stored # NoStore
    BY <1>1, <2>2, AllocatorAssumption DEF NoStore, AllocatorAssumption
  <2>4. Len(c) \in 1 .. Len(c) /\ c[Len(c)] = Keep(n, tmp)
    BY <2>2, <2>3 DEF StoreKnown
  <2>5. c # <<>> /\ Front(c) \in Seq(Items)
    BY <1>1, <2>4 DEF Front
  <2>6. Front(c) \o <<Use(n, tmp), Elided(n)>> = Append(Append(Front(c), Use(n, tmp)), Elided(n))
    BY <1>1, <2>5, ItemTypes, AfterCode
  <2> HIDE DEF c
  <2>7. Tip(Append(Append(Front(c), Use(n, tmp)), Elided(n)), k, Elided(n))
    BY <1>1, <1>3, <2>4, <2>5, AddRetold DEF c
  <2>8. d.code = Append(Append(Front(c), Use(n, tmp)), Elided(n)) /\ d.stored = NoStore
    BY <2>1, <2>6
  <2>9. Elided(n).do = "elided"
    BY DEF Elided, Item
  <2> HIDE DEF d
  <2>10. QED
    BY <2>7, <2>8, <2>9 DEF StoreKnown, d
<1>4. CASE ~ InRegister(n) /\ ~ JustStored(e, n, tmp)
  <2>1. d = [code |-> c \o <<Load(tmp, n), Use(n, tmp)>>, stored |-> NoStore]
    BY <1>4 DEF ResolveToReg
  <2>2. c \o <<Load(tmp, n), Use(n, tmp)>> = Append(Append(c, Load(tmp, n)), Use(n, tmp))
    BY <1>1, ItemTypes, AfterCode
  <2>3. Fit(Load(tmp, n), Tag(k)) /\ Fit(Use(n, tmp), Tag(k))
    BY <1>1, <1>4, Fits
  <2>4. Alone(Load(tmp, n))
    BY LoadOnce DEF Alone
  <2> HIDE DEF c
  <2>5. Tip(Append(c, Load(tmp, n)), k, Load(tmp, n))
    BY <2>3, <2>4, AddPlain DEF c
  <2>6. Tip(Append(Append(c, Load(tmp, n)), Use(n, tmp)), k, Use(n, tmp))
    BY <1>4, <2>3, <2>5, AddUse
  <2>7. d.code = Append(Append(c, Load(tmp, n)), Use(n, tmp)) /\ d.stored = NoStore
    BY <2>1, <2>2
  <2> HIDE DEF d
  <2>8. QED
    BY <2>6, <2>7, UseOnce DEF StoreKnown, d
<1>5. QED
  BY <1>2, <1>3, <1>4

Emits(d, k) == Base(d.code, k + 1) /\ StoreKnown(d)

\* The value an instruction makes is where it belongs.
LEMMA MakeEnds ==
    ASSUME Colouring, NEW k \in DOMAIN stream, NEW c, NEW x, Tip(c, k, x),
           NEW n, n = stream[k].out, stream[k].op \in {"set", "mov", "alu", "call"},
           NEW r \in Register,
           IF InRegister(n) THEN x = Define(n, r) \/ x = Copy(colour[n], r) ELSE x = Keep(n, r)
    PROVE  Base(c, k + 1)
<1>1. Settles(x, Tag(k))
  <2>1. CASE InRegister(n) /\ x = Define(n, r)
    BY <2>1, QuietDefine
  <2>2. CASE x = Copy(colour[n], r)
    BY <2>2, CopyOnce, Quiet
  <2>3. CASE x = Keep(n, r)
    BY <2>3, KeepOnce, Quiet
  <2>4. QED
    BY <2>1, <2>2, <2>3
<1>2. Ends(x, Tag(k))
  <2>1. \A m \in Makes(stream[k]) : m = n
    BY DEF Makes
  <2>2. IF InRegister(n) THEN \E q \in Register : x = Define(n, q) \/ x = Copy(colour[n], q)
        ELSE \E q \in Register : x = Keep(n, q) \/ Gives(x, n, q)
    OBVIOUS
  <2>3. stream[k].op \notin {"ret", "label"} \cup Jumps
    BY DEF Jumps
  <2>4. QED
    BY <2>1, <2>2, <2>3 DEF Ends, Tag
<1>3. QED
  BY <1>1, <1>2, TipEnds

\* Both ways to end: the value goes to its slot, or is in its register.
LEMMA StoreEnds ==
    ASSUME Colouring, NEW k \in DOMAIN stream, NEW e, NEW x, Tip(e.code, k, x),
           NEW n, n = stream[k].out, stream[k].op \in {"set", "mov", "alu", "call"},
           NEW r \in Register, Gives(x, n, r), ~ InRegister(n), n \in Node
    PROVE  /\ Emits(Store(e, n, r), k)
           /\ Tip(Append(e.code, Keep(n, r)), k, Keep(n, r))
           /\ Base(Append(e.code, Keep(n, r)), k + 1)
<1> DEFINE d == Append(e.code, Keep(n, r))
<1>1. n \in Makes(stream[k])
  BY AllocatorAssumption DEF AllocatorAssumption, Makes
<1>2. Fit(Keep(n, r), Tag(k))
  BY <1>1, Fits
<1>3. Tip(d, k, Keep(n, r)) /\ Len(d) = Len(e.code) + 1 /\ Len(d) \in Nat /\ Len(d) > 0
  BY <1>2, AddKeep, TipIsCode
<1>4. Base(d, k + 1)
  BY <1>3, MakeEnds
<1>5. d[Len(d)] = Keep(n, r)
  BY <1>3 DEF Tip
<1>6. Store(e, n, r) = [code |-> d, stored |-> [at |-> Len(d), slot |-> n, reg |-> r]]
  BY <1>3 DEF Store
<1> HIDE DEF d
<1>7. StoreKnown(Store(e, n, r)) /\ Store(e, n, r).code = d
  BY <1>3, <1>5, <1>6 DEF StoreKnown
<1>8. QED
  BY <1>3, <1>4, <1>7 DEF Emits, d

\* An instruction that makes a value has a node for it.
LEMMA OutIsNode ==
    ASSUME Colouring, NEW k \in DOMAIN stream, stream[k].op \in {"set", "mov", "alu", "call"}
    PROVE  /\ stream[k].out \in Node /\ stream[k].out \in Makes(stream[k])
           /\ InRegister(stream[k].out) =>
                 colour[stream[k].out] \in Register /\ colour[stream[k].out] \notin Scratch
<1>1. stream[k].out \in Node
  BY StreamFacts DEF WellFormed
<1>2. QED
  BY <1>1, ColourFacts, AllocatorAssumption DEF AllocatorAssumption, Makes

\* An item longer, the last store is no longer the last item.
LEMMA StoreForgotten ==
    ASSUME NEW e, NEW d, StoreKnown(e), d.stored = e.stored, Len(e.code) \in Nat,
           Len(d.code) \in Nat, Len(d.code) > Len(e.code)
    PROVE  StoreKnown(d)
  BY DEF StoreKnown

\* emitMovImm, emitSetcc, emitLea: the code stays right.
LEMMA SetStep ==
    ASSUME Colouring, NEW k \in DOMAIN stream, NEW e, Base(e.code, k), StoreKnown(e),
           stream[k].op = "set"
    PROVE  Emits(EmitSet(e, stream[k].out), k)
<1> DEFINE n == stream[k].out
           c == e.code
<1>1. n \in Node /\ n \in Makes(stream[k]) /\ (InRegister(n) => colour[n] \in Register)
      /\ c \in Seq(Items) /\ Len(c) \in Nat /\ "r10" \in Scratch /\ "r10" \in Register
  BY OutIsNode, BaseIsCode DEF Scratch, Register
<1>2. CASE InRegister(n)
  <2> DEFINE y == Define(n, colour[n])
             d == Emitted(<<y>>, e)
  <2>1. EmitSet(e, n) = d /\ d.code = c \o <<y>> /\ d.stored = e.stored
    BY <1>2 DEF EmitSet, Emitted
  <2>2. y \in Items /\ c \o <<y>> = Append(c, y)
    BY <1>1, <1>2, ItemTypes, AfterCode
  <2>3. Fit(y, Tag(k)) /\ Alone(y)
    BY <1>1, <1>2, Fits, OtherItems DEF Define, Item
  <2>4. Tip(Append(c, y), k, y) /\ Len(Append(c, y)) = Len(c) + 1
    BY <2>3, AddPlain
  <2>5. Base(Append(c, y), k + 1)
    BY <1>1, <1>2, <2>4, MakeEnds
  <2>6. d.code = Append(c, y) /\ Len(d.code) > Len(c) /\ Len(d.code) \in Nat
    BY <1>1, <2>1, <2>2, <2>4
  <2> HIDE DEF d
  <2>7. StoreKnown(d)
    BY <1>1, <2>1, <2>6, StoreForgotten
  <2>8. QED
    BY <2>1, <2>5, <2>6, <2>7 DEF Emits
<1>3. CASE ~ InRegister(n)
  <2> DEFINE y == Define(n, "r10")
             d == Emitted(<<y>>, e)
  <2>1. EmitSet(e, n) = Store(d, n, "r10") /\ d.code = c \o <<y>>
    BY <1>3 DEF EmitSet, Emitted
  <2>2. y \in Items /\ c \o <<y>> = Append(c, y)
    BY <1>1, ItemTypes, AfterCode
  <2>3. Fit(y, Tag(k)) /\ Alone(y)
    BY <1>1, <1>3, Fits, OtherItems DEF Define, Item
  <2>4. Tip(Append(c, y), k, y)
    BY <2>3, AddPlain
  <2>5. Tip(d.code, k, y)
    BY <2>1, <2>2, <2>4
  <2>6. Gives(y, n, "r10")
    BY DEF Gives
  <2> HIDE DEF d, y
  <2>7. QED
    BY <1>1, <1>3, <2>1, <2>5, <2>6, StoreEnds
<1>4. QED
  BY <1>2, <1>3

\* A read, and then code that may go on.
LEMMA Resolve2 ==
    ASSUME Colouring, NEW k \in DOMAIN stream, NEW e, Base(e.code, k), StoreKnown(e),
           NEW n \in Reads(stream[k]), NEW tmp \in Scratch
    PROVE  LET d == ResolveToReg(e, n, tmp)
           IN  Base(d.code, k) /\ d.code # <<>> /\ StoreKnown(d)
<1> DEFINE d == ResolveToReg(e, n, tmp)
<1>1. PICK x : Tip(d.code, k, x) /\ x.do \in {"use", "elided"}
  BY Resolve1
<1>2. StoreKnown(d)
  BY Resolve1
<1> HIDE DEF d
<1>3. Base(d.code, k)
  BY <1>1, Quiet, TipIsBase
<1>4. QED
  BY <1>1, <1>2, <1>3 DEF d, Tip

\* emitMovRR: the code stays right.
LEMMA MovStep ==
    ASSUME Colouring, NEW k \in DOMAIN stream, NEW e, Base(e.code, k), StoreKnown(e),
           stream[k].op = "mov"
    PROVE  Emits(EmitMovRR(e, stream[k].out, stream[k].in[1]), k)
<1> DEFINE n == stream[k].out
           src == stream[k].in[1]
           got == ResolveToReg(e, src, "r10")
           home == Home(src, "r10")
           y == Alias(n, home)
           read == Emitted(<<y>>, got)
<1>1. n \in Node /\ n \in Makes(stream[k]) /\ (InRegister(n) => colour[n] \in Register)
      /\ "r10" \in Scratch /\ "r10" \in Register
  BY OutIsNode DEF Scratch, Register
<1>2. src \in Reads(stream[k]) /\ src \in Node
  <2>1. stream[k].in \in Seq(Node) /\ Len(stream[k].in) = 1
    BY StreamFacts DEF WellFormed, Instr
  <2>2. 1 \in DOMAIN stream[k].in
    BY <2>1
  <2>3. QED
    BY <2>2, StreamFacts DEF Reads, Range
<1>3. home \in Register
  BY <1>1, <1>2, ColourFacts DEF Home
<1>4. Base(got.code, k) /\ got.code \in Seq(Items) /\ Len(got.code) \in Nat
  BY <1>1, <1>2, Resolve2, BaseIsCode
<1>5. read.code = got.code \o <<y>>
  BY DEF Emitted
<1> HIDE DEF got, home
<1>6. y \in Items /\ got.code \o <<y>> = Append(got.code, y)
  BY <1>1, <1>3, <1>4, ItemTypes, AfterCode
<1>7. Fit(y, Tag(k)) /\ Alone(y) /\ Gives(y, n, home)
  BY <1>1, <1>3, Fits, OtherItems DEF Alias, Item, Gives
<1>8. Tip(Append(got.code, y), k, y)
  BY <1>4, <1>7, AddPlain
<1>9. Tip(read.code, k, y) /\ read.code \in Seq(Items)
  BY <1>5, <1>6, <1>8, TipIsCode
<1>10. CASE InRegister(n)
  <2> DEFINE z == Copy(colour[n], home)
             d == [Emitted(<<z>>, read) EXCEPT !.stored = NoStore]
  <2>1. EmitMovRR(e, n, src) = d
    BY <1>10 DEF EmitMovRR, got, home
  <2>2. d.code = read.code \o <<z>> /\ d.stored = NoStore
    BY DEF Emitted
  <2> HIDE DEF read, d
  <2>3. z \in Items /\ read.code \o <<z>> = Append(read.code, z)
    BY <1>1, <1>3, <1>9, <1>10, ItemTypes, AfterCode
  <2>4. Fit(z, Tag(k))
    BY <1>1, <1>3, <1>10, Fits
  <2>5. Tip(Append(read.code, z), k, z)
    BY <1>1, <1>9, <1>10, <2>4, AddCopy
  <2>6. Base(Append(read.code, z), k + 1)
    BY <1>1, <1>3, <1>10, <2>5, MakeEnds
  <2>7. QED
    BY <2>1, <2>2, <2>3, <2>6 DEF Emits, StoreKnown
<1>11. CASE ~ InRegister(n)
  <2>1. EmitMovRR(e, n, src) = Store(read, n, home)
    BY <1>11 DEF EmitMovRR, got, home
  <2> HIDE DEF read, y
  <2>2. QED
    BY <1>1, <1>3, <1>7, <1>9, <1>11, <2>1, StoreEnds
<1>12. QED
  BY <1>10, <1>11

\* The first operand is read.
LEMMA OperandRead ==
    ASSUME Colouring, NEW k \in DOMAIN stream, NEW i \in DOMAIN stream[k].in
    PROVE  stream[k].in[i] \in Reads(stream[k]) /\ stream[k].in[i] \in Node
<1>1. stream[k].in \in Seq(Node)
  BY StreamFacts DEF Instr
<1>2. QED
  BY <1>1 DEF Reads, Range

\* The end of an operation on a value in its register.
LEMMA AluInRegister ==
    ASSUME Colouring, NEW k \in DOMAIN stream, NEW e, Base(e.code, k), StoreKnown(e),
           stream[k].op = "alu", NEW n, n = stream[k].out, InRegister(n)
    PROVE  Emits(Emitted(<<Use(n, colour[n]), Define(n, colour[n])>>, e), k)
<1> DEFINE y == Use(n, colour[n])
           z == Define(n, colour[n])
           c == e.code
           d == Emitted(<<y, z>>, e)
<1>1. n \in Node /\ n \in Makes(stream[k]) /\ colour[n] \in Register /\ n \in Reads(stream[k])
      /\ c \in Seq(Items) /\ Len(c) \in Nat
  BY OutIsNode, BaseIsCode DEF Reads
<1>2. d.code = c \o <<y, z>> /\ d.stored = e.stored
  BY DEF Emitted
<1>3. Fit(y, Tag(k)) /\ Alone(y) /\ Settles(y, Tag(k))
  BY <1>1, Fits, UseOnce, Quiet DEF Alone
<1>4. Fit(z, Tag(k)) /\ Alone(z)
  BY <1>1, Fits, OtherItems DEF Define, Item
<1>5. y \in Items /\ z \in Items
  BY <1>1, ItemTypes
<1>6. c \o <<y, z>> = Append(Append(c, y), z)
  BY <1>1, <1>5, AfterCode
<1> HIDE DEF d, c, y
<1>7. Tip(Append(c, y), k, y) /\ Len(Append(c, y)) = Len(c) + 1
  BY <1>3, AddPlain DEF c
<1>8. Base(Append(c, y), k)
  BY <1>3, <1>7, TipIsBase
<1>9. Tip(Append(Append(c, y), z), k, z) /\ Len(Append(Append(c, y), z)) = Len(Append(c, y)) + 1
  <2> HIDE DEF z
  <2>1. QED
    BY <1>4, <1>8, AddPlain
<1>10. Base(Append(Append(c, y), z), k + 1)
  BY <1>1, <1>9, MakeEnds
<1>11. StoreKnown(d)
  BY <1>1, <1>2, <1>6, <1>7, <1>9, StoreForgotten DEF c
<1>12. QED
  BY <1>2, <1>6, <1>10, <1>11 DEF Emits, d, y

\* The same on a value in its slot.
LEMMA AluInSlot ==
    ASSUME Colouring, NEW k \in DOMAIN stream, NEW e, Base(e.code, k), StoreKnown(e),
           stream[k].op = "alu", NEW n, n = stream[k].out, ~ InRegister(n)
    PROVE  Emits(Emitted(<<Load("r11", n), Use(n, "r11"), Define(n, "r11"), Keep(n, "r11")>>, e), k)
<1> DEFINE w == Load("r11", n)
           x == Use(n, "r11")
           y == Define(n, "r11")
           z == Keep(n, "r11")
           c == e.code
           d == Emitted(<<w, x, y, z>>, e)
           c1 == Append(c, w)
           c2 == Append(c1, x)
           c3 == Append(c2, y)
           c4 == Append(c3, z)
<1>1. n \in Node /\ n \in Makes(stream[k]) /\ n \in Reads(stream[k])
      /\ c \in Seq(Items) /\ Len(c) \in Nat /\ "r11" \in Scratch /\ "r11" \in Register
  BY OutIsNode, BaseIsCode DEF Reads, Scratch, Register
<1>2. d.code = c \o <<w, x, y, z>> /\ d.stored = e.stored
  BY DEF Emitted
<1>3. w \in Items /\ x \in Items /\ y \in Items /\ z \in Items
  BY <1>1, ItemTypes
<1>4. c \o <<w, x, y, z>> = c4
  <2> HIDE DEF w, x, y, z, c
  <2>1. QED
    BY <1>1, <1>3, AfterCode4
<1>5. Fit(w, Tag(k)) /\ Alone(w)
  BY <1>1, Fits, LoadOnce DEF Alone
<1>6. Fit(x, Tag(k)) /\ Settles(x, Tag(k))
  BY <1>1, Fits, UseOnce, Quiet
<1>7. Fit(y, Tag(k)) /\ Alone(y) /\ Gives(y, n, "r11")
  BY <1>1, Fits, OtherItems DEF Define, Item, Gives
<1>8. Fit(z, Tag(k))
  BY <1>1, Fits
<1> HIDE DEF d
<1>9. Tip(c1, k, w) /\ Len(c1) = Len(c) + 1
  <2> HIDE DEF w
  <2>1. QED
    BY <1>5, AddPlain
<1> HIDE DEF c1, c
<1>10. Tip(c2, k, x) /\ Len(c2) = Len(c1) + 1
  BY <1>6, <1>9, AddUse
<1> HIDE DEF c2, x
<1>11. Base(c2, k)
  BY <1>6, <1>10, TipIsBase
<1>12. Tip(c3, k, y) /\ Len(c3) = Len(c2) + 1
  <2> HIDE DEF y
  <2>1. QED
    BY <1>7, <1>11, AddPlain
<1> HIDE DEF c3, y
<1>13. Tip(c4, k, z) /\ Len(c4) = Len(c3) + 1
  BY <1>7, <1>8, <1>12, AddKeep
<1> HIDE DEF c4
<1>14. Base(c4, k + 1)
  BY <1>1, <1>13, MakeEnds
<1>15. d.code = c4
  BY <1>2, <1>4
<1>16. Len(d.code) > Len(e.code) /\ Len(d.code) \in Nat /\ Len(e.code) \in Nat
  BY <1>1, <1>9, <1>10, <1>12, <1>13, <1>15 DEF c
<1>17. StoreKnown(d)
  BY <1>2, <1>16, StoreForgotten
<1>18. QED
  BY <1>14, <1>15, <1>17 DEF Emits, d, w, x, y, z

\* emitAluBinary: the code stays right.
LEMMA AluStep ==
    ASSUME Colouring, NEW k \in DOMAIN stream, NEW e, Base(e.code, k), StoreKnown(e),
           stream[k].op = "alu"
    PROVE  Emits(EmitAluBinary(e, stream[k].out, stream[k].in[1]), k)
<1> DEFINE got == ResolveToReg(e, stream[k].in[1], "r10")
<1>1. stream[k].in[1] \in Reads(stream[k]) /\ "r10" \in Scratch
  <2>1. stream[k].in \in Seq(Node) /\ Len(stream[k].in) = 1
    BY StreamFacts DEF WellFormed, Instr
  <2>2. 1 \in DOMAIN stream[k].in
    BY <2>1
  <2>3. QED
    BY <2>2, OperandRead DEF Scratch
<1>2. Base(got.code, k) /\ StoreKnown(got)
  BY <1>1, Resolve2
<1> HIDE DEF got
<1>3. QED
  BY <1>2, AluInRegister, AluInSlot DEF EmitAluBinary, got

\* An instruction that makes no value ends anywhere, unless it leads control.
LEMMA NoValueEnds ==
    ASSUME Colouring, NEW k \in DOMAIN stream, NEW c, NEW x, Tip(c, k, x),
           x.do \notin {"define", "alias"},
           stream[k].op \notin {"set", "mov", "alu", "call"},
           stream[k].op \in {"ret", "label"} \cup Jumps => x.do = stream[k].op,
           stream[k].op = "label" => x = Control("label", stream[k].label)
    PROVE  Base(c, k + 1)
<1>1. Makes(stream[k]) = {}
  <2>1. stream[k].out \notin Node /\ stream[k].out \in Node \cup {NoNode}
    BY StreamFacts DEF WellFormed, Instr
  <2>2. QED
    BY <2>1 DEF Makes
<1>2. Ends(x, Tag(k))
  BY <1>1 DEF Ends, Tag
<1>3. QED
  BY <1>2, Quiet, TipEnds

\* emitCmpImm and emitCmpRR: the code stays right.
LEMMA CmpStep ==
    ASSUME Colouring, NEW k \in DOMAIN stream, NEW e, Base(e.code, k), StoreKnown(e),
           stream[k].op = "cmp"
    PROVE  Emits(EmitCmp(e, stream[k].in), k)
<1> DEFINE in == stream[k].in
           first == ResolveToReg(e, in[1], "r10")
           second == ResolveToReg(first, in[2], "r11")
<1>1. in \in Seq(Node) /\ Len(in) \in 1 .. 2
  BY StreamFacts DEF WellFormed, Instr
<1>2. 1 \in DOMAIN in /\ (Len(in) # 1 => 2 \in DOMAIN in) /\ "r10" \in Scratch /\ "r11" \in Scratch
  BY <1>1 DEF Scratch
<1>3. in[1] \in Reads(stream[k]) /\ (Len(in) # 1 => in[2] \in Reads(stream[k]))
  BY <1>2, OperandRead
<1>4. stream[k].op \notin {"set", "mov", "alu", "call"} \cup {"ret", "label"} \cup Jumps
  BY DEF Jumps
<1>5. CASE Len(in) = 1
  <2>1. PICK x : Tip(first.code, k, x) /\ x.do \in {"use", "elided"}
    BY <1>2, <1>3, Resolve1
  <2>2. StoreKnown(first)
    BY <1>2, <1>3, Resolve1
  <2>3. EmitCmp(e, in) = first
    BY <1>5 DEF EmitCmp
  <2> HIDE DEF first
  <2>4. Base(first.code, k + 1)
    BY <1>4, <2>1, NoValueEnds
  <2>5. QED
    BY <2>2, <2>3, <2>4 DEF Emits
<1>6. CASE Len(in) # 1
  <2>1. Base(first.code, k) /\ StoreKnown(first)
    BY <1>2, <1>3, Resolve2
  <2>2. EmitCmp(e, in) = second
    BY <1>6 DEF EmitCmp
  <2> HIDE DEF first
  <2>3. PICK x : Tip(second.code, k, x) /\ x.do \in {"use", "elided"}
    BY <1>2, <1>3, <1>6, <2>1, Resolve1
  <2>4. StoreKnown(second)
    BY <1>2, <1>3, <1>6, <2>1, Resolve1
  <2> HIDE DEF second
  <2>5. Base(second.code, k + 1)
    BY <1>4, <2>3, NoValueEnds
  <2>6. QED
    BY <2>2, <2>4, <2>5 DEF Emits
<1>7. QED
  BY <1>5, <1>6

\* One item that is the whole of its instruction, or the end of it.
LEMMA EndItem ==
    ASSUME Colouring, NEW k \in DOMAIN stream, NEW e, Base(e.code, k), StoreKnown(e),
           NEW y \in Items, Fit(y, Tag(k)), y.do \notin {"move", "use", "define", "alias"},
           stream[k].op \notin {"set", "mov", "alu", "call"},
           stream[k].op \in {"ret", "label"} \cup Jumps => y.do = stream[k].op,
           stream[k].op = "label" => y = Control("label", stream[k].label)
    PROVE  Emits(Emitted(<<y>>, e), k)
<1> DEFINE c == e.code
           d == Emitted(<<y>>, e)
<1>1. d.code = c \o <<y>> /\ d.stored = e.stored /\ c \in Seq(Items) /\ Len(c) \in Nat
  BY BaseIsCode DEF Emitted
<1>2. c \o <<y>> = Append(c, y)
  BY <1>1, AfterCode
<1>3. Tip(Append(c, y), k, y) /\ Len(Append(c, y)) = Len(c) + 1
  BY OtherItems, AddPlain
<1>4. Base(Append(c, y), k + 1)
  BY <1>3, NoValueEnds
<1> HIDE DEF d
<1>5. StoreKnown(d)
  BY <1>1, <1>2, <1>3, StoreForgotten
<1>6. QED
  BY <1>1, <1>2, <1>4, <1>5 DEF Emits, d

\* Labels and jumps: the code stays right.
LEMMA ControlStep ==
    ASSUME Colouring, NEW k \in DOMAIN stream, NEW e, Base(e.code, k), StoreKnown(e),
           stream[k].op \in {"label"} \cup Jumps
    PROVE  Emits(Emitted(<<Control(stream[k].op, stream[k].label)>>, e), k)
<1> DEFINE y == Control(stream[k].op, stream[k].label)
<1>1. stream[k].label \in Label \cup {NoLabel}
  BY StreamFacts DEF Instr
<1>2. y \in Items /\ Fit(y, Tag(k)) /\ y.do = stream[k].op
  BY <1>1, ItemTypes, Fits DEF Control, Item
<1>3. stream[k].op = "label" => y = Control("label", stream[k].label)
  OBVIOUS
<1>4. stream[k].op \notin {"set", "mov", "alu", "call"}
      /\ stream[k].op \notin {"move", "use", "define", "alias"}
  BY DEF Jumps
<1> HIDE DEF y
<1>5. QED
  BY <1>2, <1>3, <1>4, EndItem DEF y

\* One item at the end of others.
LEMMA LastAfter ==
    ASSUME NEW c \in Seq(Items), NEW a \in Items, NEW b \in Items, NEW z \in Items
    PROVE  /\ Append(<<a>>, z) = <<a, z>> /\ c \o <<a, z>> = (c \o <<a>>) \o <<z>>
           /\ Append(<<a, b>>, z) = <<a, b, z>> /\ c \o <<a, b, z>> = (c \o <<a, b>>) \o <<z>>
<1>1. Append(<<a>>, z) = <<a, z>> /\ Append(<<a, b>>, z) = <<a, b, z>>
  <2>1. /\ <<a>> \in Seq(Items) /\ Len(<<a>>) = 1 /\ <<a>>[1] = a
        /\ <<a, z>> \in Seq(Items) /\ Len(<<a, z>>) = 2 /\ <<a, z>>[1] = a /\ <<a, z>>[2] = z
        /\ <<a, b>> \in Seq(Items) /\ Len(<<a, b>>) = 2 /\ <<a, b>>[1] = a /\ <<a, b>>[2] = b
        /\ <<a, b, z>> \in Seq(Items) /\ Len(<<a, b, z>>) = 3
        /\ <<a, b, z>>[1] = a /\ <<a, b, z>>[2] = b /\ <<a, b, z>>[3] = z
    OBVIOUS
  <2>2. ASSUME NEW s \in Seq(Items) PROVE
           LET d == Append(s, z)
           IN  /\ d \in Seq(Items) /\ Len(d) = Len(s) + 1 /\ d[Len(d)] = z
               /\ \A i \in 1 .. Len(s) : d[i] = s[i]
    BY OneMore
  <2> DEFINE d == Append(<<a>>, z)
             f == Append(<<a, b>>, z)
  <2>3. /\ d \in Seq(Items) /\ Len(d) = 2 /\ d[1] = a /\ d[2] = z
        /\ f \in Seq(Items) /\ Len(f) = 3 /\ f[1] = a /\ f[2] = b /\ f[3] = z
    <3>1. 1 \in 1 .. 1 /\ 1 \in 1 .. 2 /\ 2 \in 1 .. 2 /\ 1 + 1 = 2 /\ 2 + 1 = 3
      OBVIOUS
    <3>2. QED
      BY <2>1, <2>2, <3>1
  <2> HIDE DEF d, f
  <2>4. \A i \in 1 .. 2 : i = 1 \/ i = 2
    OBVIOUS
  <2>5. \A i \in 1 .. 3 : i = 1 \/ i = 2 \/ i = 3
    OBVIOUS
  <2>6. d = <<a, z>>
    BY <2>1, <2>3, <2>4, SeqEqual
  <2>7. f = <<a, b, z>>
    BY <2>1, <2>3, <2>5, SeqEqual
  <2>8. QED
    BY <2>6, <2>7 DEF d, f
<1>2. c \o <<a, z>> = (c \o <<a>>) \o <<z>>
  <2>1. c \o <<a, z>> = Append(Append(c, a), z) /\ c \o <<a>> = Append(c, a)
    OBVIOUS
  <2>2. Append(c, a) \o <<z>> = Append(Append(c, a), z)
    OBVIOUS
  <2>3. QED
    BY <2>1, <2>2
<1>3. c \o <<a, b, z>> = (c \o <<a, b>>) \o <<z>>
  <2> DEFINE d == Append(Append(c, a), b)
  <2>1. c \o <<a, b, z>> = Append(Append(Append(c, a), b), z) /\ c \o <<a, b>> = d
    BY AfterCode, AfterCode3
  <2>2. d \in Seq(Items)
    OBVIOUS
  <2> HIDE DEF d
  <2>3. d \o <<z>> = Append(d, z)
    BY <2>2, AfterCode
  <2>4. QED
    BY <2>1, <2>3 DEF d
<1>4. QED
  BY <1>1, <1>2, <1>3

\* emitRet: the code stays right.
LEMMA RetStep ==
    ASSUME Colouring, NEW k \in DOMAIN stream, NEW e, Base(e.code, k), StoreKnown(e),
           stream[k].op = "ret"
    PROVE  Emits(EmitRet(e, stream[k].in), k)
<1> DEFINE in == stream[k].in
           n == in[1]
           z == Control("ret", NoLabel)
           c == e.code
<1>1. in \in Seq(Node) /\ c \in Seq(Items) /\ Len(c) \in Nat
  BY StreamFacts, BaseIsCode DEF Instr
<1>2. z \in Items /\ Fit(z, Tag(k)) /\ z.do = "ret"
  BY ItemTypes, Fits DEF Control, Item
<1>3. \A d : Base(d.code, k) /\ StoreKnown(d) => Emits(Emitted(<<z>>, d), k)
  <2> HIDE DEF z
  <2>1. QED
    BY <1>2, EndItem
<1>4. CASE in = <<>>
  <2>1. EmitRet(e, in) = Emitted(<<z>>, e)
    <3>1. Append(<<>>, z) = <<z>>
      OBVIOUS
    <3>2. QED
      BY <1>4, <3>1 DEF EmitRet
  <2>2. QED
    BY <1>3, <2>1
<1>5. CASE in # <<>> /\ InRegister(n)
  <2> DEFINE y == Use(n, colour[n])
             d == Emitted(<<y>>, e)
  <2>1. n \in Reads(stream[k]) /\ n \in Node /\ colour[n] \in Register
    <3>1. 1 \in DOMAIN in
      BY <1>1, <1>5
    <3>2. n \in Reads(stream[k]) /\ n \in Node
      BY <3>1, OperandRead
    <3>3. QED
      BY <1>5, <3>2, ColourFacts
  <2>2. y \in Items /\ Fit(y, Tag(k)) /\ Alone(y) /\ Settles(y, Tag(k))
    BY <1>5, <2>1, ItemTypes, Fits, UseOnce, Quiet DEF Alone
  <2>3. EmitRet(e, in) = Emitted(<<z>>, d)
    <3>1. Append(<<y>>, z) = <<y, z>> /\ c \o <<y, z>> = (c \o <<y>>) \o <<z>>
      <4> HIDE DEF y, z, c
      <4>1. QED
        BY <1>1, <1>2, <2>2, LastAfter
    <3>2. QED
      BY <1>5, <3>1 DEF EmitRet, Emitted
  <2>4. c \o <<y>> = Append(c, y)
    BY <1>1, <2>2, AfterCode
  <2>5. Tip(Append(c, y), k, y) /\ Len(Append(c, y)) = Len(c) + 1
    <3> HIDE DEF y
    <3>1. QED
      BY <2>2, AddPlain
  <2>6. Base(Append(c, y), k)
    BY <2>2, <2>5, TipIsBase
  <2>7. d.code = Append(c, y) /\ d.stored = e.stored
    BY <2>4 DEF Emitted
  <2> HIDE DEF d, z
  <2>8. Base(d.code, k) /\ StoreKnown(d)
    BY <1>1, <2>5, <2>6, <2>7, StoreForgotten
  <2>9. QED
    BY <1>3, <2>3, <2>8
<1>6. CASE in # <<>> /\ ~ InRegister(n)
  <2> DEFINE x == Load("rax", n)
             y == Use(n, "rax")
             d == Emitted(<<x, y>>, e)
  <2>1. n \in Reads(stream[k]) /\ n \in Node /\ "rax" \in Scratch /\ "rax" \in Register
    <3>1. 1 \in DOMAIN in
      BY <1>1, <1>6
    <3>2. QED
      BY <3>1, OperandRead DEF Scratch, Register
  <2>2. x \in Items /\ y \in Items /\ Fit(x, Tag(k)) /\ Fit(y, Tag(k)) /\ Alone(x)
        /\ Settles(y, Tag(k))
    BY <1>6, <2>1, ItemTypes, Fits, UseOnce, LoadOnce, Quiet DEF Alone
  <2>3. EmitRet(e, in) = Emitted(<<z>>, d)
    <3>1. Append(<<x, y>>, z) = <<x, y, z>> /\ c \o <<x, y, z>> = (c \o <<x, y>>) \o <<z>>
      <4> HIDE DEF x, y, z, c
      <4>1. QED
        BY <1>1, <1>2, <2>2, LastAfter
    <3>2. QED
      BY <1>6, <3>1 DEF EmitRet, Emitted
  <2>4. c \o <<x, y>> = Append(Append(c, x), y)
    BY <1>1, <2>2, AfterCode
  <2>5. Tip(Append(c, x), k, x) /\ Len(Append(c, x)) = Len(c) + 1
    <3> HIDE DEF x
    <3>1. QED
      BY <2>2, AddPlain
  <2> DEFINE c1 == Append(c, x)
  <2>6. d.code = Append(c1, y) /\ d.stored = e.stored
    BY <2>4 DEF Emitted
  <2> HIDE DEF c1, d, z
  <2>7. Tip(Append(c1, y), k, y) /\ Len(Append(c1, y)) = Len(c1) + 1
    BY <1>6, <2>2, <2>5, AddUse DEF c1
  <2>8. Base(Append(c1, y), k)
    <3> HIDE DEF y
    <3>1. QED
      BY <2>2, <2>7, TipIsBase
  <2>9. Base(d.code, k) /\ StoreKnown(d)
    BY <1>1, <2>5, <2>6, <2>7, <2>8, StoreForgotten DEF c1
  <2>10. QED
    BY <1>3, <2>3, <2>9
<1>7. QED
  BY <1>4, <1>5, <1>6

\* The states between the arguments of a call.
Between(e, k) ==
    {d \in [code : Seq(Items), stored : {e.stored, NoStore}] : Base(d.code, k) /\ StoreKnown(d)}

\* One argument more.
LEMMA ArgumentStep ==
    ASSUME Colouring, NEW k \in DOMAIN stream, NEW e, NEW x \in Between(e, k), NEW n \in Reads(stream[k])
    PROVE  ResolveToReg(x, n, "r11") \in Between(e, k)
<1> DEFINE d == ResolveToReg(x, n, "r11")
<1>1. Base(x.code, k) /\ StoreKnown(x) /\ "r11" \in Scratch
  BY DEF Between, Scratch
<1>2. Base(d.code, k) /\ StoreKnown(d)
  BY <1>1, Resolve2
<1>3. d = [code |-> d.code, stored |-> d.stored] /\ d.stored \in {x.stored, NoStore}
  BY DEF ResolveToReg, Emitted
<1> HIDE DEF d
<1>4. d.code \in Seq(Items)
  BY <1>2, BaseIsCode
<1>5. d.stored \in {e.stored, NoStore}
  BY <1>3 DEF Between
<1>6. QED
  BY <1>2, <1>3, <1>4, <1>5 DEF Between, d

\* All of them.
LEMMA Arguments ==
    ASSUME Colouring, NEW k \in DOMAIN stream, NEW e, e \in Between(e, k),
           NEW n \in Node
    PROVE  \E d : /\ EmitCall(e, n, stream[k].in)
                       = Emitted(<<Clobber, Define(n, "rax"), Keep(n, "rax")>>, d)
                  /\ Base(d.code, k) /\ StoreKnown(d)
<1> DEFINE args == stream[k].in
           N == Len(args)
           S == Between(e, k)
           Def(f, i) == IF i = 0 THEN e ELSE ResolveToReg(f[i - 1], args[i], "r11")
           f == CHOOSE f : f = [i \in 0 .. N |-> Def(f, i)]
           g == [p \in (1 .. N) \X S |-> ResolveToReg(p[2], args[p[1]], "r11")]
<1>1. N \in Nat /\ DOMAIN args = 1 .. N
  <2>1. args \in Seq(Node)
    BY StreamFacts DEF Instr
  <2> HIDE DEF args
  <2>2. QED
    BY <2>1
<1> HIDE DEF N
<1>2. ASSUME NEW i \in 1 .. N, NEW x \in S PROVE ResolveToReg(x, args[i], "r11") \in S
  <2>1. args[i] \in Reads(stream[k])
    BY <1>1, OperandRead
  <2> HIDE DEF args
  <2>2. QED
    BY <2>1, ArgumentStep
<1> HIDE DEF args, S
<1>3. \A i \in 1 .. N, x \in S : g[<<i, x>>] = ResolveToReg(x, args[i], "r11")
  OBVIOUS
<1>4. PICK h : h \in [0 .. N -> S] /\ h[0] = e /\ \A i \in 1 .. N : h[i] = g[<<i, h[i - 1]>>]
  <2>1. StaysIn(g, N, S) /\ e \in S
    BY <1>2, <1>3 DEF StaysIn, S
  <2> HIDE DEF g
  <2>2. \E h : Repeats(h, g, N, S, e)
    BY <1>1, <2>1, Iterates
  <2>3. QED
    BY <2>2 DEF Repeats
<1> HIDE DEF g
<1>5. ASSUME NEW i \in 0 .. N PROVE h[i] = Def(h, i)
  <2>1. CASE i = 0
    BY <1>4, <2>1
  <2>2. CASE i # 0
    <3>1. i \in 1 .. N /\ i - 1 \in 0 .. N
      BY <1>1, <2>2
    <3>2. QED
      BY <1>3, <1>4, <2>2, <3>1
  <2>3. QED
    BY <2>1, <2>2
<1>6. h = [i \in 0 .. N |-> Def(h, i)]
  <2> HIDE DEF Def
  <2>1. QED
    BY <1>4, <1>5
<1>7. f = [i \in 0 .. N |-> Def(f, i)]
  <2> HIDE DEF Def
  <2>1. \E d : d = [i \in 0 .. N |-> Def(d, i)]
    BY <1>6, Zenon
  <2>2. QED
    BY <2>1, Zenon
<1>8. EmitCall(e, n, args) = Emitted(<<Clobber, Define(n, "rax"), Keep(n, "rax")>>, f[N])
  BY DEF EmitCall, N
<1> HIDE DEF f
<1>9. f[0] = e
  BY <1>1, <1>7
<1>10. ASSUME NEW i \in 1 .. N PROVE f[i] = ResolveToReg(f[i - 1], args[i], "r11")
  <2>1. i \in 0 .. N /\ i # 0
    BY <1>1
  <2>2. f[i] = Def(f, i)
    <3> HIDE DEF Def
    <3>1. QED
      BY <1>7, <2>1
  <2>3. QED
    BY <2>1, <2>2
<1> DEFINE P == {i \in Nat : i <= N => f[i] \in S}
<1>11. 0 \in P
  BY <1>9 DEF S
<1>12. ASSUME NEW i \in Nat, i \in P PROVE i + 1 \in P
  <2> SUFFICES ASSUME i + 1 <= N PROVE f[i + 1] \in S
    OBVIOUS
  <2>1. f[i] \in S /\ i + 1 \in 1 .. N /\ (i + 1) - 1 = i
    BY <1>1, <1>12
  <2>2. QED
    BY <1>2, <1>10, <2>1
<1>13. Nat \subseteq P
  <2> HIDE DEF P
  <2>1. QED
    BY <1>11, <1>12, AllNumbers
<1>14. f[N] \in S
  BY <1>1, <1>13
<1>15. QED
  BY <1>8, <1>14 DEF S, Between, args

\* What follows the arguments.
LEMMA AfterCall ==
    ASSUME Colouring, NEW k \in DOMAIN stream, NEW e, Base(e.code, k), StoreKnown(e),
           stream[k].op = "call", NEW n, n = stream[k].out
    PROVE  Emits(Emitted(<<Clobber, Define(n, "rax"), Keep(n, "rax")>>, e), k)
<1> DEFINE w == Clobber
           y == Define(n, "rax")
           z == Keep(n, "rax")
           c == e.code
           d == Emitted(<<w, y, z>>, e)
           c1 == Append(c, w)
           c2 == Append(c1, y)
           c3 == Append(c2, z)
<1>1. n \in Node /\ n \in Makes(stream[k]) /\ ~ InRegister(n)
      /\ c \in Seq(Items) /\ Len(c) \in Nat /\ "rax" \in Scratch /\ "rax" \in Register
  <2>1. n \in CallNode
    BY StreamFacts DEF WellFormed
  <2>2. QED
    BY <2>1, OutIsNode, BaseIsCode DEF Scratch, Register, InRegister
<1>2. d.code = c \o <<w, y, z>> /\ d.stored = e.stored
  BY DEF Emitted
<1>3. w \in Items /\ y \in Items /\ z \in Items
  BY <1>1, ItemTypes
<1>4. c \o <<w, y, z>> = c3
  <2> HIDE DEF w, y, z, c
  <2>1. QED
    BY <1>1, <1>3, AfterCode3
<1>5. Fit(w, Tag(k)) /\ Alone(w) /\ Settles(w, Tag(k))
  BY <1>1, Fits, OtherItems, Quiet DEF Clobber, Item
<1>6. Fit(y, Tag(k)) /\ Alone(y) /\ Gives(y, n, "rax")
  BY <1>1, Fits, OtherItems DEF Define, Item, Gives
<1>7. Fit(z, Tag(k))
  BY <1>1, Fits
<1> HIDE DEF d, w, c, y
<1>8. Tip(c1, k, w) /\ Len(c1) = Len(c) + 1
  BY <1>5, AddPlain DEF c
<1> HIDE DEF c1
<1>9. Base(c1, k)
  BY <1>5, <1>8, TipIsBase
<1>10. Tip(c2, k, y) /\ Len(c2) = Len(c1) + 1
  BY <1>6, <1>9, AddPlain
<1> HIDE DEF c2
<1>11. Tip(c3, k, z) /\ Len(c3) = Len(c2) + 1
  BY <1>1, <1>6, <1>7, <1>10, AddKeep
<1> HIDE DEF c3
<1>12. Base(c3, k + 1)
  BY <1>1, <1>11, MakeEnds
<1>13. d.code = c3
  BY <1>2, <1>4
<1>14. Len(d.code) > Len(e.code) /\ Len(d.code) \in Nat /\ Len(e.code) \in Nat
  BY <1>1, <1>8, <1>10, <1>11, <1>13 DEF c
<1>15. StoreKnown(d)
  BY <1>2, <1>14, StoreForgotten
<1>16. QED
  BY <1>12, <1>13, <1>15 DEF Emits, d, w, y

\* emitInstr: whatever the instruction, the code stays right.
LEMMA InstrStep ==
    ASSUME Colouring, NEW k \in DOMAIN stream, NEW c, NEW s, Base(c, k),
           StoreKnown([code |-> c, stored |-> s])
    PROVE  Emits(EmitInstr([code |-> c, stored |-> s], stream[k]), k)
<1> DEFINE e == [code |-> c, stored |-> s]
           instr == stream[k]
<1>1. Base(e.code, k) /\ StoreKnown(e) /\ e.stored = s
  OBVIOUS
<1>2. instr.op \in {"set", "mov", "alu", "cmp", "call", "ret", "label", "jmp", "jcc"}
  BY StreamFacts DEF Instr
<1>3. e \in Between(e, k)
  BY <1>1, BaseIsCode DEF Between
<1> HIDE DEF e
<1>4. CASE instr.op = "set"
  BY <1>1, <1>4, SetStep DEF EmitInstr
<1>5. CASE instr.op = "mov"
  BY <1>1, <1>5, MovStep DEF EmitInstr
<1>6. CASE instr.op = "alu"
  BY <1>1, <1>6, AluStep DEF EmitInstr
<1>7. CASE instr.op = "cmp"
  BY <1>1, <1>7, CmpStep DEF EmitInstr
<1>8. CASE instr.op = "call"
  <2>1. instr.out \in Node
    BY <1>8, OutIsNode
  <2>2. PICK d : /\ EmitCall(e, instr.out, instr.in)
                      = Emitted(<<Clobber, Define(instr.out, "rax"), Keep(instr.out, "rax")>>, d)
                 /\ Base(d.code, k) /\ StoreKnown(d)
    BY <1>3, <2>1, Arguments
  <2>3. EmitInstr(e, instr) = EmitCall(e, instr.out, instr.in)
    BY <1>8 DEF EmitInstr
  <2>4. QED
    BY <1>8, <2>2, <2>3, AfterCall DEF e
<1>9. CASE instr.op = "ret"
  BY <1>1, <1>9, RetStep DEF EmitInstr
<1>10. CASE instr.op \in {"label", "jmp", "jcc"}
  <2>1. EmitInstr(e, instr) = Emitted(<<Control(instr.op, instr.label)>>, e)
    BY <1>10 DEF EmitInstr
  <2>2. QED
    BY <1>1, <1>10, <2>1, ControlStep DEF Jumps, e
<1>11. Emits(EmitInstr(e, instr), k)
  <2> HIDE DEF instr
  <2>1. CASE instr.op \in {"set", "mov", "alu", "cmp", "ret"}
    BY <1>4, <1>5, <1>6, <1>7, <1>9, <2>1 DEF e, instr
  <2>2. QED
    BY <1>2, <1>8, <1>10, <2>1 DEF e, instr
<1>12. QED
  BY <1>11 DEF e

-----------------------------------------------------------------------------
(***************************************************************************)
(* The run. Before each item, of instruction i, what was made on every way *)
(* to i and is alive is in its register, and what has no register is in    *)
(* its slot; what is missing is what this item or the next puts there.     *)
(*                                                                         *)
(* That a register is not given to another value while it is needed rests  *)
(* on Fresh: when i is in the span of a value, or the value is known at i, *)
(* then on some way to the first instruction of its span it was not made   *)
(* yet. So a value that is known and alive was alive at the instruction    *)
(* before, since no span goes on through a label; and NeverShared leaves   *)
(* the register to it.                                                     *)
(***************************************************************************)
\* Instruction i is in the span of n.
Within(n, i) == spans[n].first <= i /\ i <= spans[n].last

\* What the allocation leaves behind.
Allotted ==
    /\ Colouring
    /\ spans \in [Node -> Span]
    /\ \A n \in Node, i \in DOMAIN stream : n \in Touched(i) => Within(n, i)
    /\ ColouredAreLocal
    /\ NeverShared

\* Of a value in a register, what is known at its first instruction was not made yet.
Fresh(i) ==
    \A n \in Node : InRegister(n) /\ (n \in Known[stream][i] \/ Within(n, i)) =>
        n \notin Known[stream][spans[n].first]

\* Before item x of instruction i, the values in registers are there.
InPlace(x, i, h) ==
    \A n \in Node : InRegister(n) /\ n \in Known[stream][i] /\ Within(n, i) =>
        n \in h[Reg(colour[n])] \/ \E r : x = Copy(colour[n], r)

\* The values in slots are there, but for what is about to be stored or was not.
InSlot(x, u, h, e) ==
    \A n \in Node : ~ InRegister(n) /\ n \in Known[stream][u.at] =>
        \/ n \in h[Slot(n)] \cup e
        \/ \E r : x = Keep(n, r)
        \/ x = Elided(n)
        \/ u.elide /\ \E r : x = Use(n, r)

\* What x needs is in its register.
AtHand(x, u, h, e) ==
    /\ \A n, r : x = Keep(n, r) => n \in h[Reg(r)]
    /\ \A c, r : x = Copy(c, r) =>
          \E n \in Makes(stream[u.at]) : InRegister(n) /\ colour[n] = c /\ n \in h[Reg(r)]
    /\ \A n, r : x = Use(n, r) /\ ~ InRegister(n) => n \in h[Reg(r)] \cup e

Good(x, u, h, e) ==
    /\ h \in [Location -> SUBSET Node] /\ e \subseteq Node
    /\ Fresh(u.at) /\ InPlace(x, u.at, h) /\ InSlot(x, u, h, e) /\ AtHand(x, u, h, e)

\* y, of u, runs after x, of t.
Goes(x, t, y, u) ==
    /\ u.at = t.at \/ (Follows(stream, t.at, u.at) /\ Ends(x, t))
    /\ Asks(x, t, y, u) /\ Needs(x, t, y, u)

-----------------------------------------------------------------------------
\* What an instruction reads and makes is alive there.
LEMMA AliveThere ==
    ASSUME Allotted, NEW i \in DOMAIN stream, NEW n \in Reads(stream[i]) \cup Makes(stream[i])
    PROVE  n \in Node /\ Within(n, i)
<1>1. n \in Node
  BY StreamFacts DEF Allotted
<1>2. n \in Touched(i)
  <2>1. CASE n \in Makes(stream[i])
    BY <2>1 DEF Makes, Touched, Operands
  <2>2. CASE n \in Range(stream[i].in) /\ stream[i].op # "call"
    BY <2>2 DEF Touched, Operands
  <2>3. CASE n \in Range(stream[i].in) /\ stream[i].op = "call"
    <3>1. n \in Args(stream[i].out)
      BY <2>3 DEF Args
    <3>2. stream[i].out \in Operands(i)
      BY <2>3, OutIsNode DEF Operands, Allotted, Makes
    <3>3. QED
      BY <3>1, <3>2 DEF Touched
  <2>4. CASE stream[i].op = "alu" /\ n = stream[i].out
    BY <2>4, OutIsNode DEF Touched, Operands, Allotted, Makes
  <2>5. QED
    BY <2>1, <2>2, <2>3, <2>4 DEF Reads
<1>3. QED
  BY <1>1, <1>2 DEF Allotted

\* Of two values with the same register, one is dead.
LEMMA OneAlive ==
    ASSUME Allotted, NEW m \in Node, NEW n \in Node, InRegister(m), colour[n] = colour[m],
           NEW i \in DOMAIN stream, Within(m, i), Within(n, i)
    PROVE  m = n
<1>1. colour[m] # NoColour
  BY DEF InRegister
<1>2. Occurs(m) /\ Occurs(n)
  BY <1>1 DEF Allotted, ColouredAreLocal, IsColorableLocal
<1>3. i \in Nat /\ spans[m] \in Span /\ spans[n] \in Span
  BY StreamFacts DEF Allotted
<1>4. Overlap(m, n)
  BY <1>2, <1>3 DEF Overlap, Within, Span
<1>5. QED
  BY <1>1, <1>4 DEF Allotted, NeverShared

\* A value in a register is not alive before a label.
LEMMA BornAtLabel ==
    ASSUME Allotted, NEW n \in Node, InRegister(n), NEW i \in DOMAIN stream,
           stream[i].op = "label", Within(n, i)
    PROVE  spans[n].first = i
<1>1. Occurs(n) /\ \A b \in BlockStart : ~ (spans[n].first < b /\ b <= spans[n].last)
  BY DEF Allotted, ColouredAreLocal, IsColorableLocal, InRegister
<1>2. i \in Nat /\ i \in 1 .. Len(stream) /\ Len(stream) \in Nat /\ DOMAIN stream = 1 .. Len(stream)
      /\ spans[n].first \in Nat /\ spans[n].last \in Nat
      /\ WellFormed(stream)
  BY StreamFacts, AllocatorAssumption DEF Allotted, Span, Colouring, AllocatorAssumption
<1>3. CASE i = 1
  BY <1>1, <1>2, <1>3 DEF Within, Occurs
<1>4. CASE i # 1
  <2>1. i - 1 \in DOMAIN stream /\ (i - 1) + 1 = i /\ i > 1
    BY <1>2, <1>4
  <2>2. stream[i - 1].op \in Terminator
    BY <1>2, <2>1 DEF WellFormed
  <2>3. i \in BlockStart
    BY <2>1, <2>2 DEF BlockStart
  <2>4. QED
    BY <1>1, <1>2, <2>3 DEF Within
<1>5. QED
  BY <1>3, <1>4

\* What is known after an instruction was known before, or made by it.
LEMMA KnownBefore ==
    ASSUME Allotted, NEW i \in DOMAIN stream, NEW j \in DOMAIN stream, Follows(stream, i, j)
    PROVE  /\ Known[stream][j] \subseteq Known[stream][i] \cup Makes(stream[i])
           /\ j = i + 1 \/ stream[j].op = "label"
<1>1. NeverTooEarly(stream, Known[stream])
  BY StreamFacts DEF Allotted
<1>2. QED
  BY <1>1 DEF NeverTooEarly, Follows

\* What Fresh says goes on from an instruction to the next, around loops too.
LEMMA FreshStays ==
    ASSUME Allotted, NEW i \in DOMAIN stream, NEW j \in DOMAIN stream, Follows(stream, i, j), Fresh(i)
    PROVE  Fresh(j)
<1> SUFFICES ASSUME NEW n \in Node, InRegister(n), n \in Known[stream][j] \/ Within(n, j),
                    n \in Known[stream][spans[n].first]
             PROVE  FALSE
  BY DEF Fresh
<1>1. n \notin Known[stream][i] /\ ~ Within(n, i)
  BY DEF Fresh
<1>2. n \notin Makes(stream[i])
  BY <1>1, AliveThere
<1>3. n \notin Known[stream][j]
  BY <1>1, <1>2, KnownBefore
<1>4. Within(n, j) /\ spans[n].first # j
  BY <1>3
<1>5. j = i + 1
  BY <1>4, KnownBefore, BornAtLabel
<1>6. i \in Nat /\ spans[n].first \in Nat /\ spans[n].last \in Nat
  BY StreamFacts DEF Allotted, Span
<1>7. QED
  BY <1>1, <1>4, <1>5, <1>6 DEF Within

\* A value in a register that is known and alive was so before, or has just been made.
LEMMA AliveBefore ==
    ASSUME Allotted, NEW i \in DOMAIN stream, NEW j \in DOMAIN stream, Follows(stream, i, j), Fresh(i),
           NEW n \in Node, InRegister(n), n \in Known[stream][j], Within(n, j)
    PROVE  Within(n, i) /\ (n \in Known[stream][i] \/ n \in Makes(stream[i]))
<1>1. n \in Known[stream][i] \/ n \in Makes(stream[i])
  BY KnownBefore
<1>2. n \notin Known[stream][spans[n].first]
  BY <1>1, AliveThere DEF Fresh
<1>3. spans[n].first # j
  BY <1>2
<1>4. j = i + 1
  BY <1>3, KnownBefore, BornAtLabel
<1>5. i \in Nat /\ spans[n].first \in Nat /\ spans[n].last \in Nat
  BY StreamFacts DEF Allotted, Span
<1>6. QED
  BY <1>1, <1>3, <1>4, <1>5 DEF Within

\* What is known of n before x, when it is alive after it: in a register, in a slot.
Held(x, h, n) == n \in h[Reg(colour[n])] \/ (\E r : x = Define(n, r) \/ x = Copy(colour[n], r))

Stowed(x, t, h, e, n) ==
    \/ n \in h[Slot(n)] \cup e
    \/ \E r : x = Keep(n, r) \/ Gives(x, n, r)
    \/ x = Elided(n)
    \/ t.elide /\ \E r : x = Use(n, r)

\* An item runs, and the next one is ready.
Runs(x, t, y, u, h, e) ==
    /\ Allotted /\ Fit(x, t) /\ Fit(y, u) /\ Goes(x, t, y, u) /\ Good(x, t, h, e)

\* The next instruction is one of the stream, and Fresh.
LEMMA RunsFresh ==
    ASSUME NEW x, NEW t, NEW y, NEW u, NEW h, NEW e, Runs(x, t, y, u, h, e)
    PROVE  Fresh(u.at) /\ t.at \in DOMAIN stream /\ u.at \in DOMAIN stream
  BY FreshStays DEF Runs, Goes, Good, Fit

\* A value in a register that is alive after x was there before, or x puts it there.
LEMMA RunsHeld ==
    ASSUME NEW x, NEW t, NEW y, NEW u, NEW h, NEW e, Runs(x, t, y, u, h, e),
           NEW n \in Node, InRegister(n), n \in Known[stream][u.at], Within(n, u.at)
    PROVE  Held(x, h, n) /\ Within(n, t.at)
<1>1. /\ Allotted /\ t.at \in DOMAIN stream /\ u.at \in DOMAIN stream
      /\ Fresh(t.at) /\ InPlace(x, t.at, h)
      /\ u.at = t.at \/ (Follows(stream, t.at, u.at) /\ Ends(x, t))
  BY RunsFresh DEF Runs, Goes, Good
<1>2. CASE u.at = t.at
  BY <1>1, <1>2 DEF InPlace, Held
<1>3. CASE Follows(stream, t.at, u.at) /\ Ends(x, t)
  <2>1. Within(n, t.at) /\ (n \in Known[stream][t.at] \/ n \in Makes(stream[t.at]))
    BY <1>1, <1>3, AliveBefore
  <2>2. CASE n \in Known[stream][t.at]
    BY <1>1, <2>1, <2>2 DEF InPlace, Held
  <2>3. CASE n \in Makes(stream[t.at])
    BY <1>3, <2>1, <2>3 DEF Ends, Held
  <2>4. QED
    BY <2>1, <2>2, <2>3
<1>4. QED
  BY <1>1, <1>2, <1>3

\* The same of a value in a slot.
LEMMA RunsStowed ==
    ASSUME NEW x, NEW t, NEW y, NEW u, NEW h, NEW e, Runs(x, t, y, u, h, e),
           NEW n \in Node, ~ InRegister(n), n \in Known[stream][u.at]
    PROVE  Stowed(x, t, h, e, n)
<1>1. /\ Allotted /\ t.at \in DOMAIN stream /\ u.at \in DOMAIN stream
      /\ InSlot(x, t, h, e)
      /\ u.at = t.at \/ (Follows(stream, t.at, u.at) /\ Ends(x, t))
  BY RunsFresh DEF Runs, Goes, Good
<1>2. CASE n \in Known[stream][t.at]
  BY <1>1, <1>2 DEF InSlot, Stowed
<1>3. CASE n \notin Known[stream][t.at]
  <2>1. n \in Makes(stream[t.at]) /\ Ends(x, t)
    BY <1>1, <1>3, KnownBefore
  <2>2. QED
    BY <2>1 DEF Ends, Stowed
<1>4. QED
  BY <1>2, <1>3

\* What an item leaves is what the next one needs.
LEMMA RunsOn ==
    ASSUME NEW x, NEW t, NEW y, NEW u, NEW h, NEW e, Runs(x, t, y, u, h, e),
           NEW h2 \in [Location -> SUBSET Node], NEW e2 \in SUBSET Node,
           InPlace(y, u.at, h2), InSlot(y, u, h2, e2), AtHand(y, u, h2, e2)
    PROVE  Good(y, u, h2, e2)
  BY RunsFresh DEF Good

\* Only what gives a value or loads one is needed by the next item.
LEMMA NoneAtHand ==
    ASSUME NEW x, NEW t, NEW y, NEW u, NEW h2, NEW e2, Goes(x, t, y, u),
           \A n, r : ~ Gives(x, n, r) /\ x # Load(r, n)
    PROVE  AtHand(y, u, h2, e2)
<1>1. \A n, r : x # Alias(n, r)
  BY DEF Gives
<1>2. QED
  BY <1>1 DEF Goes, Needs, AtHand

\* Reads, labels and jumps change nothing.
LEMMA StillStep ==
    ASSUME NEW x, NEW t, NEW y, NEW u, NEW h, NEW e, Runs(x, t, y, u, h, e),
           x.do \in {"use", "label"} \cup Jumps
    PROVE  Good(y, u, h, e)
<1>1. /\ \A n, r : ~ Gives(x, n, r) /\ x # Define(n, r)
      /\ \A n, r : x # Load(r, n) /\ x # Keep(n, r) /\ x # Copy(n, r)
      /\ \A n : x # Elided(n)
  <2>1. \A n, r : Define(n, r).do = "define" /\ Alias(n, r).do = "alias"
    BY DEF Define, Alias, Item
  <2>2. \A n, r : Load(r, n).do = "move" /\ Keep(n, r).do = "move" /\ Copy(n, r).do = "move"
                  /\ Elided(n).do = "elided"
    BY DEF Load, Keep, Copy, Elided, Item
  <2>3. x.do \notin {"define", "alias", "move", "elided"}
    BY DEF Jumps
  <2>4. QED
    BY <2>1, <2>2, <2>3 DEF Gives
<1>2. InPlace(y, u.at, h)
  BY <1>1, RunsHeld DEF InPlace, Held
<1>3. ASSUME NEW n \in Node, ~ InRegister(n), n \in Known[stream][u.at]
      PROVE  n \in h[Slot(n)] \cup e \/ y = Elided(n)
  <2>1. Stowed(x, t, h, e, n)
    BY <1>3, RunsStowed
  <2>2. (\E r : x = Use(n, r)) /\ t.elide => y = Elided(n)
    BY DEF Runs, Goes, Asks
  <2>3. QED
    BY <1>1, <2>1, <2>2 DEF Stowed
<1>4. InSlot(y, u, h, e)
  BY <1>3 DEF InSlot
<1>5. AtHand(y, u, h, e)
  BY <1>1, NoneAtHand DEF Runs
<1>6. QED
  BY <1>2, <1>4, <1>5, RunsOn DEF Runs, Good

\* The store of a value into its slot.
LEMMA KeptStep ==
    ASSUME NEW x, NEW t, NEW y, NEW u, NEW h, NEW e, Runs(x, t, y, u, h, e),
           NEW m \in Node, NEW q \in Register, x = Keep(m, q)
    PROVE  Good(y, u, [h EXCEPT ![x.to] = h[x.from]], e)
<1> DEFINE h2 == [h EXCEPT ![x.to] = h[x.from]]
<1>1. /\ x.to = Slot(m) /\ x.from = Reg(q) /\ Slot(m) \in Location /\ Reg(q) \in Location
      /\ h \in [Location -> SUBSET Node] /\ e \subseteq Node /\ m \in h[Reg(q)]
  BY KeepOnce, RegisterPlaces DEF Runs, Good, AtHand, Location
<1>2. /\ h2 \in [Location -> SUBSET Node]
      /\ h2[Slot(m)] = h[Reg(q)]
      /\ \A l \in Location : l # Slot(m) => h2[l] = h[l]
  BY <1>1
<1> HIDE DEF h2
<1>3. InPlace(y, u.at, h2)
  <2> SUFFICES ASSUME NEW n \in Node, InRegister(n), n \in Known[stream][u.at], Within(n, u.at)
               PROVE  n \in h2[Reg(colour[n])]
    BY DEF InPlace
  <2>1. n \in h[Reg(colour[n])]
    <3>1. Held(x, h, n)
      BY RunsHeld
    <3>2. \A r : x # Define(n, r) /\ x # Copy(colour[n], r)
      BY KeepOnce DEF Gives
    <3>3. QED
      BY <3>1, <3>2 DEF Held
  <2>2. Reg(colour[n]) \in Location
    BY ColourFacts, RegisterPlaces DEF Runs, Allotted
  <2>3. Reg(colour[n]) # Slot(m)
    BY DEF Reg, Slot
  <2>4. QED
    BY <1>2, <2>1, <2>2, <2>3
<1>4. InSlot(y, u, h2, e)
  <2> SUFFICES ASSUME NEW n \in Node, ~ InRegister(n), n \in Known[stream][u.at]
               PROVE  n \in h2[Slot(n)] \cup e
    BY DEF InSlot
  <2>1. CASE n = m
    BY <1>1, <1>2, <2>1
  <2>2. CASE n # m
    <3>1. Stowed(x, t, h, e, n)
      BY RunsStowed
    <3>2. \A r : x # Keep(n, r) /\ ~ Gives(x, n, r) /\ x # Use(n, r)
      BY <2>2, KeepOnce
    <3>3. x # Elided(n)
      BY KeepOnce DEF Elided, Item
    <3>4. n \in h[Slot(n)] \cup e
      BY <3>1, <3>2, <3>3 DEF Stowed
    <3>5. Slot(n) # Slot(m) /\ Slot(n) \in Location
      BY <2>2 DEF Slot, Location
    <3>6. QED
      BY <1>2, <3>4, <3>5
  <2>3. QED
    BY <2>1, <2>2
<1>5. AtHand(y, u, h2, e)
  BY KeepOnce, NoneAtHand DEF Runs
<1>6. QED
  BY <1>1, <1>2, <1>3, <1>4, <1>5, RunsOn DEF h2

\* A read belongs to an instruction that reads.
LEMMA UseFits ==
    ASSUME NEW y, NEW u, Fit(y, u), y.do = "use"
    PROVE  FitRead(y, stream[u.at], u.elide)
<1>1. ~ FitMake(y, stream[u.at])
  <2>1. \A n, r : Define(n, r).do = "define" /\ Alias(n, r).do = "alias"
                  /\ Copy(n, r).do = "move" /\ Keep(n, r).do = "move"
    BY DEF Define, Alias, Copy, Keep, Item
  <2>2. QED
    BY <2>1 DEF FitMake
<1>2. ~ FitOther(y, stream[u.at])
  <2>1. \A n, r : Load(n, r).do = "move" /\ Elided(n).do = "elided" /\ Control(n, r).do = n
    BY DEF Load, Elided, Control, Item
  <2>2. Clobber.do = "call"
    BY DEF Clobber, Item
  <2>3. QED
    BY <2>1, <2>2 DEF FitOther, Jumps
<1>3. QED
  BY <1>1, <1>2 DEF Fit

\* The load of a value out of its slot.
LEMMA LoadedStep ==
    ASSUME NEW x, NEW t, NEW y, NEW u, NEW h, NEW e, Runs(x, t, y, u, h, e),
           NEW m \in Node, NEW q \in Scratch, x = Load(q, m)
    PROVE  Good(y, u, [h EXCEPT ![x.to] = h[x.from]], e)
<1> DEFINE h2 == [h EXCEPT ![x.to] = h[x.from]]
<1>1. /\ x.to = Reg(q) /\ x.from = Slot(m) /\ Slot(m) \in Location /\ Reg(q) \in Location
      /\ h \in [Location -> SUBSET Node] /\ e \subseteq Node
  BY LoadOnce, RegisterPlaces DEF Runs, Good, Location, Register
<1>2. /\ h2 \in [Location -> SUBSET Node]
      /\ h2[Reg(q)] = h[Slot(m)]
      /\ \A l \in Location : l # Reg(q) => h2[l] = h[l]
  BY <1>1
<1> HIDE DEF h2
<1>3. InPlace(y, u.at, h2)
  <2> SUFFICES ASSUME NEW n \in Node, InRegister(n), n \in Known[stream][u.at], Within(n, u.at)
               PROVE  n \in h2[Reg(colour[n])]
    BY DEF InPlace
  <2>1. n \in h[Reg(colour[n])]
    <3>1. Held(x, h, n)
      BY RunsHeld
    <3>2. \A r : x # Define(n, r) /\ x # Copy(colour[n], r)
      BY LoadOnce DEF Gives
    <3>3. QED
      BY <3>1, <3>2 DEF Held
  <2>2. Reg(colour[n]) \in Location /\ colour[n] # q
    BY ColourFacts, RegisterPlaces DEF Runs, Allotted
  <2>3. Reg(colour[n]) # Reg(q)
    BY <2>2 DEF Reg
  <2>4. QED
    BY <1>2, <2>1, <2>2, <2>3
<1>4. ASSUME NEW n \in Node, ~ InRegister(n), n \in Known[stream][u.at]
      PROVE  n \in h2[Slot(n)] \cup e /\ h2[Slot(n)] = h[Slot(n)]
  <2>1. Stowed(x, t, h, e, n)
    BY <1>4, RunsStowed
  <2>2. \A r : x # Keep(n, r) /\ ~ Gives(x, n, r) /\ x # Use(n, r)
    BY LoadOnce
  <2>3. x # Elided(n)
    BY LoadOnce DEF Elided, Item
  <2>4. n \in h[Slot(n)] \cup e
    BY <2>1, <2>2, <2>3 DEF Stowed
  <2>5. Slot(n) # Reg(q) /\ Slot(n) \in Location
    BY DEF Slot, Reg, Location
  <2>6. QED
    BY <1>2, <2>4, <2>5
<1>5. InSlot(y, u, h2, e)
  BY <1>4 DEF InSlot
<1>6. AtHand(y, u, h2, e)
  <2>1. \A n, r : ~ Gives(x, n, r)
    BY LoadOnce
  <2>2. \A n, r : y # Keep(n, r) /\ y # Copy(n, r)
    BY <2>1 DEF Runs, Goes, Needs, Gives
  <2>3. ASSUME NEW n, NEW r, y = Use(n, r), ~ InRegister(n) PROVE n \in h2[Reg(r)] \cup e
    <3>1. x = Load(r, n)
      BY <2>1, <2>3 DEF Runs, Goes, Needs
    <3>2. n = m /\ r = q
      BY <3>1, LoadOnce
    <3>3. n \in Known[stream][u.at]
      <4>1. PICK s \in Reads(stream[u.at]), p \in Register : y = Use(s, p)
        <5>1. Fit(y, u) /\ y.do = "use" /\ Allotted
          BY <2>3, UseOnce DEF Runs
        <5>2. FitRead(y, stream[u.at], u.elide)
          BY <5>1, UseFits
        <5>3. QED
          BY <5>2 DEF FitRead
      <4>2. s = n
        BY <2>3, <4>1 DEF Use, Item
      <4>3. u.at \in DOMAIN stream /\ NeverTooEarly(stream, Known[stream])
        BY RunsFresh, StreamFacts DEF Runs, Allotted
      <4>4. QED
        BY <4>1, <4>2, <4>3 DEF NeverTooEarly
    <3>4. QED
      BY <1>2, <1>4, <2>3, <3>2, <3>3
  <2>4. QED
    BY <2>2, <2>3 DEF AtHand
<1>7. QED
  BY <1>1, <1>2, <1>3, <1>5, <1>6, RunsOn DEF h2

\* The copy of a value into its register.
LEMMA CopiedStep ==
    ASSUME NEW x, NEW t, NEW y, NEW u, NEW h, NEW e, Runs(x, t, y, u, h, e),
           NEW c \in Register, NEW q \in Register, x = Copy(c, q)
    PROVE  Good(y, u, [h EXCEPT ![x.to] = h[x.from]], e)
<1> DEFINE h2 == [h EXCEPT ![x.to] = h[x.from]]
<1>1. /\ x.to = Reg(c) /\ x.from = Reg(q) /\ Reg(c) \in Location /\ Reg(q) \in Location
      /\ h \in [Location -> SUBSET Node] /\ e \subseteq Node
      /\ Allotted /\ t.at \in DOMAIN stream
  BY CopyOnce, RegisterPlaces, RunsFresh DEF Runs, Good
<1>2. PICK m \in Makes(stream[t.at]) : InRegister(m) /\ colour[m] = c /\ m \in h[Reg(q)]
  BY DEF Runs, Good, AtHand
<1>3. /\ h2 \in [Location -> SUBSET Node]
      /\ h2[Reg(c)] = h[Reg(q)]
      /\ \A l \in Location : l # Reg(c) => h2[l] = h[l]
  BY <1>1
<1>4. /\ \A n, r : x # Define(n, r) /\ ~ Gives(x, n, r) /\ x # Keep(n, r) /\ x # Use(n, r)
      /\ \A n, r : x # Load(r, n)
      /\ \A n : x # Elided(n)
      /\ \A d, r : x = Copy(d, r) => d = c
  BY CopyOnce DEF Gives, Elided, Item
<1> HIDE DEF h2
<1>5. InPlace(y, u.at, h2)
  <2> SUFFICES ASSUME NEW n \in Node, InRegister(n), n \in Known[stream][u.at], Within(n, u.at)
               PROVE  n \in h2[Reg(colour[n])]
    BY DEF InPlace
  <2>1. Held(x, h, n) /\ Within(n, t.at)
    BY RunsHeld
  <2>2. Reg(colour[n]) \in Location
    BY <1>1, ColourFacts, RegisterPlaces DEF Allotted
  <2>3. CASE colour[n] = c
    <3>1. m \in Node /\ Within(m, t.at)
      BY <1>1, AliveThere
    <3>2. n = m
      BY <1>1, <1>2, <2>1, <2>3, <3>1, OneAlive
    <3>3. QED
      BY <1>2, <1>3, <3>2
  <2>4. CASE colour[n] # c
    <3>1. n \in h[Reg(colour[n])]
      BY <1>4, <2>1, <2>4 DEF Held
    <3>2. Reg(colour[n]) # Reg(c)
      BY <2>4 DEF Reg
    <3>3. QED
      BY <1>3, <2>2, <3>1, <3>2
  <2>5. QED
    BY <2>3, <2>4
<1>6. InSlot(y, u, h2, e)
  <2> SUFFICES ASSUME NEW n \in Node, ~ InRegister(n), n \in Known[stream][u.at]
               PROVE  n \in h2[Slot(n)] \cup e
    BY DEF InSlot
  <2>1. Stowed(x, t, h, e, n)
    BY RunsStowed
  <2>2. n \in h[Slot(n)] \cup e
    BY <1>4, <2>1 DEF Stowed
  <2>3. Slot(n) # Reg(c) /\ Slot(n) \in Location
    BY DEF Slot, Reg, Location
  <2>4. QED
    BY <1>3, <2>2, <2>3
<1>7. AtHand(y, u, h2, e)
  BY <1>4, NoneAtHand DEF Runs
<1>8. QED
  BY <1>1, <1>3, <1>5, <1>6, <1>7, RunsOn DEF h2

\* Where the new value of a node is.
LEMMA DefineFits ==
    ASSUME Allotted, NEW m, NEW q, NEW t, Fit(Define(m, q), t)
    PROVE  /\ m \in Makes(stream[t.at]) /\ m \in Node /\ q \in Register
           /\ IF InRegister(m) THEN q = colour[m] ELSE q \in Scratch
<1> DEFINE x == Define(m, q)
<1>1. Gives(x, m, q) /\ x.do = "define" /\ x.node = m /\ x.to = Reg(q)
  BY DEF Gives, Define, Item
<1>2. Fit(x, t)
  OBVIOUS
<1> HIDE DEF x
<1>3. m \in Makes(stream[t.at]) /\ q \in Register /\ m \in Node
  BY <1>1, <1>2, GivesFits, AliveThere DEF Allotted, Fit
<1>4. ~ FitRead(x, stream[t.at], t.elide)
  BY <1>1, UseOnce DEF FitRead
<1>5. ~ FitOther(x, stream[t.at])
  <2>1. \A n, r : Load(n, r).do = "move" /\ Elided(n).do = "elided" /\ Control(n, r).do = n
    BY DEF Load, Elided, Control, Item
  <2>2. Clobber.do = "call"
    BY DEF Clobber, Item
  <2>3. QED
    BY <1>1, <2>1, <2>2 DEF FitOther, Jumps
<1>6. FitMake(x, stream[t.at])
  BY <1>2, <1>4, <1>5 DEF Fit
<1>7. \A n, r : Alias(n, r).do = "alias" /\ Copy(n, r).do = "move" /\ Keep(n, r).do = "move"
  BY DEF Alias, Copy, Keep, Item
<1>8. PICK n \in Makes(stream[t.at]), r \in Register :
          x = Define(n, r) /\ (IF InRegister(n) THEN r = colour[n] ELSE r \in Scratch)
  BY <1>1, <1>6, <1>7 DEF FitMake
<1>9. n = m /\ r = q
  BY <1>1, <1>8, GivesOnce DEF Gives
<1>10. QED
  BY <1>3, <1>8, <1>9

\* h2 has the value of m in q, and loses nothing else but what q held.
Given(x, h, h2, m, q) ==
    /\ h2 \in [Location -> SUBSET Node] /\ m \in h2[Reg(q)]
    /\ \A l \in Location, n \in Node :
          n # m /\ n \in h[l] /\ (l # Reg(q) \/ x = Alias(m, q)) => n \in h2[l]

\* Whatever gives a value leaves the next item what it needs.
LEMMA GivenStep ==
    ASSUME NEW x, NEW t, NEW y, NEW u, NEW h, NEW e, Runs(x, t, y, u, h, e),
           NEW m \in Node, NEW q \in Register, Gives(x, m, q), NEW h2, Given(x, h, h2, m, q)
    PROVE  Good(y, u, h2, e \ {m})
<1> DEFINE e2 == e \ {m}
<1>1. /\ h \in [Location -> SUBSET Node] /\ e2 \in SUBSET Node
      /\ Allotted /\ t.at \in DOMAIN stream /\ Fit(x, t)
      /\ m \in Makes(stream[t.at]) /\ Within(m, t.at)
  <2>1. Allotted /\ Colouring /\ Fit(x, t) /\ t.at \in DOMAIN stream
    BY RunsFresh DEF Runs, Allotted
  <2>2. m \in Makes(stream[t.at])
    BY <2>1, GivesFits
  <2>3. QED
    BY <2>1, <2>2, AliveThere DEF Runs, Good
<1>2. /\ \A n, r : Gives(x, n, r) => n = m /\ r = q
      /\ \A n, r : x # Keep(n, r) /\ x # Use(n, r) /\ x # Copy(n, r) /\ x # Load(n, r)
      /\ \A n : x # Elided(n)
  <2>1. x.do \in {"define", "alias"} /\ \A n : Elided(n).do = "elided"
    BY GivesOnce DEF Elided, Item
  <2>2. QED
    BY <2>1, GivesOnce
<1> HIDE DEF e2
<1>3. InPlace(y, u.at, h2)
  <2> SUFFICES ASSUME NEW n \in Node, InRegister(n), n \in Known[stream][u.at], Within(n, u.at)
               PROVE  n \in h2[Reg(colour[n])] \/ \E r : y = Copy(colour[n], r)
    BY DEF InPlace
  <2>1. Held(x, h, n) /\ Within(n, t.at)
    BY RunsHeld
  <2>2. Reg(colour[n]) \in Location /\ colour[n] \notin Scratch
    BY <1>1, ColourFacts, RegisterPlaces DEF Allotted
  <2>3. CASE n = m /\ x = Define(m, q)
    <3>1. q = colour[n]
      BY <1>1, <2>3, DefineFits
    <3>2. QED
      BY <2>3, <3>1 DEF Given
  <2>4. CASE n = m /\ x = Alias(m, q)
    BY <2>4 DEF Runs, Goes, Asks
  <2>5. CASE n # m
    <3>1. n \in h[Reg(colour[n])]
      BY <1>2, <2>1, <2>5 DEF Held, Gives
    <3>2. x = Define(m, q) => Reg(colour[n]) # Reg(q)
      <4> SUFFICES ASSUME x = Define(m, q), colour[n] = q PROVE FALSE
        BY DEF Reg
      <4>1. InRegister(m) /\ q = colour[m]
        BY <1>1, <2>2, DefineFits
      <4>2. n = m
        BY <1>1, <2>1, <4>1, OneAlive
      <4>3. QED
        BY <2>5, <4>2
    <3>3. QED
      BY <2>2, <2>5, <3>1, <3>2 DEF Given, Gives
  <2>6. QED
    BY <2>3, <2>4, <2>5 DEF Gives
<1>4. InSlot(y, u, h2, e2)
  <2> SUFFICES ASSUME NEW n \in Node, ~ InRegister(n), n \in Known[stream][u.at]
               PROVE  \/ n \in h2[Slot(n)] \cup e2
                      \/ \E r : y = Keep(n, r)
                      \/ u.elide /\ \E r : y = Use(n, r)
    BY DEF InSlot
  <2>1. CASE n = m
    BY <2>1 DEF Runs, Goes, Asks
  <2>2. CASE n # m
    <3>1. Stowed(x, t, h, e, n)
      BY RunsStowed
    <3>2. n \in h[Slot(n)] \cup e
      BY <1>2, <2>2, <3>1 DEF Stowed
    <3>3. Slot(n) # Reg(q) /\ Slot(n) \in Location
      BY DEF Slot, Reg, Location
    <3>4. QED
      BY <2>2, <3>2, <3>3 DEF Given, e2
  <2>3. QED
    BY <2>1, <2>2
<1>5. AtHand(y, u, h2, e2)
  <2>1. Needs(x, t, y, u)
    BY DEF Runs, Goes
  <2>2. ASSUME NEW n, NEW r, y = Keep(n, r) PROVE n \in h2[Reg(r)]
    BY <1>2, <2>1, <2>2 DEF Needs, Given
  <2>3. ASSUME NEW c, NEW r, y = Copy(c, r)
        PROVE  \E n \in Makes(stream[u.at]) : InRegister(n) /\ colour[n] = c /\ n \in h2[Reg(r)]
    <3>1. PICK n \in Node : InRegister(n) /\ colour[n] = c /\ x = Alias(n, r)
      BY <2>1, <2>3 DEF Needs
    <3>2. n = m /\ r = q
      BY <1>2, <3>1 DEF Gives
    <3>3. ~ Ends(x, t)
      <4>1. \A s : x # Define(m, s)
        <5>1. \A s : Define(m, s).do = "define" /\ Alias(n, s).do = "alias"
          BY DEF Define, Alias, Item
        <5>2. QED
          BY <3>1, <5>1
      <4>2. QED
        BY <1>1, <1>2, <3>1, <3>2, <4>1 DEF Ends
    <3>4. u.at = t.at
      BY <3>3 DEF Runs, Goes
    <3>5. QED
      BY <1>1, <3>1, <3>2, <3>4 DEF Given
  <2>4. ASSUME NEW n, NEW r, y = Use(n, r), ~ InRegister(n) PROVE n \in h2[Reg(r)]
    BY <1>2, <2>1, <2>4 DEF Needs, Given
  <2>5. QED
    BY <2>2, <2>3, <2>4 DEF AtHand
<1>6. h2 \in [Location -> SUBSET Node]
  BY DEF Given
<1>7. QED
  BY <1>1, <1>3, <1>4, <1>5, <1>6, RunsOn DEF e2

\* A new value.
LEMMA DefinedStep ==
    ASSUME NEW x, NEW t, NEW y, NEW u, NEW h, NEW e, Runs(x, t, y, u, h, e),
           NEW m \in Node, NEW q \in Register, x = Define(m, q)
    PROVE  Good(y, u, [l \in Location |-> IF l = x.to THEN {x.node} ELSE h[l] \ {x.node}],
                e \ {x.node})
<1> DEFINE h2 == [l \in Location |-> IF l = x.to THEN {x.node} ELSE h[l] \ {x.node}]
<1>1. Gives(x, m, q) /\ x.node = m /\ x.to = Reg(q) /\ Reg(q) \in Location /\ x # Alias(m, q)
  BY RegisterPlaces DEF Gives, Define, Alias, Item
<1>2. h \in [Location -> SUBSET Node]
  BY DEF Runs, Good
<1>3. Given(x, h, h2, m, q)
  BY <1>1, <1>2 DEF Given
<1> HIDE DEF h2
<1>4. Good(y, u, h2, e \ {m})
  BY <1>1, <1>3, GivenStep
<1>5. QED
  BY <1>1, <1>4 DEF h2

Shared(x, h) ==
    [l \in Location |-> IF l = x.to \/ h[l] \cap h[x.to] # {}
                        THEN h[l] \cup {x.node} ELSE h[l] \ {x.node}]

\* A value that is there already.
LEMMA AliasedStep ==
    ASSUME NEW x, NEW t, NEW y, NEW u, NEW h, NEW e, Runs(x, t, y, u, h, e),
           NEW m \in Node, NEW q \in Register, x = Alias(m, q)
    PROVE  Good(y, u, Shared(x, h), e \ {x.node})
<1> DEFINE h2 == Shared(x, h)
<1>1. Gives(x, m, q) /\ x.node = m /\ x.to = Reg(q) /\ Reg(q) \in Location
  BY RegisterPlaces DEF Gives, Alias, Item
<1>2. h \in [Location -> SUBSET Node]
  BY DEF Runs, Good
<1>3. Given(x, h, h2, m, q)
  BY <1>1, <1>2 DEF Given, Shared
<1> HIDE DEF h2
<1>4. Good(y, u, h2, e \ {m})
  BY <1>1, <1>3, GivenStep
<1>5. QED
  BY <1>1, <1>4 DEF h2

\* A store that is missing.
LEMMA ElidedStep ==
    ASSUME NEW x, NEW t, NEW y, NEW u, NEW h, NEW e, Runs(x, t, y, u, h, e),
           NEW m \in Node, x = Elided(m)
    PROVE  Good(y, u, h, e \cup {x.node})
<1>1. x.node = m /\ x.do = "elided" /\ \A n : x = Elided(n) => n = m
  BY DEF Elided, Item
<1>2. /\ \A n, r : ~ Gives(x, n, r) /\ x # Define(n, r)
      /\ \A n, r : x # Load(r, n) /\ x # Keep(n, r) /\ x # Copy(n, r) /\ x # Use(n, r)
  <2>1. \A n, r : Define(n, r).do = "define" /\ Alias(n, r).do = "alias"
    BY DEF Define, Alias, Item
  <2>2. \A n, r : Load(r, n).do = "move" /\ Keep(n, r).do = "move" /\ Copy(n, r).do = "move"
                  /\ Use(n, r).do = "use"
    BY DEF Load, Keep, Copy, Use, Item
  <2>3. QED
    BY <1>1, <2>1, <2>2 DEF Gives
<1> DEFINE e2 == e \cup {x.node}
<1>3. InPlace(y, u.at, h)
  BY <1>2, RunsHeld DEF InPlace, Held
<1>4. ASSUME NEW n \in Node, ~ InRegister(n), n \in Known[stream][u.at]
      PROVE  n \in h[Slot(n)] \cup e2
  <2>1. Stowed(x, t, h, e, n)
    BY <1>4, RunsStowed
  <2>2. QED
    BY <1>1, <1>2, <2>1 DEF Stowed
<1>5. e2 \in SUBSET Node /\ h \in [Location -> SUBSET Node]
  BY <1>1 DEF Runs, Good
<1> HIDE DEF e2
<1>6. InSlot(y, u, h, e2)
  BY <1>4 DEF InSlot
<1>7. AtHand(y, u, h, e2)
  BY <1>2, NoneAtHand DEF Runs
<1>8. QED
  BY <1>3, <1>5, <1>6, <1>7, RunsOn DEF e2

\* A call, which leaves the colours and the slots.
LEMMA CalledStep ==
    ASSUME NEW x, NEW t, NEW y, NEW u, NEW h, NEW e, Runs(x, t, y, u, h, e), x = Clobber
    PROVE  Good(y, u, [l \in Location |-> IF l \in Volatile THEN {} ELSE h[l]], e)
<1> DEFINE h2 == [l \in Location |-> IF l \in Volatile THEN {} ELSE h[l]]
<1>1. x.do = "call"
  BY DEF Clobber, Item
<1>2. /\ \A n, r : ~ Gives(x, n, r) /\ x # Define(n, r)
      /\ \A n, r : x # Load(r, n) /\ x # Keep(n, r) /\ x # Copy(n, r) /\ x # Use(n, r)
      /\ \A n : x # Elided(n)
  <2>1. \A n, r : Define(n, r).do = "define" /\ Alias(n, r).do = "alias"
    BY DEF Define, Alias, Item
  <2>2. \A n, r : Load(r, n).do = "move" /\ Keep(n, r).do = "move" /\ Copy(n, r).do = "move"
                  /\ Use(n, r).do = "use" /\ Elided(n).do = "elided"
    BY DEF Load, Keep, Copy, Use, Elided, Item
  <2>3. QED
    BY <1>1, <2>1, <2>2 DEF Gives
<1>3. /\ h \in [Location -> SUBSET Node] /\ e \in SUBSET Node /\ Colouring
      /\ h2 \in [Location -> SUBSET Node]
      /\ \A l \in Location : l \notin Volatile => h2[l] = h[l]
  BY DEF Runs, Good, Allotted
<1> HIDE DEF h2
<1>4. ASSUME NEW n \in Node, InRegister(n), n \in Known[stream][u.at], Within(n, u.at)
      PROVE  n \in h2[Reg(colour[n])]
  <2>1. n \in h[Reg(colour[n])]
    BY <1>2, <1>4, RunsHeld DEF Held
  <2>2. Reg(colour[n]) \in Location /\ colour[n] \notin Scratch
    BY <1>3, <1>4, ColourFacts, RegisterPlaces
  <2>3. Reg(colour[n]) \notin Volatile
    BY <2>2 DEF Volatile, Reg, Scratch
  <2>4. QED
    BY <1>3, <2>1, <2>2, <2>3
<1>5. InPlace(y, u.at, h2)
  BY <1>4 DEF InPlace
<1>6. ASSUME NEW n \in Node, ~ InRegister(n), n \in Known[stream][u.at]
      PROVE  n \in h2[Slot(n)] \cup e
  <2>1. Stowed(x, t, h, e, n)
    BY <1>6, RunsStowed
  <2>2. n \in h[Slot(n)] \cup e
    BY <1>2, <2>1 DEF Stowed
  <2>3. Slot(n) \notin Volatile /\ Slot(n) \in Location
    BY DEF Slot, Reg, Volatile, Location
  <2>4. QED
    BY <1>3, <2>2, <2>3
<1>7. InSlot(y, u, h2, e)
  BY <1>6 DEF InSlot
<1>8. AtHand(y, u, h2, e)
  BY <1>2, NoneAtHand DEF Runs
<1>9. QED
  BY <1>3, <1>5, <1>7, <1>8, RunsOn DEF h2

\* What each sort of item of the code is.
LEMMA ItemKinds ==
    ASSUME Colouring, NEW x, NEW t, Fit(x, t)
    PROVE  /\ x.do = "move" =>
                 \/ \E n \in Node, r \in Register : x = Keep(n, r)
                 \/ \E n \in Node, r \in Scratch : x = Load(r, n)
                 \/ \E c \in Register, r \in Register : x = Copy(c, r)
           /\ x.do = "define" => \E n \in Node, r \in Register : x = Define(n, r)
           /\ x.do = "alias" => \E n \in Node, r \in Register : x = Alias(n, r)
           /\ x.do = "elided" => \E n \in Node : x = Elided(n)
           /\ x.do = "call" => x = Clobber
           /\ x.do \in {"label"} \cup Jumps =>
                 x = Control(x.do, stream[t.at].label) /\ stream[t.at].op = x.do
<1>1. /\ \A n, r : Define(n, r).do = "define" /\ Alias(n, r).do = "alias" /\ Use(n, r).do = "use"
      /\ \A n, r : Load(n, r).do = "move" /\ Copy(n, r).do = "move" /\ Keep(n, r).do = "move"
      /\ \A n : Elided(n).do = "elided"
      /\ \A o, l : Control(o, l).do = o
      /\ Clobber.do = "call"
  BY DEF Define, Alias, Use, Load, Copy, Keep, Elided, Control, Clobber, Item
<1>2. \A n \in Makes(stream[t.at]) : n \in Node /\ (InRegister(n) => colour[n] \in Register)
  BY StreamFacts, ColourFacts DEF Fit
<1>3. CASE FitRead(x, stream[t.at], t.elide)
  <2>1. x.do = "use"
    BY <1>1, <1>3 DEF FitRead
  <2>2. QED
    BY <2>1 DEF Jumps
<1>4. CASE FitMake(x, stream[t.at])
  <2>1. PICK n \in Makes(stream[t.at]), r \in Register :
           x = Define(n, r) \/ x = Alias(n, r) \/ (x = Copy(colour[n], r) /\ InRegister(n)) \/ x = Keep(n, r)
    BY <1>4 DEF FitMake
  <2>2. QED
    BY <1>1, <1>2, <2>1 DEF Jumps
<1>5. CASE FitOther(x, stream[t.at])
  <2>1. CASE \E n \in Node, r \in Scratch : x = Load(r, n)
    BY <1>1, <2>1 DEF Jumps
  <2>2. CASE \E n \in Node : x = Elided(n)
    BY <1>1, <2>2 DEF Jumps
  <2>3. CASE x = Clobber
    BY <1>1, <2>3 DEF Jumps
  <2>4. CASE x = Control("ret", NoLabel)
    BY <1>1, <2>4 DEF Jumps
  <2>5. CASE stream[t.at].op \in {"label"} \cup Jumps /\ x = Control(stream[t.at].op, stream[t.at].label)
    BY <1>1, <2>5 DEF Jumps
  <2>6. QED
    BY <1>5, <2>1, <2>2, <2>3, <2>4, <2>5 DEF FitOther
<1>6. QED
  BY <1>3, <1>4, <1>5 DEF Fit

\* The whole stream is emitted, and its items have the tags t.
Whole(c, t) == MayFollow(c, t, Len(stream) + 1) /\ LabelsOut(c, Len(stream) + 1)

\* Unless it leads control away, an item has another after it.
LEMMA NextItem ==
    ASSUME Colouring, NEW c, NEW t, Whole(c, t), NEW p \in 1 .. Len(c), c[p].do \notin {"jmp", "ret"}
    PROVE  p + 1 \in 1 .. Len(c) /\ Goes(c[p], t[p], c[p + 1], t[p + 1])
<1>1. Chain(c, t) /\ Len(c) \in Nat /\ c # <<>>
  BY DEF Whole, MayFollow, Chain
<1>2. Fit(c[p], t[p])
  BY <1>1 DEF Chain
<1>3. /\ t[p].at \in DOMAIN stream /\ DOMAIN stream = 1 .. Len(stream) /\ Len(stream) \in Nat
      /\ WellFormed(stream)
  BY <1>2, StreamFacts, AllocatorAssumption DEF Fit, Colouring, AllocatorAssumption
<1>4. Ends(c[p], t[p]) => stream[t[p].at].op \notin {"jmp", "ret"}
  BY DEF Ends, Jumps
<1>5. p # Len(c)
  <2> SUFFICES ASSUME p = Len(c) PROVE FALSE
    OBVIOUS
  <2>1. \/ t[p].at = Len(stream) + 1
        \/ t[p].at + 1 = Len(stream) + 1 /\ Ends(c[p], t[p])
    BY <1>1 DEF Whole, MayFollow
  <2>2. t[p].at = Len(stream) /\ Ends(c[p], t[p])
    BY <1>3, <2>1
  <2>3. stream # <<>> /\ Last(stream) = stream[t[p].at]
    BY <1>3, <2>2 DEF Last
  <2>4. QED
    BY <1>3, <1>4, <2>2, <2>3 DEF WellFormed
<1>6. p \in 1 .. Len(c) - 1 /\ p + 1 \in 1 .. Len(c)
  BY <1>1, <1>5
<1>7. Link(c[p], t[p], c[p + 1], t[p + 1])
  BY <1>1, <1>6 DEF Chain
<1>8. QED
  BY <1>4, <1>6, <1>7 DEF Goes, Link, Follows

\* A jump goes to a label of the code.
LEMMA JumpItem ==
    ASSUME Colouring, NEW t, Whole(code, t), NEW p \in 1 .. Len(code), code[p].do \in Jumps
    PROVE  /\ Target(code[p].label) \in 1 .. Len(code)
           /\ Goes(code[p], t[p], code[Target(code[p].label)], t[Target(code[p].label)])
<1> DEFINE x == code[p]
           i == t[p].at
           q == Target(x.label)
           j == t[q].at
<1>1. Chain(code, t) /\ code \in Seq(Items) /\ DOMAIN code = 1 .. Len(code)
  <2>1. Chain(code, t)
    BY DEF Whole, MayFollow
  <2>2. code \in Seq(Items)
    BY <2>1 DEF Chain
  <2>3. QED
    BY <2>1, <2>2
<1>2. Fit(x, t[p])
  BY <1>1 DEF Chain
<1>3. x = Control(x.do, stream[i].label) /\ stream[i].op = x.do /\ i \in DOMAIN stream
  BY <1>2, ItemKinds DEF Fit
<1>4. x.label = stream[i].label
  BY <1>3 DEF Control, Item
<1>5. /\ DOMAIN stream = 1 .. Len(stream) /\ Len(stream) \in Nat /\ WellFormed(stream)
  BY <1>3, StreamFacts, AllocatorAssumption DEF Colouring, AllocatorAssumption
<1>6. PICK k \in DOMAIN stream : stream[k].op = "label" /\ stream[k].label = x.label
  BY <1>3, <1>4, <1>5 DEF WellFormed
<1>7. \E r \in DOMAIN code : code[r] = Control("label", x.label)
  <2>1. k < Len(stream) + 1
    BY <1>5
  <2>2. QED
    BY <1>1, <1>6, <2>1 DEF Whole, LabelsOut
<1> HIDE DEF x
<1>8. q \in 1 .. Len(code) /\ code[q] = Control("label", x.label)
  BY <1>1, <1>7 DEF Target
<1> HIDE DEF q
<1>9. Fit(code[q], t[q]) /\ code[q].do = "label" /\ code[q].label = x.label
  BY <1>1, <1>8 DEF Chain, Control, Item
<1>10. /\ code[q] = Control("label", stream[j].label) /\ stream[j].op = "label"
  BY <1>9, ItemKinds
<1>11. stream[j].label = x.label
  BY <1>9, <1>10 DEF Control, Item
<1>12. Follows(stream, i, j)
  BY <1>3, <1>4, <1>10, <1>11 DEF Follows, x
<1>13. Ends(x, t[p])
  <2>1. ~ t[p].elide
    BY <1>2 DEF Fit, x, Jumps
  <2>2. Makes(stream[i]) = {}
    <3>1. stream[i].out \notin Node
      BY <1>3, <1>5 DEF WellFormed, x, Jumps
    <3>2. Makes(stream[i]) \subseteq Node
      BY <1>3, StreamFacts
    <3>3. QED
      BY <3>1, <3>2 DEF Makes
  <2>3. QED
    BY <1>3, <2>1, <2>2 DEF Ends
<1>14. Asks(x, t[p], code[q], t[q])
  BY <1>13, OtherItems, UseOnce DEF Asks, Ends, x, Jumps
<1>15. Needs(x, t[p], code[q], t[q])
  BY <1>9, OtherItems, UseOnce DEF Needs, Alone
<1>16. QED
  BY <1>8, <1>12, <1>13, <1>14, <1>15 DEF Goes, x, q

HoldsOK(h, e) == h \in [Location -> SUBSET Node] /\ e \subseteq Node

\* Every step of the run leaves the next item what it needs.
LEMMA RunStep ==
    ASSUME Allotted, NEW t, Whole(code, t), pc \in 1 .. Len(code),
           Good(code[pc], t[pc], holds, elided), Run
    PROVE  /\ HoldsOK(holds', elided')
           /\ pc' # 0 => pc' \in 1 .. Len(code) /\ Good(code[pc'], t[pc'], holds', elided')
<1> DEFINE x == code[pc]
           y == code[pc']
           b == t[pc]
           u == t[pc']
<1>1. Colouring /\ Chain(code, t) /\ Good(x, b, holds, elided) /\ Fit(x, b)
  BY DEF Allotted, Whole, MayFollow, Chain
<1>2. ASSUME pc' \in 1 .. Len(code), Goes(x, b, y, u) PROVE Runs(x, b, y, u, holds, elided)
  BY <1>1, <1>2 DEF Runs, Chain
<1>3. ASSUME pc' = pc + 1, x.do \notin {"jmp", "ret"}
      PROVE  pc' \in 1 .. Len(code) /\ Runs(x, b, y, u, holds, elided)
  BY <1>1, <1>2, <1>3, NextItem
<1>4. ASSUME pc' \in 1 .. Len(code), Good(y, u, holds', elided')
      PROVE  /\ HoldsOK(holds', elided')
             /\ pc' # 0 => pc' \in 1 .. Len(code) /\ Good(y, u, holds', elided')
  BY <1>4 DEF Good, HoldsOK
<1> HIDE DEF x, y, b, u
<1>5. CASE RunMove
  <2>1. x.do = "move" /\ pc' = pc + 1 /\ elided' = elided
        /\ holds' = [holds EXCEPT ![x.to] = holds[x.from]]
    BY <1>5 DEF RunMove, Running, x
  <2>2. pc' \in 1 .. Len(code) /\ Runs(x, b, y, u, holds, elided)
    BY <1>3, <2>1
  <2>3. \/ \E n \in Node, r \in Register : x = Keep(n, r)
        \/ \E n \in Node, r \in Scratch : x = Load(r, n)
        \/ \E c \in Register, r \in Register : x = Copy(c, r)
    BY <1>1, <2>1, ItemKinds
  <2>4. Good(y, u, [holds EXCEPT ![x.to] = holds[x.from]], elided)
    BY <2>2, <2>3, KeptStep, LoadedStep, CopiedStep
  <2>5. Good(y, u, holds', elided')
    BY <2>1, <2>4
  <2>6. QED
    BY <1>4, <2>2, <2>5 DEF y, u
<1>6. CASE RunUse \/ RunLabel
  <2>1. x.do \in {"use", "label"} /\ pc' = pc + 1 /\ elided' = elided /\ holds' = holds
    BY <1>6 DEF RunUse, RunLabel, Running, x
  <2>2. pc' \in 1 .. Len(code) /\ Runs(x, b, y, u, holds, elided)
    BY <1>3, <2>1
  <2>3. Good(y, u, holds', elided')
    BY <2>1, <2>2, StillStep
  <2>4. QED
    BY <1>4, <2>2, <2>3 DEF y, u
<1>7. CASE RunDefine
  <2>1. x.do = "define" /\ pc' = pc + 1 /\ elided' = elided \ {x.node}
        /\ holds' = [l \in Location |-> IF l = x.to THEN {x.node} ELSE holds[l] \ {x.node}]
    BY <1>7 DEF RunDefine, Running, x
  <2>2. pc' \in 1 .. Len(code) /\ Runs(x, b, y, u, holds, elided)
    BY <1>3, <2>1
  <2>3. PICK n \in Node, r \in Register : x = Define(n, r)
    BY <1>1, <2>1, ItemKinds
  <2>4. Good(y, u, holds', elided')
    BY <2>1, <2>2, <2>3, DefinedStep
  <2>5. QED
    BY <1>4, <2>2, <2>4 DEF y, u
<1>8. CASE RunAlias
  <2>1. x.do = "alias" /\ pc' = pc + 1 /\ elided' = elided \ {x.node}
        /\ holds' = [l \in Location |-> IF l = x.to \/ holds[l] \cap holds[x.to] # {}
                                        THEN holds[l] \cup {x.node} ELSE holds[l] \ {x.node}]
    BY <1>8 DEF RunAlias, Running, x
  <2>2. pc' \in 1 .. Len(code) /\ Runs(x, b, y, u, holds, elided)
    BY <1>3, <2>1
  <2>3. PICK n \in Node, r \in Register : x = Alias(n, r)
    BY <1>1, <2>1, ItemKinds
  <2>4. Good(y, u, holds', elided')
    <3>1. Good(y, u, Shared(x, holds), elided \ {x.node})
      BY <2>2, <2>3, AliasedStep
    <3>2. holds' = Shared(x, holds)
      BY <2>1, Zenon DEF Shared
    <3>3. QED
      BY <2>1, <3>1, <3>2
  <2>5. QED
    BY <1>4, <2>2, <2>4 DEF y, u
<1>9. CASE RunElided
  <2>1. x.do = "elided" /\ pc' = pc + 1 /\ holds' = holds /\ elided' = elided \cup {x.node}
    BY <1>9 DEF RunElided, Running, x
  <2>2. pc' \in 1 .. Len(code) /\ Runs(x, b, y, u, holds, elided)
    BY <1>3, <2>1
  <2>3. PICK n \in Node : x = Elided(n)
    BY <1>1, <2>1, ItemKinds
  <2>4. Good(y, u, holds', elided')
    BY <2>1, <2>2, <2>3, ElidedStep
  <2>5. QED
    BY <1>4, <2>2, <2>4 DEF y, u
<1>10. CASE RunCall
  <2>1. x.do = "call" /\ pc' = pc + 1 /\ elided' = elided
        /\ holds' = [l \in Location |-> IF l \in Volatile THEN {} ELSE holds[l]]
    BY <1>10 DEF RunCall, Running, x
  <2>2. pc' \in 1 .. Len(code) /\ Runs(x, b, y, u, holds, elided)
    BY <1>3, <2>1
  <2>3. x = Clobber
    BY <1>1, <2>1, ItemKinds
  <2>4. Good(y, u, holds', elided')
    BY <2>1, <2>2, <2>3, CalledStep
  <2>5. QED
    BY <1>4, <2>2, <2>4 DEF y, u
<1>11. ASSUME x.do \in Jumps, pc' = Target(x.label) \/ (x.do = "jcc" /\ pc' = pc + 1),
              holds' = holds, elided' = elided
       PROVE  pc' \in 1 .. Len(code) /\ Good(y, u, holds', elided')
  <2>1. pc' \in 1 .. Len(code) /\ Runs(x, b, y, u, holds, elided)
    <3>1. CASE pc' = Target(x.label)
      <4>1. pc' \in 1 .. Len(code) /\ Goes(x, b, y, u)
        BY <1>1, <1>11, <3>1, JumpItem DEF x, y, b, u
      <4>2. QED
        BY <1>2, <4>1
    <3>2. CASE x.do = "jcc" /\ pc' = pc + 1
      BY <1>3, <3>2
    <3>3. QED
      BY <1>11, <3>1, <3>2
  <2>2. QED
    BY <1>11, <2>1, StillStep
<1>12. CASE RunJmp \/ RunJcc
  <2>1. /\ x.do \in Jumps /\ (pc' = Target(x.label) \/ (x.do = "jcc" /\ pc' = pc + 1))
        /\ holds' = holds /\ elided' = elided
    BY <1>12 DEF RunJmp, RunJcc, Goto, Jumps, x
  <2>2. pc' \in 1 .. Len(code) /\ Good(y, u, holds', elided')
    BY <1>11, <2>1
  <2>3. QED
    BY <1>4, <2>2 DEF y, u
<1>13. CASE RunRet
  BY <1>1, <1>13 DEF RunRet, Goto, Good, HoldsOK
<1>14. QED
  BY <1>5, <1>6, <1>7, <1>8, <1>9, <1>10, <1>12, <1>13 DEF Run

-----------------------------------------------------------------------------
(***************************************************************************)
(* Allocation, emission and run together.                                  *)
(***************************************************************************)
\* The emission so far: the code is right, and goes on where the stream does.
CodeOK ==
    /\ emitted \in 0 .. Len(stream)
    /\ Base(code, emitted + 1)
    /\ StoreKnown([code |-> code, stored |-> stored])
    /\ emitted > 0 => Allocated
    /\ emitted = 0 => code = <<>>

\* The run: at the item that runs next everything is where it should be.
RunOK ==
    /\ HoldsOK(holds, elided)
    /\ pc # 0 => /\ emitted = Len(stream) /\ emitted > 0
                 /\ pc \in 1 .. Len(code)
                 /\ \E t : Whole(code, t) /\ Good(code[pc], t[pc], holds, elided)

\* What the allocator promises.
Background == Untouched /\ NeverShared /\ ColouredAreLocal /\ SpansCover

PhotonInv == Background /\ CodeOK /\ RunOK

\* None of it depends on more than the stream, the colours and the spans.
LEMMA SameBase ==
    ASSUME UNCHANGED <<stream, colour>>, Base(code', emitted' + 1)
    PROVE  Base(code, emitted + 1)'
<1>1. LabelsOut(code', emitted' + 1) /\ \E t : MayFollow(code', t, emitted' + 1) /\ Settled0(code', t)
  BY DEF Base
<1>2. PICK t : MayFollow(code', t, emitted' + 1) /\ Settled0(code', t)
  BY <1>1
<1>3. (LabelsOut(code, emitted + 1))'
  BY <1>1 DEF LabelsOut
<1>4. (MayFollow(code, t, emitted + 1))'
  BY <1>2 DEF MayFollow, Chain, Fit, FitRead, FitMake, FitOther, Link, Asks, Needs,
              Ends, Alone, InRegister, Reads, Makes, Copy
<1>5. (Settled0(code, t))'
  BY <1>2 DEF Settled0, Settles, InRegister
<1>6. QED
  BY <1>3, <1>4, <1>5 DEF Base

\* The same of the run.
LEMMA SameRun ==
    ASSUME UNCHANGED <<stream, colour, spans>>, NEW t, Whole(code', t),
           Good(code'[pc'], t[pc'], holds', elided')
    PROVE  (\E v : Whole(code, v) /\ Good(code[pc], v[pc], holds, elided))'
<1>1. (Whole(code, t))'
  BY DEF Whole, LabelsOut, MayFollow, Chain, Fit, FitRead, FitMake, FitOther, Link, Asks, Needs,
         Ends, Alone, InRegister, Reads, Makes, Copy
<1>2. (Good(code[pc], t[pc], holds, elided))'
  BY DEF Good, Fresh, InPlace, InSlot, AtHand, Within, InRegister, Makes
<1>3. QED
  BY <1>1, <1>2

\* No code is right before the first instruction, whatever the colours.
LEMMA EmptyBase ==
    ASSUME stream \in Streams
    PROVE  /\ Base(<<>>, 1)
           /\ stream' = stream => Base(<<>>, 1)'
<1>1. stream \in Seq(Instr)
  BY AllocatorAssumption DEF AllocatorAssumption
<1>2. \A i \in DOMAIN stream : ~ (i < 1)
  BY <1>1
<1>3. <<>> \in Seq(Items) /\ <<>> \in Seq(Tags) /\ Len(<<>>) = 0 /\ 1 .. 0 = {} /\ 1 .. 0 - 1 = {}
  OBVIOUS
<1>4. MayFollow(<<>>, <<>>, 1) /\ MayFollow(<<>>, <<>>, 1)'
  BY <1>3 DEF MayFollow, Chain
<1>5. LabelsOut(<<>>, 1) /\ (stream' = stream => LabelsOut(<<>>, 1)')
  BY <1>2 DEF LabelsOut
<1>6. Settled0(<<>>, <<>>) /\ Settled0(<<>>, <<>>)'
  BY DEF Settled0
<1>7. QED
  BY <1>4, <1>5, <1>6 DEF Base

\* Once the spans are known, the allocator has said all that the run needs.
LEMMA BackgroundFacts ==
    ASSUME Background
    PROVE  Colouring /\ (Allocated => Allotted)
<1>1. Colouring
  BY DEF Background, Untouched, ColouredAreLocal, SpansCover, Colouring
<1>2. Allocated => node > 0
  BY AllocatorAssumption DEF Allocated, Background, Untouched, AllocatorAssumption
<1>3. QED
  BY <1>1, <1>2 DEF Allotted, Background, SpansCover, Within

\* The first item runs before anything is known.
LEMMA StartsGood ==
    ASSUME Allotted, NEW c, NEW t, Whole(c, t), stream # <<>>, HoldsOK(holds, elided)
    PROVE  1 \in 1 .. Len(c) /\ Good(c[1], t[1], holds, elided)
<1>1. Colouring /\ Chain(c, t) /\ Len(c) \in Nat /\ stream \in Seq(Instr)
  BY AllocatorAssumption DEF Allotted, Colouring, Whole, MayFollow, Chain, AllocatorAssumption
<1>2. c # <<>> /\ 1 \in 1 .. Len(c)
  <2>1. Len(stream) + 1 # 1
    BY <1>1
  <2>2. QED
    BY <1>1, <2>1 DEF Whole, MayFollow, Chain
<1>3. Alone(c[1]) /\ t[1].at = 1 /\ Fit(c[1], t[1])
  BY <1>1, <1>2 DEF Chain
<1>4. Known[stream][1] = {}
  BY <1>1, EmitterAssumption DEF EmitterAssumption, NeverTooEarly, Colouring
<1>5. Fresh(1)
  <2> SUFFICES ASSUME NEW n \in Node, InRegister(n), Within(n, 1)
               PROVE  n \notin Known[stream][spans[n].first]
    BY <1>4 DEF Fresh
  <2>1. Occurs(n)
    BY DEF Allotted, ColouredAreLocal, IsColorableLocal, InRegister
  <2>2. spans[n].first = 1
    BY <2>1 DEF Allotted, Within, Occurs, Span
  <2>3. QED
    BY <1>4, <2>2
<1>6. InPlace(c[1], 1, holds) /\ InSlot(c[1], t[1], holds, elided)
  BY <1>3, <1>4 DEF InPlace, InSlot
<1>7. AtHand(c[1], t[1], holds, elided)
  BY <1>3 DEF AtHand, Alone
<1>8. QED
  BY <1>2, <1>3, <1>5, <1>6, <1>7 DEF Good, HoldsOK

\* emitInstr goes on with the code, and the run starts when it is whole.
LEMMA EmitKeeps == PhotonInv /\ EmitNext => CodeOK' /\ RunOK'
<1> SUFFICES ASSUME PhotonInv, EmitNext PROVE CodeOK' /\ RunOK'
  OBVIOUS
<1> DEFINE k == emitted + 1
           e == EmitInstr([code |-> code, stored |-> stored], stream[k])
<1>1. Colouring /\ Allocated /\ Allotted /\ stream \in Seq(Instr)
  BY BackgroundFacts, AllocatorAssumption DEF EmitNext, PhotonInv, Colouring, AllocatorAssumption
<1>2. /\ emitted \in Nat /\ Len(stream) \in Nat /\ k \in DOMAIN stream /\ k \in 1 .. Len(stream)
      /\ emitted' = k /\ stream # <<>>
  BY <1>1 DEF EmitNext, PhotonInv, CodeOK
<1>3. code' = e.code /\ stored' = e.stored
  BY DEF EmitNext
<1>4. Emits(e, k)
  <2>1. Base(code, k) /\ StoreKnown([code |-> code, stored |-> stored])
    BY DEF PhotonInv, CodeOK
  <2> HIDE DEF k
  <2>2. QED
    BY <1>1, <1>2, <2>1, InstrStep
<1> HIDE DEF e
<1>5. Base(code', emitted' + 1) /\ StoreKnown([code |-> code', stored |-> stored'])
  BY <1>2, <1>3, <1>4 DEF Emits, StoreKnown
<1>6. UNCHANGED <<stream, colour, spans, node>> /\ UNCHANGED <<holds, elided>>
  BY DEF EmitNext, allocatorVars
<1>7. CodeOK'
  <2>1. Base(code, emitted + 1)'
    BY <1>5, <1>6, SameBase
  <2>2. (StoreKnown([code |-> code, stored |-> stored]))'
    BY <1>5 DEF StoreKnown, Keep, Item, Reg, Slot
  <2>3. QED
    BY <1>1, <1>2, <1>6, <2>1, <2>2 DEF CodeOK, Allocated
<1>8. RunOK'
  <2>1. HoldsOK(holds, elided) /\ HoldsOK(holds, elided)'
    BY <1>6 DEF PhotonInv, RunOK, HoldsOK
  <2>2. CASE emitted' # Len(stream)
    <3>1. pc' = 0
      BY <2>2 DEF EmitNext
    <3>2. QED
      BY <2>1, <3>1 DEF RunOK
  <2>3. CASE emitted' = Len(stream)
    <3>1. pc' = 1
      BY <2>3 DEF EmitNext
    <3>2. PICK t : Whole(code', t)
      BY <1>5, <2>3 DEF Base, Whole
    <3>3. 1 \in 1 .. Len(code') /\ Good(code'[1], t[1], holds, elided)
      BY <1>1, <1>2, <2>1, <3>2, StartsGood
    <3>4. (\E v : Whole(code, v) /\ Good(code[pc], v[pc], holds, elided))'
      BY <1>6, <3>1, <3>2, <3>3, SameRun
    <3>5. QED
      BY <1>2, <1>6, <2>1, <2>3, <3>1, <3>3, <3>4 DEF RunOK
  <2>4. QED
    BY <2>2, <2>3
<1>9. QED
  BY <1>7, <1>8

\* The run leaves the code alone.
LEMMA RunKeeps == PhotonInv /\ Run => CodeOK' /\ RunOK'
<1> SUFFICES ASSUME PhotonInv, Run PROVE CodeOK' /\ RunOK'
  OBVIOUS
<1>1. UNCHANGED <<stream, colour, spans, node, emitted, code, stored>> /\ pc \in DOMAIN code
  BY DEF Run, RunMove, RunUse, RunDefine, RunAlias, RunElided, RunCall, RunLabel, RunJmp, RunJcc,
         RunRet, Running, Goto, allocatorVars
<1>2. code \in Seq(Items)
  BY BaseIsCode DEF PhotonInv, CodeOK
<1>3. pc # 0
  BY <1>1, <1>2
<1>4. PICK t : Whole(code, t) /\ Good(code[pc], t[pc], holds, elided)
  BY <1>3 DEF PhotonInv, RunOK
<1>5. Allotted /\ pc \in 1 .. Len(code) /\ emitted = Len(stream) /\ emitted > 0
  BY <1>3, BackgroundFacts DEF PhotonInv, CodeOK, RunOK
<1>6. /\ HoldsOK(holds', elided')
      /\ pc' # 0 => pc' \in 1 .. Len(code) /\ Good(code[pc'], t[pc'], holds', elided')
  BY <1>4, <1>5, RunStep
<1>7. CodeOK'
  <2>1. Base(code, emitted + 1)'
    BY <1>1, SameBase DEF PhotonInv, CodeOK
  <2>2. (StoreKnown([code |-> code, stored |-> stored]))'
    BY <1>1 DEF PhotonInv, CodeOK, StoreKnown, Keep, Item, Reg, Slot
  <2>3. QED
    BY <1>1, <2>1, <2>2 DEF PhotonInv, CodeOK, Allocated
<1>8. RunOK'
  <2>1. HoldsOK(holds, elided)'
    BY <1>6 DEF HoldsOK
  <2>2. CASE pc' = 0
    BY <2>1, <2>2 DEF RunOK
  <2>3. CASE pc' # 0
    <3>1. (\E v : Whole(code, v) /\ Good(code[pc], v[pc], holds, elided))'
      BY <1>1, <1>4, <1>6, <2>3, SameRun
    <3>2. QED
      BY <1>1, <1>5, <1>6, <2>1, <2>3, <3>1 DEF RunOK
  <2>4. QED
    BY <2>2, <2>3
<1>9. QED
  BY <1>7, <1>8

\* The allocator is done before the first instruction is emitted.
LEMMA AllocateKeeps == PhotonInv /\ Allocate /\ UNCHANGED emitterVars => CodeOK' /\ RunOK'
<1> SUFFICES ASSUME PhotonInv, Allocate, UNCHANGED emitterVars PROVE CodeOK' /\ RunOK'
  OBVIOUS
<1>1. UNCHANGED <<emitted, code, stored, pc, holds, elided>>
  BY DEF emitterVars
<1>2. stream' = stream /\ ~ Allocated
  BY AllocatorAssumption DEF Allocate, BuildSpans, TryColorLocal, LeaveUncoloured, Considered,
                             Allocated, Node, AllocatorAssumption
<1>3. stream \in Streams /\ emitted = 0 /\ code = <<>> /\ pc = 0 /\ Len(stream) \in Nat
  <2>1. emitted = 0 /\ stream \in Streams
    BY <1>2 DEF PhotonInv, CodeOK, Background, SpansCover
  <2>2. Len(stream) \in Nat
    BY <2>1, AllocatorAssumption DEF AllocatorAssumption
  <2>3. QED
    BY <2>1, <2>2 DEF PhotonInv, CodeOK, RunOK
<1>4. CodeOK'
  <2>1. (Base(code, emitted + 1))'
    <3>1. Base(<<>>, 1)'
      BY <1>2, <1>3, EmptyBase
    <3>2. code' = <<>> /\ emitted' + 1 = 1
      BY <1>1, <1>3
    <3>3. QED
      BY <3>1, <3>2
  <2>2. (StoreKnown([code |-> code, stored |-> stored]))'
    BY <1>1 DEF PhotonInv, CodeOK, StoreKnown, Keep, Item, Reg, Slot
  <2>3. QED
    BY <1>1, <1>2, <1>3, <2>1, <2>2 DEF CodeOK
<1>5. RunOK'
  BY <1>1, <1>3 DEF PhotonInv, RunOK, HoldsOK
<1>6. QED
  BY <1>4, <1>5

\* The allocator does not see the emitter.
LEMMA AllocatesOrNot == [PhotonNext]_photonVars => [Allocate]_allocatorVars
  BY DEF PhotonNext, photonVars, EmitNext, Run, RunMove, RunUse, RunDefine, RunAlias, RunElided,
         RunCall, RunLabel, RunJmp, RunJcc, RunRet, Running, Goto

\* So that what it promises alone holds here.
LEMMA AllocatesAlone == PhotonSpec => AllocatorSpec
<1>1. PhotonInit => AllocatorInit
  BY DEF PhotonInit
<1>2. QED
  BY <1>1, AllocatesOrNot, PTL DEF PhotonSpec, AllocatorSpec

\* Allocation, emission and run keep to the invariant.
LEMMA PhotonInvariance == PhotonSpec => []PhotonInv
<1>1. PhotonInit => CodeOK /\ RunOK
  <2> SUFFICES ASSUME PhotonInit PROVE CodeOK /\ RunOK
    OBVIOUS
  <2>1. emitted = 0 /\ code = <<>> /\ stored = NoStore /\ pc = 0 /\ stream \in Streams
        /\ holds = [l \in Location |-> {}] /\ elided = {}
    BY DEF PhotonInit, AllocatorInit, EmitterInit
  <2>2. Len(stream) \in Nat
    BY <2>1, AllocatorAssumption DEF AllocatorAssumption
  <2>3. Base(code, emitted + 1)
    BY <2>1, EmptyBase
  <2>4. CodeOK
    BY <2>1, <2>2, <2>3 DEF CodeOK, StoreKnown
  <2>5. RunOK
    BY <2>1 DEF RunOK, HoldsOK
  <2>6. QED
    BY <2>4, <2>5
<1>2. PhotonSpec => []Background
  BY InOrder, NoSharing, OnlyLocals, SpansAreWide, AllocatesAlone, PTL DEF Background
<1>3. PhotonInv /\ [PhotonNext]_photonVars => CodeOK' /\ RunOK'
  <2> SUFFICES ASSUME PhotonInv, [PhotonNext]_photonVars PROVE CodeOK' /\ RunOK'
    OBVIOUS
  <2>1. CASE UNCHANGED photonVars
    <3>1. UNCHANGED <<stream, spans, node, colour, emitted, code, stored, pc, holds, elided>>
      BY <2>1 DEF photonVars, allocatorVars, emitterVars
    <3>2. Base(code, emitted + 1)'
      BY <3>1, SameBase DEF PhotonInv, CodeOK
    <3>3. (StoreKnown([code |-> code, stored |-> stored]))'
      BY <3>1 DEF PhotonInv, CodeOK, StoreKnown, Keep, Item, Reg, Slot
    <3>4. CodeOK'
      BY <3>1, <3>2, <3>3 DEF PhotonInv, CodeOK, Allocated
    <3>5. HoldsOK(holds, elided)'
      BY <3>1 DEF PhotonInv, RunOK, HoldsOK
    <3>6. CASE pc = 0
      BY <3>1, <3>4, <3>5, <3>6 DEF RunOK
    <3>7. CASE pc # 0
      <4>1. PICK t : Whole(code, t) /\ Good(code[pc], t[pc], holds, elided)
        BY <3>7 DEF PhotonInv, RunOK
      <4>2. (\E v : Whole(code, v) /\ Good(code[pc], v[pc], holds, elided))'
        BY <3>1, <4>1, SameRun
      <4>3. QED
        BY <3>1, <3>4, <3>5, <3>7, <4>2 DEF PhotonInv, RunOK
    <3>8. QED
      BY <3>4, <3>6, <3>7
  <2>2. QED
    BY <2>1, EmitKeeps, RunKeeps, AllocateKeeps DEF PhotonNext
<1>4. QED
  BY <1>1, <1>2, <1>3, PTL DEF PhotonSpec, PhotonInv

\* The read that runs next, if it is one, fits its instruction.
LEMMA ReadingFits ==
    ASSUME PhotonInv, Reading
    PROVE  \E t : /\ Allotted /\ Good(code[pc], t[pc], holds, elided)
                  /\ t[pc].at \in DOMAIN stream
                  /\ \E n \in Reads(stream[t[pc].at]), r \in Register :
                        /\ code[pc] = Use(n, r) /\ code[pc].node = n /\ code[pc].from = Reg(r)
                        /\ InRegister(n) => r = colour[n]
<1>1. code \in Seq(Items)
  BY BaseIsCode DEF PhotonInv, CodeOK
<1>2. pc # 0
  BY <1>1 DEF Reading
<1>3. PICK t : Whole(code, t) /\ Good(code[pc], t[pc], holds, elided)
  BY <1>2 DEF PhotonInv, RunOK
<1>4. Allotted /\ pc \in 1 .. Len(code)
  BY <1>2, BackgroundFacts DEF PhotonInv, CodeOK, RunOK
<1>5. Fit(code[pc], t[pc])
  BY <1>3, <1>4 DEF Whole, MayFollow, Chain
<1>6. FitRead(code[pc], stream[t[pc].at], t[pc].elide)
  BY <1>5, UseFits DEF Reading
<1>7. PICK n \in Reads(stream[t[pc].at]), r \in Register :
           code[pc] = Use(n, r) /\ (InRegister(n) => r = colour[n])
  BY <1>6 DEF FitRead
<1>8. code[pc].node = n /\ code[pc].from = Reg(r)
  BY <1>7, UseOnce
<1>9. QED
  BY <1>3, <1>4, <1>5, <1>7, <1>8 DEF Fit

\* What RegisterAllocator.aura and X86Emitter.aura owe each other: whatever runs,
\* around any loop and through any call, finds a value that was given a register
\* there whenever it is read.
THEOREM RegistersAreKept == PhotonSpec => []RegistersKeep
<1>1. PhotonInv => RegistersKeep
  <2> SUFFICES ASSUME PhotonInv, Reading, InRegister(code[pc].node) PROVE Finds
    BY DEF RegistersKeep
  <2>1. PICK t : /\ Allotted /\ Good(code[pc], t[pc], holds, elided)
                 /\ t[pc].at \in DOMAIN stream
                 /\ \E n \in Reads(stream[t[pc].at]), r \in Register :
                       /\ code[pc] = Use(n, r) /\ code[pc].node = n /\ code[pc].from = Reg(r)
                       /\ InRegister(n) => r = colour[n]
    BY ReadingFits
  <2>2. PICK n \in Reads(stream[t[pc].at]), r \in Register :
               /\ code[pc] = Use(n, r) /\ code[pc].node = n /\ code[pc].from = Reg(r)
               /\ InRegister(n) => r = colour[n]
    BY <2>1
  <2>3. n \in Node /\ Within(n, t[pc].at)
    BY <2>1, AliveThere
  <2>4. n \in Known[stream][t[pc].at]
    BY <2>1, StreamFacts DEF Allotted, NeverTooEarly
  <2>5. \A q : code[pc] # Copy(colour[n], q)
    BY <2>2, UseOnce
  <2>6. InPlace(code[pc], t[pc].at, holds)
    BY <2>1 DEF Good
  <2>7. n \in holds[Reg(colour[n])]
    BY <2>2, <2>3, <2>4, <2>5, <2>6 DEF InPlace
  <2>8. QED
    BY <2>2, <2>7 DEF Finds
<1>2. QED
  BY <1>1, PhotonInvariance, PTL

\* X86Emitter.storeDstReg, loadDstReg: a value without a register is in its slot
\* whenever it is read, unless its store was taken back.
THEOREM SlotsAreKept == PhotonSpec => []SlotsKeep
<1>1. PhotonInv => SlotsKeep
  <2> SUFFICES ASSUME PhotonInv, Reading, ~ InRegister(code[pc].node), code[pc].node \notin elided
               PROVE  Finds
    BY DEF SlotsKeep
  <2>1. PICK t : /\ Allotted /\ Good(code[pc], t[pc], holds, elided)
                 /\ t[pc].at \in DOMAIN stream
                 /\ \E n \in Reads(stream[t[pc].at]), r \in Register :
                       /\ code[pc] = Use(n, r) /\ code[pc].node = n /\ code[pc].from = Reg(r)
                       /\ InRegister(n) => r = colour[n]
    BY ReadingFits
  <2>2. PICK n \in Reads(stream[t[pc].at]), r \in Register :
               code[pc] = Use(n, r) /\ code[pc].node = n /\ code[pc].from = Reg(r)
    BY <2>1
  <2>3. n \in holds[Reg(r)] \cup elided
    BY <2>1, <2>2 DEF Good, AtHand
  <2>4. QED
    BY <2>2, <2>3 DEF Finds
<1>2. QED
  BY <1>1, PhotonInvariance, PTL

\* The allocator's and the emitter's state have their types; the run never leaves
\* the code.
THEOREM EmitterTypes == PhotonSpec => [](AllocatorTypeOK /\ EmitterTypeOK)
<1>1. PhotonInv => EmitterTypeOK
  <2> SUFFICES ASSUME PhotonInv PROVE EmitterTypeOK
    OBVIOUS
  <2>1. Len(code) \in Nat
    BY BaseIsCode DEF PhotonInv, CodeOK
  <2>2. QED
    BY <2>1 DEF PhotonInv, CodeOK, RunOK, HoldsOK, EmitterTypeOK
<1>2. PhotonInit => AllocatorTypeOK
  BY AllocatorAssumption DEF PhotonInit, AllocatorInit, AllocatorTypeOK, AllocatorAssumption, NoSpan
<1>3. PhotonInv /\ PhotonInv' /\ AllocatorTypeOK /\ [PhotonNext]_photonVars => AllocatorTypeOK'
  <2> SUFFICES ASSUME PhotonInv, PhotonInv', AllocatorTypeOK, [Allocate]_allocatorVars
               PROVE  AllocatorTypeOK'
    BY AllocatesOrNot
  <2>1. stream' = stream /\ node' \in 0 .. NodeCount + 1
    BY AllocatorAssumption DEF Allocate, BuildSpans, TryColorLocal, LeaveUncoloured, Considered,
                               AllocatorTypeOK, allocatorVars, AllocatorAssumption, Node
  <2>2. colour' \in [Node -> Range(Colours) \cup {NoColour}]
    BY DEF PhotonInv, Background, Untouched
  <2>3. spans' \in [Node -> [first : Nat, last : Nat]]
    <3>1. CASE BuildSpans
      BY <3>1 DEF BuildSpans, PhotonInv, Background, SpansCover, Span
    <3>2. CASE spans' = spans
      BY <3>2 DEF AllocatorTypeOK
    <3>3. QED
      BY <3>1, <3>2 DEF Allocate, TryColorLocal, LeaveUncoloured, Considered, allocatorVars
  <2>4. QED
    BY <2>1, <2>2, <2>3 DEF AllocatorTypeOK
<1>4. QED
  BY <1>1, <1>2, <1>3, PhotonInvariance, PTL DEF PhotonSpec

-----------------------------------------------------------------------------
(***************************************************************************)
(* The package manager: what a lock file keeps, and what the cache has of  *)
(* it.                                                                     *)
(***************************************************************************)
AuthorTypes ==
    /\ head \in [Package -> 1 .. MaxCommits] /\ version \in [Package -> Version]
    /\ tags \in [Package -> SUBSET [version : Version, commit : 1 .. MaxCommits,
                                    pushed : BOOLEAN]]
    /\ \A n \in Package : version[n] <= head[n]

CacheTypes ==
    /\ latest \in [Package -> {0} \cup Version]
    /\ dirs \in [Package \X Version -> {NoDir, Begun, Plain} \cup 1 .. MaxCommits]
    /\ installed \cup undone \subseteq Package \X Version
    /\ cleared \in BOOLEAN

ManagerTypes ==
    /\ lock \in [Project -> Seq(Entry)] /\ built \in [Project -> Seq(Entry)]
    /\ todo \in [Project -> Seq(Dependency)]
    /\ command \in [Project -> {"none", "install", "update", "updateAll"}]
    /\ stage \in [Project -> {"idle", "next", "describe", "tag", "fetch", "clone", "cloning",
                             "mark", "write"}]
    /\ found \in [Project -> Entry \cup {NoEntry}]

Resolved == {"tag", "fetch", "clone", "cloning", "mark"}

\* The dependency in hand has a version, or none yet; git clones only from a
\* repository.
InHand(p) ==
    /\ stage[p] = "idle" <=> command[p] = "none"
    /\ stage[p] \in Resolved =>
          /\ found[p] \in Entry /\ found[p].version \in Version /\ todo[p] # <<>>
          /\ stage[p] \in {"clone", "cloning"} => found[p].source = "git"
    /\ stage[p] = "describe" => todo[p] # <<>>

\* The entries in the making: install has those of the lock file in front;
\* update has, of the packages locked, the entries that were found.
KeepsLock(p) ==
    /\ command[p] = "install" =>
          /\ Len(lock[p]) <= Len(built[p])
          /\ \A i \in 1 .. Len(lock[p]) : built[p][i] = lock[p][i]
    /\ command[p] = "update" =>
          /\ \A i \in 1 .. Len(built[p]) :
                Locked(lock[p], built[p][i].name) =>
                    built[p][i] = Find(lock[p], built[p][i].name)
          /\ stage[p] \in Resolved => ~Locked(lock[p], found[p].name)
          /\ stage[p] = "describe" => ~Locked(lock[p], Wanted(p).name)

\* An entry's package is in a cache, at the commit of the entry; or it is from
\* a path and its mark went with a clone.
CachedIn(marks, gone, clones, e) ==
    /\ <<e.name, e.version>> \in marks \cup gone
    /\ e.source = "git" => /\ <<e.name, e.version>> \in marks
                          /\ e.rev > 0 /\ clones[<<e.name, e.version>>] = e.rev

AllCachedIn(marks, gone, clones, s) ==
    \A i \in 1 .. Len(s) : CachedIn(marks, gone, clones, s[i])

(***************************************************************************)
(* The directory a clone is made in was begun by this manager.  Until the  *)
(* cache is cleared, what is locked, what will be, and what was fetched    *)
(* are in it.                                                              *)
(***************************************************************************)
InCache(p) ==
    /\ stage[p] = "cloning" => dirs[Dir(p)] = Begun
    /\ ~cleared =>
          /\ AllCachedIn(installed, undone, dirs, lock[p])
          /\ AllCachedIn(installed, undone, dirs, built[p])
          /\ stage[p] = "mark" /\ found[p].source = "git" =>
                found[p].rev > 0 /\ dirs[Dir(p)] = found[p].rev

\* No two managers clone into one directory.
ClonesApart ==
    \A p, q \in Project :
        stage[p] = "cloning" /\ stage[q] = "cloning" /\ p # q => Dir(p) # Dir(q)

PackagesInv ==
    /\ AuthorTypes /\ CacheTypes /\ ManagerTypes
    /\ \A p \in Project : InHand(p) /\ KeepsLock(p) /\ InCache(p)
    /\ ClonesApart

-----------------------------------------------------------------------------
\* The first entry of a name.

\* A set of numbers that is not empty has a least one.
LEMMA LeastNumber ==
    ASSUME NEW S, S \subseteq Nat, S # {}
    PROVE  \E x \in S : \A y \in S : x <= y
<1>1. PICK x \in S : \A y \in S : ~ (<<y, x>> \in OpToRel(<, Nat))
  BY NatLessThanWellFounded, WFMin
<1>2. ASSUME NEW y \in S PROVE x <= y
  <2>1. <<y, x>> \notin OpToRel(<, Nat)
    BY <1>1
  <2>2. <<y, x>> \in Nat \X Nat
    OBVIOUS
  <2>3. ~ (y < x)
    BY <2>1, <2>2 DEF OpToRel
  <2>4. QED
    BY <2>3
<1>3. QED
  BY <1>2

\* Find gives the first entry of the name.
LEMMA FindFirst ==
    ASSUME NEW s \in Seq(Entry), NEW n, Locked(s, n)
    PROVE  \E i \in 1 .. Len(s) :
               /\ Find(s, n) = s[i] /\ s[i].name = n
               /\ \A j \in 1 .. i - 1 : s[j].name # n
<1> DEFINE I == {i \in 1 .. Len(s) : s[i].name = n}
<1>1. I \subseteq Nat /\ I # {}
  BY DEF Locked
<1>2. PICK i \in I : \A j \in I : i <= j
  <2> HIDE DEF I
  <2>1. QED
    BY <1>1, LeastNumber
<1>3. Min(I) \in I /\ \A j \in I : Min(I) <= j
  <2> HIDE DEF I
  <2>1. QED
    BY <1>2 DEF Min
<1>4. LockFind(s, n) = Min(I)
  BY <1>1 DEF LockFind, SelectInSeq
<1>5. Find(s, n) = s[Min(I)]
  BY <1>4 DEF Find
<1>6. \A j \in 1 .. Min(I) - 1 : s[j].name # n
  BY <1>3
<1>7. QED
  BY <1>3, <1>5, <1>6

\* More entries at the end change nothing that is found.
LEMMA FindExtended ==
    ASSUME NEW s \in Seq(Entry), NEW t \in Seq(Entry), NEW n, Locked(s, n),
           Len(s) <= Len(t), \A i \in 1 .. Len(s) : t[i] = s[i]
    PROVE  Find(t, n) = Find(s, n)
<1>1. PICK i \in 1 .. Len(s) :
          /\ Find(s, n) = s[i] /\ s[i].name = n
          /\ \A j \in 1 .. i - 1 : s[j].name # n
  BY FindFirst
<1>2. i \in 1 .. Len(t) /\ t[i].name = n
  BY <1>1
<1>3. Locked(t, n)
  BY <1>2 DEF Locked
<1>4. PICK k \in 1 .. Len(t) :
          /\ Find(t, n) = t[k] /\ t[k].name = n
          /\ \A j \in 1 .. k - 1 : t[j].name # n
  BY <1>3, FindFirst
<1>5. ~ (k < i)
  BY <1>1, <1>4
<1>6. ~ (i < k)
  BY <1>2, <1>4
<1>7. i = k
  BY <1>5, <1>6
<1>8. QED
  BY <1>1, <1>4, <1>7

-----------------------------------------------------------------------------
\* Nothing is locked at the start.
LEMMA PackagesInvInit == PackagesInit => PackagesInv
<1> SUFFICES ASSUME PackagesInit PROVE PackagesInv
  OBVIOUS
<1>1. 1 \in 1 .. MaxCommits
  BY PackagesAssumption DEF PackagesAssumption
<1>2. AuthorTypes
  BY <1>1 DEF PackagesInit, AuthorTypes, Version
<1>3. CacheTypes
  BY DEF PackagesInit, CacheTypes
<1>4. ManagerTypes
  BY DEF PackagesInit, ManagerTypes
<1>5. ASSUME NEW p \in Project
      PROVE  InHand(p) /\ KeepsLock(p) /\ InCache(p)
  BY DEF PackagesInit, InHand, KeepsLock, InCache, AllCachedIn, Resolved
<1>6. ClonesApart
  BY DEF PackagesInit, ClonesApart
<1>7. QED
  BY <1>2, <1>3, <1>4, <1>5, <1>6 DEF PackagesInv

\* The author's steps touch nothing else.
LEMMA AuthorStep ==
    ASSUME PackagesInv, NEW n \in Package, Commit(n) \/ Publish(n)
    PROVE  PackagesInv'
<1>1. UNCHANGED <<cache, files, manager>>
  BY DEF Commit, Publish
<1>2. AuthorTypes'
  <2>1. CASE Commit(n)
    <3>1. PICK v \in {version[n], version[n] + 1} :
              version' = [version EXCEPT ![n] = v]
      BY <2>1 DEF Commit
    <3>2. /\ head' = [head EXCEPT ![n] = @ + 1] /\ head[n] < MaxCommits /\ tags' = tags
      BY <2>1 DEF Commit
    <3>3. MaxCommits \in Nat
      BY PackagesAssumption DEF PackagesAssumption
    <3>4. head[n] + 1 \in 1 .. MaxCommits /\ v \in Version /\ v <= head[n] + 1
      BY <3>1, <3>2, <3>3 DEF PackagesInv, AuthorTypes, Version
    <3>5. head' \in [Package -> 1 .. MaxCommits] /\ version' \in [Package -> Version]
      BY <3>1, <3>2, <3>4 DEF PackagesInv, AuthorTypes
    <3>6. \A m \in Package : version'[m] <= head'[m]
      BY <3>1, <3>2, <3>4 DEF PackagesInv, AuthorTypes
    <3>7. QED
      BY <3>2, <3>5, <3>6 DEF PackagesInv, AuthorTypes
  <2>2. CASE Publish(n)
    BY <2>2 DEF Publish, PackagesInv, AuthorTypes
  <2>3. QED
    BY <2>1, <2>2
<1>3. CacheTypes' /\ ManagerTypes'
  BY <1>1 DEF PackagesInv, cache, files, manager, CacheTypes, ManagerTypes
<1>4. ASSUME NEW p \in Project
      PROVE  InHand(p)' /\ KeepsLock(p)' /\ InCache(p)'
  BY <1>1 DEF PackagesInv, cache, files, manager, InHand, KeepsLock, InCache, Dir, Wanted
<1>5. ClonesApart'
  BY <1>1 DEF PackagesInv, manager, ClonesApart, Dir
<1>6. QED
  BY <1>2, <1>3, <1>4, <1>5 DEF PackagesInv

\* The cache is cleared.
LEMMA ClearStep == ASSUME PackagesInv, Clear PROVE PackagesInv'
<1>1. /\ UNCHANGED <<author, latest, files, manager>> /\ cleared' = TRUE
      /\ dirs' = [d \in DOMAIN dirs |-> NoDir] /\ installed' = {}
      /\ undone' = undone /\ \A p \in Project : stage[p] # "cloning"
  BY DEF Clear
<1>2. AuthorTypes' /\ ManagerTypes'
  BY <1>1 DEF PackagesInv, author, files, manager, AuthorTypes, ManagerTypes
<1>3. CacheTypes'
  BY <1>1 DEF PackagesInv, CacheTypes
<1>4. QED
  BY <1>1, <1>2, <1>3 DEF PackagesInv, files, manager, InHand, KeepsLock, InCache, ClonesApart, Wanted

-----------------------------------------------------------------------------
\* The other managers' state.
Others(p) ==
    \A q \in Project \ {p} :
        /\ lock'[q] = lock[q] /\ command'[q] = command[q] /\ stage'[q] = stage[q]
        /\ todo'[q] = todo[q] /\ built'[q] = built[q] /\ found'[q] = found[q]

\* The clones in the cache stay there with their marks, no mark goes but with a
\* clone that failed, and the directories other managers are cloning into stay
\* begun.
CacheStays(p) ==
    /\ cleared' = cleared /\ installed \cup undone \subseteq installed' \cup undone'
    /\ \A d \in Package \X Version :
          /\ dirs[d] > 0 => dirs'[d] = dirs[d] /\ (d \in installed => d \in installed')
          /\ dirs[d] = Begun => dirs'[d] = Begun \/ (stage[p] = "cloning" /\ d = Dir(p))

\* What is in the cache stays there in such a step.
LEMMA CachedStays ==
    ASSUME CacheTypes, NEW p \in Project, CacheStays(p), NEW s,
           AllCachedIn(installed, undone, dirs, s)
    PROVE  AllCachedIn(installed', undone', dirs', s)
<1> SUFFICES ASSUME NEW i \in 1 .. Len(s) PROVE CachedIn(installed', undone', dirs', s[i])
  BY DEF AllCachedIn
<1> DEFINE e == s[i]
<1> HIDE DEF e
<1>1. CachedIn(installed, undone, dirs, e)
  BY DEF AllCachedIn, e
<1>2. /\ <<e.name, e.version>> \in installed \cup undone
      /\ <<e.name, e.version>> \in Package \X Version
  BY <1>1 DEF CachedIn, CacheTypes
<1>3. e.source = "git" => /\ <<e.name, e.version>> \in installed'
                          /\ e.rev > 0 /\ dirs'[<<e.name, e.version>>] = e.rev
  BY <1>1, <1>2 DEF CachedIn, CacheStays
<1>4. QED
  BY <1>2, <1>3 DEF CachedIn, CacheStays, e

\* A step of p's manager keeps the invariant if p's part of it holds then.
LEMMA OneManager ==
    ASSUME PackagesInv, NEW p \in Project, UNCHANGED author, Others(p), CacheStays(p),
           CacheTypes', ManagerTypes', InHand(p)', KeepsLock(p)', InCache(p)',
           stage'[p] = "cloning" => dirs[Dir(p)'] # Begun
    PROVE  PackagesInv'
<1>1. AuthorTypes'
  BY DEF PackagesInv, AuthorTypes, author
<1>2. ASSUME NEW q \in Project \ {p}
      PROVE  InHand(q)' /\ KeepsLock(q)' /\ InCache(q)'
  <2>1. /\ lock'[q] = lock[q] /\ command'[q] = command[q] /\ stage'[q] = stage[q]
        /\ todo'[q] = todo[q] /\ built'[q] = built[q] /\ found'[q] = found[q]
    BY <1>2 DEF Others
  <2>2. InHand(q)' /\ KeepsLock(q)'
    BY <2>1 DEF PackagesInv, InHand, KeepsLock, Wanted
  <2>3. stage'[q] = "cloning" => dirs'[Dir(q)'] = Begun
    <3>1. SUFFICES ASSUME stage[q] = "cloning" PROVE dirs'[Dir(q)] = Begun
      BY <2>1 DEF Dir
    <3>2. dirs[Dir(q)] = Begun /\ Dir(q) \in Package \X Version
      BY <3>1 DEF PackagesInv, InHand, Resolved, InCache, Dir, Entry
    <3>3. ~(stage[p] = "cloning" /\ Dir(q) = Dir(p))
      BY <3>1 DEF PackagesInv, ClonesApart
    <3>4. QED
      BY <3>2, <3>3 DEF CacheStays
  <2>4. ASSUME ~cleared
        PROVE  /\ AllCachedIn(installed', undone', dirs', lock'[q])
               /\ AllCachedIn(installed', undone', dirs', built'[q])
    <3>1. AllCachedIn(installed, undone, dirs, lock[q]) /\ AllCachedIn(installed, undone, dirs, built[q])
      BY <2>4 DEF PackagesInv, InCache
    <3>2. QED
      BY <2>1, <3>1, CachedStays DEF PackagesInv
  <2>5. ASSUME ~cleared, stage'[q] = "mark", found'[q].source = "git"
        PROVE  found'[q].rev > 0 /\ dirs'[Dir(q)'] = found'[q].rev
    <3>1. found[q].rev > 0 /\ dirs[Dir(q)] = found[q].rev /\ Dir(q) \in Package \X Version
      BY <2>1, <2>5 DEF PackagesInv, InCache, InHand, Resolved, Dir, Entry
    <3>2. dirs'[Dir(q)] = found[q].rev
      BY <3>1 DEF CacheStays
    <3>3. QED
      BY <2>1, <3>1, <3>2 DEF Dir
  <2>6. InCache(q)'
    BY <2>3, <2>4, <2>5 DEF InCache, CacheStays
  <2>7. QED
    BY <2>2, <2>6
<1>3. ClonesApart'
  <2> SUFFICES ASSUME NEW q \in Project, NEW r \in Project, q # r,
                      stage'[q] = "cloning", stage'[r] = "cloning"
               PROVE  Dir(q)' # Dir(r)'
    BY DEF ClonesApart
  <2>1. ASSUME NEW x \in Project \ {p}, stage'[x] = "cloning"
        PROVE  Dir(x)' = Dir(x) /\ dirs[Dir(x)'] = Begun /\ stage[x] = "cloning"
    BY <2>1 DEF PackagesInv, InCache, Others, Dir
  <2>2. CASE q = p
    BY <2>1, <2>2
  <2>3. CASE r = p
    BY <2>1, <2>3
  <2>4. CASE q # p /\ r # p
    BY <2>1, <2>4 DEF PackagesInv, ClonesApart
  <2>5. QED
    BY <2>2, <2>3, <2>4
<1>4. QED
  BY <1>1, <1>2, <1>3 DEF PackagesInv

\* A call begins.
LEMMA StartStep == ASSUME PackagesInv, NEW p \in Project, Install(p) \/ Update(p) PROVE PackagesInv'
<1>1. PICK what \in {"install", "update", "updateAll"}, deps \in Seq(Dependency),
           entries \in {lock[p], <<>>} :
          /\ StartWith(p, what, deps, entries)
          /\ what = "install" => entries = lock[p]
          /\ what # "install" => entries = <<>>
  BY PackagesAssumption DEF PackagesAssumption, Install, Update
<1>2. /\ command' = [command EXCEPT ![p] = what] /\ todo' = [todo EXCEPT ![p] = deps]
      /\ built' = [built EXCEPT ![p] = entries] /\ stage' = [stage EXCEPT ![p] = "next"]
      /\ UNCHANGED <<head, version, tags, latest, dirs, installed, cleared, undone, lock, found>>
  BY <1>1 DEF StartWith, PkgGoto, author, cache, files
<1>3. lock[p] \in Seq(Entry) /\ entries \in Seq(Entry)
  BY <1>1, EmptySeq DEF PackagesInv, ManagerTypes
<1>4. CacheTypes' /\ ManagerTypes'
  BY <1>2, <1>3 DEF PackagesInv, CacheTypes, ManagerTypes
<1>5. /\ command'[p] = what /\ stage'[p] = "next" /\ built'[p] = entries /\ lock'[p] = lock[p]
  BY <1>2 DEF PackagesInv, ManagerTypes
<1>6. Others(p) /\ CacheStays(p)
  BY <1>2 DEF PackagesInv, ManagerTypes, Others, CacheStays
<1>7. InHand(p)' /\ KeepsLock(p)'
  BY <1>1, <1>3, <1>5 DEF InHand, KeepsLock, Resolved
<1>8. InCache(p)'
  <2>1. ~cleared => AllCachedIn(installed, undone, dirs, lock[p])
    BY DEF PackagesInv, InCache
  <2>2. AllCachedIn(installed, undone, dirs, <<>>)
    BY DEF AllCachedIn
  <2>3. QED
    BY <1>1, <1>2, <1>5, <2>1, <2>2 DEF InCache
<1>9. QED
  BY <1>2, <1>4, <1>5, <1>6, <1>7, <1>8, OneManager DEF author

\* A call ends, with its lock file (entries) or what there was before.
LEMMA EndStep ==
    ASSUME PackagesInv, NEW p \in Project, CallEnds(p), UNCHANGED author,
           lock' \in {lock, [lock EXCEPT ![p] = built[p]]},
           CacheStays(p), CacheTypes'
    PROVE  PackagesInv'
<1>1. /\ command' = [command EXCEPT ![p] = "none"] /\ stage' = [stage EXCEPT ![p] = "idle"]
      /\ todo' = [todo EXCEPT ![p] = <<>>] /\ built' = [built EXCEPT ![p] = <<>>]
      /\ found' = [found EXCEPT ![p] = NoEntry]
  BY DEF CallEnds, PkgGoto
<1>2. ManagerTypes'
  <2>1. lock' \in [Project -> Seq(Entry)]
    BY DEF PackagesInv, ManagerTypes
  <2>2. built' \in [Project -> Seq(Entry)] /\ todo' \in [Project -> Seq(Dependency)]
    BY <1>1, EmptySeq DEF PackagesInv, ManagerTypes
  <2>3. QED
    BY <1>1, <2>1, <2>2 DEF PackagesInv, ManagerTypes
<1>3. /\ command'[p] = "none" /\ stage'[p] = "idle" /\ built'[p] = <<>>
      /\ lock'[p] \in {lock[p], built[p]}
  BY <1>1 DEF PackagesInv, ManagerTypes
<1>4. Others(p)
  BY <1>1 DEF PackagesInv, ManagerTypes, Others
<1>5. InHand(p)' /\ KeepsLock(p)'
  BY <1>3 DEF InHand, KeepsLock, Resolved
<1>6. InCache(p)'
  <2>1. ~cleared' => AllCachedIn(installed', undone', dirs', lock[p])
                     /\ AllCachedIn(installed', undone', dirs', built[p])
    BY CachedStays DEF PackagesInv, InCache, CacheStays
  <2>2. AllCachedIn(installed', undone', dirs', <<>>)
    BY DEF AllCachedIn
  <2>3. QED
    BY <1>3, <2>1, <2>2 DEF InCache
<1>7. QED
  BY <1>2, <1>3, <1>4, <1>5, <1>6, OneManager

\* A call is abandoned, or writes its lock file.
LEMMA EndSteps ==
    ASSUME PackagesInv, NEW p \in Project,
           ResolveFails(p) \/ CloneRefused(p) \/ CloneFails(p) \/ Crash(p) \/ WriteLock(p)
    PROVE  PackagesInv'
<1>1. /\ CallEnds(p) /\ UNCHANGED author /\ lock' \in {lock, [lock EXCEPT ![p] = built[p]]}
      /\ cleared' = cleared /\ latest' = latest
      /\ \/ UNCHANGED <<dirs, installed, undone>>
         \/ CloneFails(p)
  BY DEF ResolveFails, CloneRefused, CloneFails, Crash, WriteLock, Abandon, files, cache
<1>2. CASE UNCHANGED <<dirs, installed, undone>>
  <2>1. CacheTypes' /\ CacheStays(p)
    BY <1>1, <1>2 DEF PackagesInv, CacheTypes, CacheStays
  <2>2. QED
    BY <1>1, <2>1, EndStep
<1>3. CASE CloneFails(p)
  <2>1. /\ stage[p] = "cloning" /\ dirs' = [dirs EXCEPT ![Dir(p)] = NoDir]
        /\ installed' = installed \ {Dir(p)}
        /\ undone' = undone \cup (installed \cap {Dir(p)})
    BY <1>3 DEF CloneFails
  <2>2. Dir(p) \in Package \X Version /\ dirs[Dir(p)] = Begun
    BY <2>1 DEF PackagesInv, InHand, Resolved, InCache, Dir, Entry
  <2>3. CacheTypes'
    BY <1>1, <2>1, <2>2 DEF PackagesInv, CacheTypes
  <2>4. CacheStays(p)
    <3>1. installed \cup undone \subseteq installed' \cup undone'
      BY <2>1
    <3>2. ASSUME NEW d \in Package \X Version
          PROVE  /\ dirs[d] > 0 => dirs'[d] = dirs[d] /\ (d \in installed => d \in installed')
                 /\ dirs[d] = Begun => dirs'[d] = Begun \/ (stage[p] = "cloning" /\ d = Dir(p))
      BY <2>1, <2>2 DEF PackagesInv, CacheTypes, Begun
    <3>3. QED
      BY <1>1, <3>1, <3>2 DEF CacheStays
  <2>5. QED
    BY <1>1, <2>3, <2>4, EndStep
<1>4. QED
  BY <1>1, <1>2, <1>3

\* The lock file is truncated, or one that cannot be read is removed.
LEMMA TornStep ==
    ASSUME PackagesInv, NEW p \in Project, TruncateLock(p) \/ RemoveLock(p)
    PROVE  PackagesInv'
<1>1. /\ UNCHANGED <<head, version, tags, latest, dirs, installed, cleared, undone, command,
                     todo, built, found>>
      /\ \/ stage[p] = "next" /\ stage' = [stage EXCEPT ![p] = "write"] /\ lock' = lock
         \/ /\ stage[p] = "idle" /\ lock' = [lock EXCEPT ![p] = <<>>] /\ stage' = stage
            /\ command[p] = "none"
  BY DEF TruncateLock, RemoveLock, PkgGoto, author, cache, manager, PackagesInv, InHand
<1>2. CacheTypes' /\ ManagerTypes'
  <2>1. lock' \in [Project -> Seq(Entry)]
    BY <1>1, EmptySeq DEF PackagesInv, ManagerTypes
  <2>2. QED
    BY <1>1, <2>1 DEF PackagesInv, CacheTypes, ManagerTypes
<1>3. Others(p) /\ CacheStays(p)
  BY <1>1 DEF PackagesInv, ManagerTypes, Others, CacheStays
<1>4. /\ stage'[p] \in {"write", "idle"} /\ lock'[p] \in {lock[p], <<>>}
      /\ stage'[p] = "write" => stage[p] = "next"
      /\ stage'[p] = "idle" <=> stage[p] = "idle"
      /\ lock'[p] = lock[p] \/ command[p] = "none"
  BY <1>1 DEF PackagesInv, ManagerTypes
<1>5. InHand(p)' /\ KeepsLock(p)'
  BY <1>1, <1>4 DEF PackagesInv, InHand, KeepsLock, Resolved
<1>6. InCache(p)'
  <2>1. AllCachedIn(installed, undone, dirs, <<>>)
    BY DEF AllCachedIn
  <2>2. QED
    BY <1>1, <1>4, <2>1 DEF PackagesInv, InCache
<1>7. QED
  BY <1>1, <1>2, <1>3, <1>4, <1>5, <1>6, OneManager DEF author

\* A dependency is done, with an entry that is in the cache, and that is the
\* one that was locked if update has one.
LEMMA DoneStep ==
    ASSUME PackagesInv, NEW p \in Project, NEW e \in Entry, Done(p, e),
           todo[p] # <<>>, stage[p] \in {"next", "mark"},
           stage' = [stage EXCEPT ![p] = "next"],
           UNCHANGED <<author, files, command, found>>, CacheTypes', CacheStays(p),
           command[p] = "update" /\ Locked(lock[p], e.name) => e = Find(lock[p], e.name),
           ~cleared => CachedIn(installed', undone', dirs', e)
    PROVE  PackagesInv'
<1>1. lock[p] \in Seq(Entry) /\ built[p] \in Seq(Entry) /\ todo[p] \in Seq(Dependency)
  BY DEF PackagesInv, ManagerTypes
<1>2. /\ built' = [built EXCEPT ![p] = Append(built[p], e)]
      /\ todo' = [todo EXCEPT ![p] = Tail(todo[p])]
      /\ lock' = lock /\ command' = command /\ found' = found
  BY DEF Done, PushEntry, files
<1>3. PICK b \in Seq(Entry) :
          /\ b = Append(built[p], e) /\ Len(b) = Len(built[p]) + 1 /\ b[Len(b)] = e
          /\ \A i \in 1 .. Len(built[p]) : b[i] = built[p][i]
  <2>1. \A s \in Seq(Entry) :
            LET b == Append(s, e)
            IN  /\ b \in Seq(Entry) /\ Len(b) = Len(s) + 1 /\ b[Len(b)] = e
                /\ \A i \in 1 .. Len(s) : b[i] = s[i]
    BY OneMore
  <2>2. QED
    BY <1>1, <2>1
<1>4. ManagerTypes'
  <2>1. Tail(todo[p]) \in Seq(Dependency)
    BY <1>1
  <2>2. QED
    BY <1>2, <1>3, <2>1 DEF PackagesInv, ManagerTypes
<1>5. stage'[p] = "next" /\ built'[p] = b /\ command'[p] = command[p]
  BY <1>2, <1>3 DEF PackagesInv, ManagerTypes
<1>6. Others(p)
  BY <1>2 DEF PackagesInv, ManagerTypes, Others
<1>7. Len(built[p]) \in Nat /\ Len(lock[p]) \in Nat
  BY <1>1
<1>8. ASSUME NEW i \in 1 .. Len(b)
      PROVE  (i \in 1 .. Len(built[p]) /\ b[i] = built[p][i]) \/ b[i] = e
  BY <1>3, <1>7
<1>9. InHand(p)' /\ KeepsLock(p)'
  <2>1. InHand(p)'
    BY <1>5 DEF PackagesInv, InHand, Resolved
  <2>2. command[p] = "install" =>
            /\ Len(lock[p]) <= Len(b)
            /\ \A i \in 1 .. Len(lock[p]) : b[i] = lock[p][i]
    BY <1>3, <1>7 DEF PackagesInv, KeepsLock
  <2>3. command[p] = "update" =>
            \A i \in 1 .. Len(b) :
                Locked(lock[p], b[i].name) => b[i] = Find(lock[p], b[i].name)
    BY <1>8 DEF PackagesInv, KeepsLock
  <2>4. QED
    BY <1>2, <1>5, <2>1, <2>2, <2>3 DEF KeepsLock, Resolved
<1>10. InCache(p)'
  <2>1. ASSUME ~cleared
        PROVE  AllCachedIn(installed', undone', dirs', lock[p]) /\ AllCachedIn(installed', undone', dirs', b)
    <3>1. AllCachedIn(installed', undone', dirs', lock[p]) /\ AllCachedIn(installed', undone', dirs', built[p])
      BY <2>1, CachedStays DEF PackagesInv, InCache
    <3>2. QED
      BY <1>8, <2>1, <3>1 DEF AllCachedIn
  <2>2. QED
    BY <1>2, <1>5, <2>1 DEF InCache, CacheStays
<1>11. QED
  BY <1>4, <1>5, <1>6, <1>9, <1>10, OneManager

\* update keeps an entry.
LEMMA KeepStep == ASSUME PackagesInv, NEW p \in Project, KeepLocked(p) PROVE PackagesInv'
<1> DEFINE n == Head(todo[p]).name
<1>1. /\ Locked(lock[p], n) /\ command[p] = "update" /\ stage[p] = "next" /\ todo[p] # <<>>
      /\ Done(p, Find(lock[p], n)) /\ stage' = [stage EXCEPT ![p] = "next"]
      /\ UNCHANGED <<author, cache, files, command, found>>
  BY DEF KeepLocked, IsKept, Wanted, PackagesInv, ManagerTypes
<1> HIDE DEF n
<1>2. lock[p] \in Seq(Entry)
  BY DEF PackagesInv, ManagerTypes
<1>3. PICK i \in 1 .. Len(lock[p]) : Find(lock[p], n) = lock[p][i] /\ lock[p][i].name = n
  BY <1>1, <1>2, FindFirst
<1>4. PICK e \in Entry : e = Find(lock[p], n) /\ e.name = n
  BY <1>2, <1>3, ElementOfSeq
<1>5. CacheTypes' /\ CacheStays(p)
  BY <1>1 DEF PackagesInv, CacheTypes, CacheStays, cache
<1>6. ~cleared => CachedIn(installed', undone', dirs', e)
  BY <1>1, <1>3, <1>4 DEF PackagesInv, InCache, AllCachedIn, cache
<1>7. QED
  BY <1>1, <1>4, <1>5, <1>6, DoneStep

\* The package is marked as installed.
LEMMA MarkStep == ASSUME PackagesInv, NEW p \in Project, MarkInstalled(p) PROVE PackagesInv'
<1>1. /\ stage[p] = "mark" /\ todo[p] # <<>> /\ found[p] \in Entry
      /\ Dir(p) \in Package \X Version
  BY DEF MarkInstalled, PackagesInv, InHand, Resolved, Dir, Entry
<1>2. /\ installed' = installed \cup {Dir(p)} /\ undone' = undone \ {Dir(p)}
      /\ cleared' = cleared /\ latest' = latest
      /\ dirs' = [dirs EXCEPT ![Dir(p)] = IF dirs[Dir(p)] = NoDir THEN Plain ELSE dirs[Dir(p)]]
  BY DEF MarkInstalled
<1>3. CacheTypes'
  BY <1>1, <1>2 DEF PackagesInv, CacheTypes
<1>4. CacheStays(p)
  <2>1. installed \cup undone \subseteq installed' \cup undone'
    BY <1>2
  <2>2. QED
    BY <1>1, <1>2, <2>1 DEF PackagesInv, CacheTypes, CacheStays, NoDir, Begun
<1>5. ~cleared => CachedIn(installed', undone', dirs', found[p])
  <2>1. ASSUME ~cleared, found[p].source = "git"
        PROVE  found[p].rev > 0 /\ dirs'[Dir(p)] = found[p].rev
    BY <1>1, <1>4, <2>1 DEF PackagesInv, InCache, CacheStays
  <2>2. Dir(p) \in installed'
    BY <1>2
  <2>3. QED
    BY <2>1, <2>2 DEF CachedIn, Dir
<1>6. command[p] = "update" => ~Locked(lock[p], found[p].name)
  BY <1>1 DEF PackagesInv, KeepsLock, Resolved
<1>7. /\ Done(p, found[p]) /\ stage' = [stage EXCEPT ![p] = "next"]
      /\ UNCHANGED <<author, files, command, found>>
  BY DEF MarkInstalled, PkgGoto
<1>8. QED
  BY <1>1, <1>3, <1>4, <1>5, <1>6, <1>7, DoneStep

\* The manager goes on with the dependency in hand.
LEMMA HandStep ==
    ASSUME PackagesInv, NEW p \in Project, NEW e \in Entry, NEW where \in Resolved,
           UNCHANGED <<author, lock, command, todo, built>>, todo[p] # <<>>,
           stage[p] \in {"next", "describe"} \cup Resolved,
           stage' = [stage EXCEPT ![p] = where], found' = [found EXCEPT ![p] = e],
           e.version \in Version, where \in {"clone", "cloning"} => e.source = "git",
           command[p] = "update" => ~Locked(lock[p], e.name),
           CacheTypes', CacheStays(p),
           where = "cloning" =>
               /\ dirs[<<e.name, e.version>>] # Begun
               /\ dirs'[<<e.name, e.version>>] = Begun,
           where = "mark" /\ e.source = "git" /\ ~cleared =>
               e.rev > 0 /\ dirs'[<<e.name, e.version>>] = e.rev
    PROVE  PackagesInv'
<1>1. ManagerTypes'
  BY DEF PackagesInv, ManagerTypes, Resolved
<1>2. Others(p)
  BY DEF PackagesInv, ManagerTypes, Others
<1>3. stage'[p] = where /\ found'[p] = e /\ command[p] # "none"
  BY DEF PackagesInv, ManagerTypes, InHand, Resolved
<1>4. InHand(p)' /\ KeepsLock(p)'
  BY <1>3 DEF PackagesInv, InHand, KeepsLock, Resolved
<1>5. Dir(p)' = <<e.name, e.version>>
  BY <1>3 DEF Dir
<1>6. InCache(p)'
  <2>1. ~cleared => /\ AllCachedIn(installed', undone', dirs', lock[p])
                    /\ AllCachedIn(installed', undone', dirs', built[p])
    BY CachedStays DEF PackagesInv, InCache
  <2>2. QED
    BY <1>3, <1>5, <2>1 DEF InCache, CacheStays
<1>7. QED
  BY <1>1, <1>2, <1>3, <1>4, <1>5, <1>6, OneManager

\* The version of the dependency in hand is chosen, from "next" or "describe".
LEMMA ChosenStep ==
    ASSUME PackagesInv, NEW p \in Project, NEW v \in Version, Chosen(p, v),
           NEW where \in {"tag", "fetch"}, stage[p] \in {"next", "describe"}, todo[p] # <<>>,
           command[p] = "update" => ~Locked(lock[p], Wanted(p).name),
           stage' = [stage EXCEPT ![p] = where],
           UNCHANGED <<author, cache, lock, command, todo, built>>
    PROVE  PackagesInv'
<1>1. Wanted(p) \in Dependency
  BY DEF Wanted, PackagesInv, ManagerTypes
<1>2. PICK e \in Entry :
          /\ e = [name |-> Wanted(p).name, source |-> Wanted(p).source, version |-> v, rev |-> 0]
          /\ e.version = v /\ e.name = Wanted(p).name
  <2>1. Wanted(p).name \in Package /\ Wanted(p).source \in {"git", "path"}
    BY <1>1 DEF Dependency
  <2>2. [name |-> Wanted(p).name, source |-> Wanted(p).source, version |-> v, rev |-> 0] \in Entry
    BY <2>1 DEF Entry
  <2>3. QED
    BY <2>2
<1>3. found' = [found EXCEPT ![p] = e]
  BY <1>2 DEF Chosen
<1>4. CacheTypes' /\ CacheStays(p)
  BY DEF PackagesInv, CacheTypes, CacheStays, cache
<1>5. where \in Resolved
  BY DEF Resolved
<1>6. QED
  BY <1>2, <1>3, <1>4, <1>5, HandStep

\* The version is a directory's, the cached tag, or git will have to tell it.
LEMMA ResolveStep == ASSUME PackagesInv, NEW p \in Project, Resolve(p) PROVE PackagesInv'
<1>1. /\ stage[p] = "next" /\ todo[p] # <<>> /\ ~IsKept(p, Wanted(p))
      /\ UNCHANGED <<author, cache, lock, command, todo, built>>
  BY DEF Resolve, files
<1>2. Wanted(p) \in Dependency
  BY <1>1 DEF Wanted, PackagesInv, ManagerTypes
<1>3. Wanted(p).name \in Package
  BY <1>2 DEF Dependency
<1>4. command[p] = "update" => ~Locked(lock[p], Wanted(p).name)
  BY <1>1 DEF IsKept
<1>5. ASSUME NEW v \in Version, Chosen(p, v), PkgGoto(p, "fetch") PROVE PackagesInv'
  BY <1>1, <1>4, <1>5, ChosenStep DEF PkgGoto
<1>6. CASE stage' = [stage EXCEPT ![p] = "describe"] /\ found' = found
  <2>1. ManagerTypes' /\ CacheTypes' /\ Others(p) /\ CacheStays(p)
    BY <1>1, <1>6 DEF PackagesInv, ManagerTypes, CacheTypes, Others, CacheStays, cache
  <2>2. stage'[p] = "describe" /\ command[p] # "none"
    BY <1>1, <1>6 DEF PackagesInv, ManagerTypes, InHand
  <2>3. InHand(p)' /\ KeepsLock(p)'
    BY <1>1, <1>4, <2>2 DEF PackagesInv, InHand, KeepsLock, Resolved, Wanted
  <2>4. InCache(p)'
    BY <1>1, <2>2 DEF PackagesInv, InCache, cache
  <2>5. QED
    BY <1>1, <2>1, <2>2, <2>3, <2>4, OneManager
<1>7. version[Wanted(p).name] \in Version /\ latest[Wanted(p).name] \in {0} \cup Version
  BY <1>3 DEF PackagesInv, AuthorTypes, CacheTypes
<1>8. QED
  BY <1>5, <1>6, <1>7 DEF Resolve, PkgGoto

\* git tells the version.
LEMMA DescribeStep == ASSUME PackagesInv, NEW p \in Project, Describe(p) PROVE PackagesInv'
<1>1. /\ stage[p] = "describe" /\ stage' = [stage EXCEPT ![p] = "tag"]
      /\ UNCHANGED <<author, cache, lock, command, todo, built>>
  BY DEF Describe, PkgGoto, files
<1>2. todo[p] # <<>> /\ (command[p] = "update" => ~Locked(lock[p], Wanted(p).name))
  BY <1>1 DEF PackagesInv, InHand, KeepsLock
<1>3. Wanted(p) \in Dependency
  BY <1>2 DEF Wanted, PackagesInv, ManagerTypes
<1>4. Wanted(p).name \in Package
  BY <1>3 DEF Dependency
<1>5. PICK v \in HeadTags(Wanted(p).name) : Chosen(p, v)
  BY DEF Describe
<1>6. v \in Version
  <2>1. tags[Wanted(p).name] \subseteq
            [version : Version, commit : 1 .. MaxCommits, pushed : BOOLEAN]
    BY <1>4 DEF PackagesInv, AuthorTypes
  <2>2. QED
    BY <1>5, <2>1 DEF HeadTags
<1>7. QED
  BY <1>1, <1>2, <1>5, <1>6, ChosenStep

\* The tag is written to the cache, or not.
LEMMA KeepTagStep == ASSUME PackagesInv, NEW p \in Project, KeepTag(p) PROVE PackagesInv'
<1>1. PICK e \in Entry : e = found[p] /\ e.version \in Version /\ e.name \in Package
  BY DEF KeepTag, PackagesInv, InHand, Resolved, Entry
<1>2. /\ stage[p] = "tag"
      /\ UNCHANGED <<author, dirs, installed, cleared, undone, lock, command, todo, built, found>>
      /\ latest' \in {latest, [latest EXCEPT ![e.name] = 0],
                      [latest EXCEPT ![e.name] = e.version]}
      /\ stage' \in {stage, [stage EXCEPT ![p] = "fetch"]}
  BY <1>1 DEF KeepTag, PkgGoto, files
<1>3. /\ todo[p] # <<>> /\ stage[p] \in Resolved
      /\ command[p] = "update" => ~Locked(lock[p], e.name)
  BY <1>1, <1>2 DEF PackagesInv, InHand, KeepsLock, Resolved
<1>4. PICK where \in {"tag", "fetch"} : stage' = [stage EXCEPT ![p] = where]
  BY <1>2 DEF PackagesInv, ManagerTypes
<1>5. found' = [found EXCEPT ![p] = e]
  BY <1>1, <1>2 DEF PackagesInv, ManagerTypes
<1>6. CacheTypes' /\ CacheStays(p)
  BY <1>1, <1>2 DEF PackagesInv, CacheTypes, CacheStays
<1>7. where \in Resolved
  BY DEF Resolved
<1>8. QED
  BY <1>1, <1>2, <1>3, <1>4, <1>5, <1>6, <1>7, HandStep

\* A package is there, or its clone is called for, begins or ends.
LEMMA FetchStep ==
    ASSUME PackagesInv, NEW p \in Project, Fetch(p) \/ CloneBegins(p) \/ CloneEnds(p)
    PROVE  PackagesInv'
<1>1. PICK e \in Entry : e = found[p] /\ e.version \in Version /\ e.name \in Package
  BY DEF Fetch, CloneBegins, CloneEnds, PackagesInv, InHand, Resolved, Entry
<1>2. /\ UNCHANGED <<author, latest, installed, cleared, undone, lock, command, todo, built>>
      /\ todo[p] # <<>> /\ stage[p] \in Resolved
      /\ command[p] = "update" => ~Locked(lock[p], e.name)
  BY <1>1 DEF Fetch, CloneBegins, CloneEnds, files, PackagesInv, InHand, KeepsLock, Resolved
<1>3. Dir(p) = <<e.name, e.version>> /\ Dir(p) \in Package \X Version
  BY <1>1 DEF Dir
<1>4. head[e.name] \in 1 .. MaxCommits /\ MaxCommits \in Nat
  BY <1>1, PackagesAssumption DEF PackagesAssumption, PackagesInv, AuthorTypes
<1>5. ASSUME NEW rev \in 1 .. MaxCommits, GotRev(p, rev), CacheTypes', CacheStays(p),
             e.source = "git" => dirs'[Dir(p)] = rev
      PROVE  PackagesInv'
  <2>1. PICK f \in Entry : f = [e EXCEPT !.rev = rev]
    BY <1>5 DEF Entry
  <2>2. /\ f.version = e.version /\ f.name = e.name /\ f.source = e.source /\ f.rev = rev
    BY <2>1 DEF Entry
  <2>3. found' = [found EXCEPT ![p] = f] /\ stage' = [stage EXCEPT ![p] = "mark"]
    BY <1>1, <1>5, <2>1 DEF GotRev, PkgGoto, PackagesInv, ManagerTypes
  <2>4. "mark" \in Resolved /\ rev > 0
    BY <1>5 DEF Resolved
  <2>5. QED
    BY <1>1, <1>2, <1>3, <1>5, <2>1, <2>2, <2>3, <2>4, HandStep
<1>6. CASE CloneEnds(p)
  <2>1. /\ dirs' = [dirs EXCEPT ![Dir(p)] = head[e.name]] /\ GotRev(p, head[e.name])
        /\ stage[p] = "cloning"
    BY <1>1, <1>6 DEF CloneEnds
  <2>2. dirs[Dir(p)] = Begun
    BY <2>1 DEF PackagesInv, InCache
  <2>3. CacheTypes'
    BY <1>2, <1>3, <1>4, <2>1 DEF PackagesInv, CacheTypes
  <2>4. CacheStays(p)
    BY <1>2, <1>3, <2>1, <2>2 DEF PackagesInv, CacheTypes, CacheStays, Begun
  <2>5. dirs'[Dir(p)] = head[e.name]
    BY <1>3, <2>1 DEF PackagesInv, CacheTypes
  <2>6. QED
    BY <1>4, <1>5, <2>1, <2>3, <2>4, <2>5
<1>7. ASSUME NEW where \in {"clone", "cloning"}, e.source = "git", PkgGoto(p, where),
             found' = found, CacheTypes', CacheStays(p),
             where = "cloning" => dirs[Dir(p)] # Begun /\ dirs'[Dir(p)] = Begun
      PROVE  PackagesInv'
  <2>1. found' = [found EXCEPT ![p] = e]
    BY <1>1, <1>7 DEF PackagesInv, ManagerTypes
  <2>2. where \in Resolved /\ stage' = [stage EXCEPT ![p] = where]
    BY <1>7 DEF Resolved, PkgGoto
  <2>3. QED
    BY <1>1, <1>2, <1>3, <1>7, <2>1, <2>2, HandStep
<1>8. CASE Fetch(p)
  <2>1. dirs' = dirs
    BY <1>8 DEF Fetch, TakeClone
  <2>2. CacheTypes' /\ CacheStays(p)
    BY <1>2, <2>1 DEF PackagesInv, CacheTypes, CacheStays
  <2>3. CASE e.source = "path" /\ GotRev(p, head[e.name])
    BY <1>4, <1>5, <2>2, <2>3
  <2>4. CASE TakeClone(p)
    <3>1. dirs[Dir(p)] \in 1 .. MaxCommits /\ GotRev(p, dirs[Dir(p)])
      BY <1>3, <1>4, <2>4 DEF TakeClone, PackagesInv, CacheTypes, NoDir, Begun, Plain
    <3>2. QED
      BY <1>5, <2>1, <2>2, <3>1
  <2>5. CASE e.source = "git" /\ PkgGoto(p, "clone") /\ found' = found
    BY <1>7, <2>2, <2>5
  <2>6. QED
    BY <1>1, <1>8, <2>3, <2>4, <2>5 DEF Fetch
<1>9. CASE CloneBegins(p)
  <2>1. /\ stage[p] = "clone" /\ dirs[Dir(p)] = NoDir /\ PkgGoto(p, "cloning")
        /\ dirs' = [dirs EXCEPT ![Dir(p)] = Begun] /\ found' = found
    BY <1>9 DEF CloneBegins
  <2>2. e.source = "git"
    BY <1>1, <2>1 DEF PackagesInv, InHand, Resolved
  <2>3. CacheTypes'
    BY <1>2, <1>3, <2>1 DEF PackagesInv, CacheTypes
  <2>4. CacheStays(p)
    BY <1>2, <1>3, <2>1 DEF PackagesInv, CacheTypes, CacheStays, NoDir, Begun
  <2>5. dirs[Dir(p)] # Begun /\ dirs'[Dir(p)] = Begun
    BY <1>3, <2>1 DEF PackagesInv, CacheTypes, NoDir, Begun
  <2>6. QED
    BY <1>7, <2>1, <2>2, <2>3, <2>4, <2>5
<1>10. QED
  BY <1>6, <1>8, <1>9

\* Every step keeps the invariant.
LEMMA PackagesInvNext == PackagesInv /\ [PackagesNext]_packageVars => PackagesInv'
<1> SUFFICES ASSUME PackagesInv, [PackagesNext]_packageVars PROVE PackagesInv'
  OBVIOUS
<1>1. CASE UNCHANGED packageVars
  <2>1. /\ UNCHANGED <<head, version, tags, latest, dirs, installed, cleared, undone>>
        /\ UNCHANGED <<lock, command, stage, todo, built, found>>
    BY <1>1 DEF packageVars, author, cache, files, manager
  <2>2. AuthorTypes' /\ CacheTypes' /\ ManagerTypes'
    BY <2>1 DEF PackagesInv, AuthorTypes, CacheTypes, ManagerTypes
  <2>3. ASSUME NEW p \in Project
        PROVE  InHand(p)' /\ KeepsLock(p)' /\ InCache(p)'
    BY <2>1 DEF PackagesInv, InHand, KeepsLock, InCache, Dir, Wanted
  <2>4. ClonesApart'
    BY <2>1 DEF PackagesInv, ClonesApart, Dir
  <2>5. QED
    BY <2>2, <2>3, <2>4 DEF PackagesInv
<1>2. QED
  BY <1>1, AuthorStep, ClearStep, StartStep, EndSteps, TornStep, KeepStep, MarkStep,
     ResolveStep, DescribeStep, KeepTagStep, FetchStep DEF PackagesNext, Manage

\* The invariant holds in every reachable state.
LEMMA PackagesInvariance == PackagesSpec => []PackagesInv
  BY PackagesInvInit, PackagesInvNext, PTL DEF PackagesSpec

\* The cache: until it is cleared, what any project has locked from a repository
\* is in it, at the commit that was locked; and what it has locked from a path
\* is, but for a mark that went with a clone that failed.
THEOREM LocksAreCached == PackagesSpec => []LockedIsCached
<1>1. PackagesInv => LockedIsCached
  <2> SUFFICES ASSUME PackagesInv, ~cleared, NEW p \in Project, NEW e \in Range(lock[p])
               PROVE  /\ e.source = "git" => /\ <<e.name, e.version>> \in installed
                                            /\ dirs[<<e.name, e.version>>] = e.rev
                      /\ e.source = "path" => <<e.name, e.version>> \in installed \cup undone
    BY DEF LockedIsCached
  <2>1. PICK i \in 1 .. Len(lock[p]) : e = lock[p][i]
    BY DEF Range, PackagesInv, ManagerTypes
  <2>2. CachedIn(installed, undone, dirs, e)
    BY <2>1 DEF PackagesInv, InCache, AllCachedIn
  <2>3. QED
    BY <2>2 DEF CachedIn
<1>2. QED
  BY <1>1, PackagesInvariance, PTL

\* The lock file: what find gives for a package stays until all are updated.
THEOREM LocksAreKept == PackagesSpec => LockKept
<1> DEFINE Keeps ==
        \A p \in Project :
            command[p] \in {"install", "update"} =>
                \A n \in Package :
                    Locked(lock[p], n) /\ Locked(lock'[p], n) =>
                        Find(lock'[p], n) = Find(lock[p], n)
<1>1. PackagesInv /\ [PackagesNext]_packageVars => [Keeps]_packageVars
  <2> SUFFICES ASSUME PackagesInv, PackagesNext, NEW p \in Project,
                      command[p] \in {"install", "update"}, NEW n \in Package,
                      Locked(lock[p], n), Locked(lock'[p], n)
               PROVE  Find(lock'[p], n) = Find(lock[p], n)
    OBVIOUS
  <2>1. CASE lock'[p] = lock[p]
    BY <2>1
  <2>2. CASE lock'[p] = built[p]
    <3>1. lock[p] \in Seq(Entry) /\ built[p] \in Seq(Entry)
      BY DEF PackagesInv, ManagerTypes
    <3>2. CASE command[p] = "install"
      BY <2>2, <3>1, <3>2, FindExtended DEF PackagesInv, KeepsLock
    <3>3. CASE command[p] = "update"
      <4>1. PICK i \in 1 .. Len(built[p]) : Find(built[p], n) = built[p][i] /\ built[p][i].name = n
        BY <2>2, <3>1, FindFirst
      <4>2. QED
        BY <2>2, <3>3, <4>1 DEF PackagesInv, KeepsLock
    <3>4. QED
      BY <3>2, <3>3
  <2>3. lock'[p] \in {lock[p], built[p]}
    <3>1. ASSUME NEW q \in Project, Manage(q)
          PROVE  \/ lock' \in {lock, [lock EXCEPT ![q] = built[q]]}
                 \/ command[q] = "none" /\ lock' = [lock EXCEPT ![q] = <<>>]
      BY <3>1 DEF Manage, Install, Update, StartWith, KeepLocked, Resolve, Describe, ResolveFails,
                  KeepTag, Fetch, CloneRefused, CloneBegins, CloneEnds, CloneFails, MarkInstalled, TruncateLock, WriteLock,
                  Crash, RemoveLock, Abandon, files, PackagesInv, InHand
    <3>2. CASE lock' = lock
      BY <3>2
    <3>3. QED
      BY <3>1, <3>2 DEF PackagesNext, Commit, Publish, Clear, files, PackagesInv, ManagerTypes
  <2>4. QED
    BY <2>1, <2>2, <2>3
<1>2. QED
  BY <1>1, PackagesInvariance, PTL DEF PackagesSpec, LockKept
-----------------------------------------------------------------------------
\* What PackagesInv leaves open of the types.
PackagesRest == torn \subseteq Project /\ installs \in 0 .. MaxCalls

\* The state of the package managers and of their cache has its types.
THEOREM PackagesTypeCorrect == PackagesSpec => []PackagesTypeOK
<1>1. PackagesInit => PackagesRest
  BY PackagesAssumption DEF PackagesAssumption, PackagesInit, PackagesRest
<1>2. PackagesRest /\ [PackagesNext]_packageVars => PackagesRest'
  <2> SUFFICES ASSUME PackagesRest, [PackagesNext]_packageVars PROVE PackagesRest'
    OBVIOUS
  <2>1. CASE UNCHANGED packageVars
    BY <2>1 DEF packageVars, files, PackagesRest
  <2>2. ASSUME NEW n \in Package, Commit(n) \/ Publish(n) PROVE PackagesRest'
    BY <2>2 DEF Commit, Publish, files, PackagesRest
  <2>3. CASE Clear
    BY <2>3 DEF Clear, files, PackagesRest
  <2>4. ASSUME NEW p \in Project, Install(p) \/ Update(p) PROVE PackagesRest'
    <3>1. installs < MaxCalls /\ installs' = installs + 1 /\ UNCHANGED torn
      BY <2>4 DEF Install, Update, StartWith, files
    <3>2. QED
      BY <3>1, PackagesAssumption DEF PackagesAssumption, PackagesRest
  <2>5. ASSUME NEW p \in Project, TruncateLock(p) \/ WriteLock(p) \/ RemoveLock(p) PROVE PackagesRest'
    BY <2>5 DEF TruncateLock, WriteLock, RemoveLock, PackagesRest
  <2>6. ASSUME NEW p \in Project,
               \/ KeepLocked(p) \/ Resolve(p) \/ Describe(p) \/ ResolveFails(p) \/ KeepTag(p)
               \/ Fetch(p) \/ CloneRefused(p) \/ CloneBegins(p) \/ CloneEnds(p) \/ CloneFails(p) \/ MarkInstalled(p) \/ Crash(p)
        PROVE  PackagesRest'
    BY <2>6 DEF KeepLocked, Resolve, Describe, ResolveFails, KeepTag, Fetch, CloneRefused,
       CloneBegins, CloneEnds, CloneFails, MarkInstalled, Crash, Abandon, files, PackagesRest
  <2>7. QED
    BY <2>1, <2>2, <2>3, <2>4, <2>5, <2>6 DEF PackagesNext, Manage
<1>3. PackagesInv /\ PackagesRest => PackagesTypeOK
  <2> SUFFICES ASSUME PackagesInv, PackagesRest PROVE PackagesTypeOK
    OBVIOUS
  <2>1. NoEntry \in Entry
    <3>1. (CHOOSE n \in Package : TRUE) \in Package
      BY PackagesAssumption DEF PackagesAssumption
    <3>2. QED
      BY <3>1 DEF NoEntry, Entry
  <2>2. ASSUME NEW p \in Project
        PROVE  /\ Range(lock[p]) \cup Range(built[p]) \cup {found[p]} \subseteq Entry
               /\ Range(todo[p]) \subseteq Dependency
    <3>1. lock[p] \in Seq(Entry) /\ built[p] \in Seq(Entry) /\ todo[p] \in Seq(Dependency)
          /\ found[p] \in Entry
      BY <2>1 DEF PackagesInv, ManagerTypes
    <3>2. Range(lock[p]) \subseteq Entry
      BY <3>1 DEF Range
    <3>3. Range(built[p]) \subseteq Entry
      BY <3>1 DEF Range
    <3>4. Range(todo[p]) \subseteq Dependency
      BY <3>1 DEF Range
    <3>5. QED
      BY <3>1, <3>2, <3>3, <3>4
  <2>3. \A n \in Package :
            tags[n] \subseteq [version : Version, commit : 1 .. MaxCommits, pushed : BOOLEAN]
    BY DEF PackagesInv, AuthorTypes
  <2>4. QED
    BY <2>2, <2>3 DEF PackagesInv, AuthorTypes, CacheTypes, ManagerTypes, PackagesRest, PackagesTypeOK
<1>4. QED
  BY <1>1, <1>2, <1>3, PackagesInvariance, PTL DEF PackagesSpec

-----------------------------------------------------------------------------
(***************************************************************************)
(* The program of the runs: try statements on the VM, the Photon backend,  *)
(* or a project's dependencies. It is one of each, since the other two     *)
(* stay as they are, and all that is proved of them holds of it.           *)
(***************************************************************************)
LEMMA ToolsAlone == MCSpec => Spec /\ PhotonSpec /\ PackagesSpec
<1>1. MCInit => Init /\ PhotonInit /\ PackagesInit
  BY DEF MCInit
<1>2. [MCNext]_mcVars =>
          [Next]_vars /\ [PhotonNext]_photonVars /\ [PackagesNext]_packageVars
  BY DEF MCNext, mcVars
<1>3. QED
  BY <1>1, <1>2, PTL DEF MCSpec, Spec, PhotonSpec, PackagesSpec

OneTool == part \in {"exceptions", "photon", "packages"}

\* The state of the one in use has its types.
THEOREM CompilerTypes == MCSpec => []CompilerTypeOK
<1>1. OneTool /\ TypeOK /\ (AllocatorTypeOK /\ EmitterTypeOK) /\ PackagesTypeOK => CompilerTypeOK
  <2>1. CASE part = "exceptions"
    BY <2>1 DEF CompilerTypeOK
  <2>2. CASE part = "photon"
    BY <2>2 DEF CompilerTypeOK
  <2>3. CASE part = "packages"
    BY <2>3 DEF CompilerTypeOK
  <2>4. QED
    BY <2>1, <2>2, <2>3 DEF OneTool
<1>2. MCInit => OneTool
  BY DEF MCInit, OneTool
<1>3. OneTool /\ [MCNext]_mcVars => OneTool'
  BY DEF MCNext, mcVars, OneTool
<1>4. MCSpec => []OneTool
  BY <1>2, <1>3, PTL DEF MCSpec
<1>5. QED
  BY <1>1, <1>4, ToolsAlone, ExceptionsTypeCorrect, EmitterTypes, PackagesTypeCorrect, PTL
=============================================================================
