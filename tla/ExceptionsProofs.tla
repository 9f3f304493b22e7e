--------------------------- MODULE ExceptionsProofs --------------------------
(***************************************************************************)
(* Theorems about exceptions: what the stack of handlers has of the try    *)
(* statements a program is in, and where a throw leads.                    *)
(*                                                                         *)
(* The invariant compares the handlers with the nest of each frame of the  *)
(* running loop.  A frame that has a body without its handler must not let *)
(* the pop at the body's end take a handler of a frame below; so where a   *)
(* handler is missing, which only a callback brings about, no frame below  *)
(* has any.  A handler leads to a nest, and the nest must be as right as   *)
(* the frame it will be the nest of.                                       *)
(***************************************************************************)
EXTENDS Exceptions, WellFoundedInduction, TLAPS

\* What a clause may name, a place in the source, and a function under way.
Kind == Exception \cup {CatchAll, NoCatch}

Constructs == [at : Place, type : Kind, finally : BOOLEAN]

Nests == {n \in Seq(Constructs) : Len(n) <= MaxNest}

Frame == [nest : Nests, stray : BOOLEAN]

Stacks == {s \in Seq(Frame) : Len(s) <= MaxCallDepth}

\* A handler leads to where the nest was before the body was entered.
Handler == [frame : 1 .. MaxCallDepth, level : 0 .. MaxCallbacks,
            where : {n \in Seq(Constructs) : Len(n) < MaxNest}, clause : Clause]

(***************************************************************************)
(* The types, those of what the callbacks have put aside too.              *)
(***************************************************************************)
Types ==
    /\ frames \in Stacks /\ (frames = <<>> <=> status # "run")
    /\ handlers \in Seq(Handler) /\ Len(handlers) <= MaxHandlers
    /\ \A k \in 1 .. Len(handlers) : handlers[k].level <= Len(saved)
    /\ saved \in Seq(Stacks \ {<<>>}) /\ Len(saved) <= MaxCallbacks
    /\ status \in {"run", "done", "error", "exit", "wild"}
    /\ called \in BOOLEAN /\ (saved # <<>> => called)

-----------------------------------------------------------------------------
(***************************************************************************)
(* What the handlers hs have of the stack of frames fs at level c.         *)
(***************************************************************************)
BodiesIn(nest) == {j \in 1 .. Len(nest) : nest[j].at = "body"}

\* The handler that frame i of level c owes the body at j; the handlers of frame i.
DueIn(i, c, nest, j) ==
    [frame |-> i, level |-> c, where |-> SubSeq(nest, 1, j - 1),
     clause |-> [type |-> nest[j].type, finally |-> nest[j].finally]]

OfIn(hs, c, i) == {k \in 1 .. Len(hs) : hs[k].level = c /\ hs[k].frame = i}

\* The handlers are in the order of their frames.
Sorted(hs) ==
    \A k, l \in 1 .. Len(hs) :
        k < l => \/ hs[k].level < hs[l].level
                 \/ hs[k].level = hs[l].level /\ hs[k].frame <= hs[l].frame

\* They are of frames there are.
Attached(hs, c, n) ==
    \A k \in 1 .. Len(hs) : hs[k].level <= c /\ (hs[k].level = c => hs[k].frame <= n)

\* p finds for each body of the nest its handler, among the first n.
Covers(p, hs, c, i, nest, n) ==
    /\ p \in [BodiesIn(nest) -> 1 .. n]
    /\ \A j \in BodiesIn(nest) : hs[p[j]] = DueIn(i, c, nest, j)
    /\ \A j, k \in BodiesIn(nest) : j < k => p[j] < p[k]

Covered(hs, c, i, nest, n) == \E p : Covers(p, hs, c, i, nest, n)

\* The frames below i have no handler.
NoneBelow(hs, c, i) == \A k \in 1 .. Len(hs) : hs[k].level = c => hs[k].frame >= i

\* The handlers of frame i are those of the innermost bodies of the nest.
Orderly(hs, c, i, nest) ==
    /\ \A k \in OfIn(hs, c, i) : \E j \in BodiesIn(nest) : hs[k] = DueIn(i, c, nest, j)
    /\ \A k, l \in OfIn(hs, c, i) : k < l => Len(hs[k].where) < Len(hs[l].where)
    /\ \A k \in OfIn(hs, c, i), j \in BodiesIn(nest) :
          Len(hs[k].where) < j => \E l \in OfIn(hs, c, i) : hs[l] = DueIn(i, c, nest, j)

(***************************************************************************)
(* Whether a frame has all its handlers, or, once a callback was made, has *)
(* lost some and with them all of the frames below, so that the pop of a   *)
(* handler that is not there takes none of theirs.  The same of where a    *)
(* handler leads: those of the bodies there are before it.                 *)
(***************************************************************************)
FrameRight(f, hs, c, i, lossy) ==
    /\ (lossy /\ NoneBelow(hs, c, i)) \/ Covered(hs, c, i, f.nest, Len(hs))
    /\ ~ f.stray => Orderly(hs, c, i, f.nest)

LandingRight(hs, c, k, lossy) ==
    hs[k].level = c =>
        \/ lossy /\ NoneBelow(hs, c, hs[k].frame)
        \/ Covered(hs, c, hs[k].frame, hs[k].where, k - 1)

StackRight(fs, hs, c, lossy) ==
    /\ Sorted(hs) /\ Attached(hs, c, Len(fs))
    /\ \A i \in 1 .. Len(fs) : FrameRight(fs[i], hs, c, i, lossy)
    /\ \A k \in 1 .. Len(hs) : LandingRight(hs, c, k, lossy)

\* The invariant: while the program runs, every step keeps the two in step.
HandlersInv ==
    /\ Types
    /\ status = "run" => StackRight(frames, handlers, Len(saved), called)

-----------------------------------------------------------------------------
\* A set of numbers with 0 that has n + 1 with n has all the numbers.
LEMMA AllNumbers ==
    ASSUME NEW P, 0 \in P, \A n \in Nat : n \in P => n + 1 \in P
    PROVE  Nat \subseteq P
<1> SUFFICES ASSUME Nat \ P # {} PROVE FALSE
  OBVIOUS
<1>1. PICK x \in Nat \ P : \A y \in Nat \ P : ~ (<<y, x>> \in OpToRel(<, Nat))
  BY NatLessThanWellFounded, WFMin
<1>2. x - 1 \in Nat /\ (x - 1) + 1 = x
  OBVIOUS
<1>3. <<x - 1, x>> \in OpToRel(<, Nat)
  BY <1>2 DEF OpToRel
<1>4. QED
  BY <1>1, <1>2, <1>3

\* A set of numbers up to n that is not empty has a greatest.
LEMMA Greatest ==
    ASSUME NEW n \in Nat, NEW S \in SUBSET (1 .. n), S # {}
    PROVE  Max(S) \in S /\ \A k \in S : k <= Max(S)
<1> DEFINE P == {m \in Nat : \A T \in SUBSET (1 .. m) :
                                T # {} => \E x \in T : \A k \in T : k <= x}
<1>1. 0 \in P
  <2>1. 1 .. 0 = {}
    OBVIOUS
  <2>2. QED
    BY <2>1
<1>2. ASSUME NEW m \in Nat, m \in P PROVE m + 1 \in P
  <2> SUFFICES ASSUME NEW T \in SUBSET (1 .. m + 1), T # {}
               PROVE  \E x \in T : \A k \in T : k <= x
    OBVIOUS
  <2>1. CASE m + 1 \in T
    BY <2>1
  <2>2. CASE m + 1 \notin T
    BY <1>2, <2>2
  <2>3. QED
    BY <2>1, <2>2
<1>3. Nat \subseteq P
  <2> HIDE DEF P
  <2>1. QED
    BY <1>1, <1>2, AllNumbers
<1>4. \E x \in S : \A k \in S : k <= x
  BY <1>3
<1>5. QED
  BY <1>4 DEF Max

\* Nests that agree in their first m constructs agree in what leads to them.
LEMMA SamePrefix ==
    ASSUME NEW S, NEW s \in Seq(S), NEW t \in Seq(S), NEW m \in 0 .. Len(s),
           m <= Len(t), \A j \in 1 .. m : s[j] = t[j]
    PROVE  SubSeq(s, 1, m) = SubSeq(t, 1, m)
  OBVIOUS

-----------------------------------------------------------------------------
(***************************************************************************)
(* One nest becomes another: they agree in their first m constructs, and   *)
(* the new one has no body after them.                                     *)
(***************************************************************************)
Becomes(nest, new, m) ==
    /\ m \in 0 .. Len(nest) /\ m <= Len(new)
    /\ \A j \in 1 .. m : new[j] = nest[j]
    /\ \A j \in BodiesIn(new) : j <= m

\* The handler that a body asks for is the same in what the nest becomes.
LEMMA SameDue ==
    ASSUME NEW nest \in Seq(Constructs), NEW new \in Seq(Constructs), NEW m \in Nat,
           Becomes(nest, new, m), NEW i, NEW c, NEW j \in 1 .. m
    PROVE  /\ DueIn(i, c, new, j) = DueIn(i, c, nest, j)
           /\ j \in BodiesIn(new) <=> j \in BodiesIn(nest)
           /\ Len(DueIn(i, c, nest, j).where) = j - 1
<1>1. j - 1 \in 0 .. Len(nest) /\ j - 1 <= Len(new) /\ \A l \in 1 .. j - 1 : new[l] = nest[l]
  BY DEF Becomes
<1>2. SubSeq(nest, 1, j - 1) = SubSeq(new, 1, j - 1)
  BY <1>1, SamePrefix
<1>3. new[j] = nest[j]
  BY DEF Becomes
<1>4. Len(SubSeq(nest, 1, j - 1)) = j - 1
  BY <1>1
<1>5. QED
  BY <1>2, <1>3, <1>4 DEF DueIn, BodiesIn, Becomes

(***************************************************************************)
(* What finds the handlers of a nest finds those of what it becomes, where *)
(* they are now: q says for those of D where that is.                      *)
(***************************************************************************)
LEMMA StillCovered ==
    ASSUME NEW nest \in Seq(Constructs), NEW new \in Seq(Constructs), NEW m \in Nat,
           Becomes(nest, new, m), NEW i, NEW c,
           NEW hs, NEW hs2, NEW n \in Nat, NEW n2 \in Nat,
           NEW p, Covers(p, hs, c, i, nest, n),
           NEW q, NEW D \in SUBSET Nat,
           \A k \in D : q[k] \in 1 .. n2 /\ hs2[q[k]] = hs[k],
           \A k, l \in D : k < l => q[k] < q[l],
           \A j \in BodiesIn(new) : p[j] \in D
    PROVE  Covered(hs2, c, i, new, n2)
<1> DEFINE r == [j \in BodiesIn(new) |-> q[p[j]]]
<1>1. \A j \in BodiesIn(new) : /\ j \in BodiesIn(nest) /\ j \in 1 .. m
                               /\ DueIn(i, c, new, j) = DueIn(i, c, nest, j)
  <2> TAKE j \in BodiesIn(new)
  <2>1. j \in 1 .. m
    BY DEF Becomes, BodiesIn
  <2>2. QED
    BY <2>1, SameDue
<1>2. r \in [BodiesIn(new) -> 1 .. n2]
  OBVIOUS
<1>3. \A j \in BodiesIn(new) : hs2[r[j]] = DueIn(i, c, new, j)
  BY <1>1 DEF Covers
<1>4. \A j, k \in BodiesIn(new) : j < k => r[j] < r[k]
  BY <1>1 DEF Covers
<1>5. Covers(r, hs2, c, i, new, n2)
  BY <1>2, <1>3, <1>4 DEF Covers
<1>6. QED
  BY <1>5 DEF Covered

\* The handlers of a prefix, where they are.
LEMMA CoveredWithin ==
    ASSUME NEW nest \in Seq(Constructs), NEW new \in Seq(Constructs), NEW m \in Nat,
           Becomes(nest, new, m), NEW i, NEW c,
           NEW hs, NEW hs2, NEW n \in Nat, NEW n2 \in Nat,
           NEW p, Covers(p, hs, c, i, nest, n),
           \A j \in BodiesIn(new) : p[j] <= n2,
           \A k \in 1 .. n : k <= n2 => hs2[k] = hs[k]
    PROVE  Covered(hs2, c, i, new, n2)
<1> DEFINE D == {k \in 1 .. n : k <= n2}
           q == [k \in D |-> k]
<1>1. \A j \in BodiesIn(new) : p[j] \in D
  BY DEF Covers, Becomes, BodiesIn
<1>2. D \in SUBSET Nat
  OBVIOUS
<1>3. \A k \in D : q[k] \in 1 .. n2 /\ hs2[q[k]] = hs[k]
  OBVIOUS
<1>4. \A k, l \in D : k < l => q[k] < q[l]
  OBVIOUS
<1> HIDE DEF D, q
<1>5. QED
  BY <1>1, <1>2, <1>3, <1>4, StillCovered

\* What every handler has.
LEMMA HandlerTypes ==
    ASSUME NEW hs \in Seq(Handler), NEW k \in 1 .. Len(hs)
    PROVE  /\ hs[k] \in Handler
           /\ hs[k].frame \in Nat /\ hs[k].frame > 0 /\ hs[k].level \in Nat
           /\ hs[k].where \in Seq(Constructs) /\ Len(hs[k].where) \in Nat
           /\ Len(hs[k].where) < MaxNest /\ hs[k].clause \in Clause
<1>1. hs[k] \in Handler
  OBVIOUS
<1>2. /\ hs[k].frame \in 1 .. MaxCallDepth /\ hs[k].level \in 0 .. MaxCallbacks
      /\ hs[k].where \in {n \in Seq(Constructs) : Len(n) < MaxNest} /\ hs[k].clause \in Clause
  BY <1>1 DEF Handler
<1>3. /\ hs[k].where \in Seq(Constructs) /\ Len(hs[k].where) < MaxNest
  BY <1>2
<1>4. hs[k].frame \in Nat /\ hs[k].frame > 0 /\ hs[k].level \in Nat
  BY <1>2
<1>5. QED
  BY <1>1, <1>2, <1>3, <1>4

\* The handlers hs2 of frame i are those of hs, but for those registered past m
\* constructs: g says which they were.
Remaining(g, hs, hs2, c, i, m) ==
    /\ \A k \in OfIn(hs2, c, i) : /\ g[k] \in OfIn(hs, c, i) /\ hs2[k] = hs[g[k]]
                                  /\ Len(hs[g[k]].where) < m
    /\ \A k, l \in OfIn(hs2, c, i) : k < l => g[k] < g[l]
    /\ \A l \in OfIn(hs, c, i) :
          Len(hs[l].where) < m => \E k \in OfIn(hs2, c, i) : g[k] = l

\* If they were those of the innermost bodies of a nest, they are those of the
\* innermost bodies of what the nest becomes.
LEMMA StillStraight ==
    ASSUME NEW nest \in Seq(Constructs), NEW new \in Seq(Constructs), NEW m \in Nat,
           Becomes(nest, new, m), NEW i, NEW c,
           NEW hs \in Seq(Handler), NEW hs2 \in Seq(Handler),
           Orderly(hs, c, i, nest), NEW g, Remaining(g, hs, hs2, c, i, m)
    PROVE  Orderly(hs2, c, i, new)
<1> DEFINE T == OfIn(hs2, c, i)
           U == OfIn(hs, c, i)
<1>0. /\ \A k \in T : g[k] \in U /\ hs2[k] = hs[g[k]] /\ Len(hs[g[k]].where) < m
      /\ \A k, l \in T : k < l => g[k] < g[l]
      /\ \A l \in U : Len(hs[l].where) < m => \E k \in T : g[k] = l
      /\ \A l \in U : \E j \in BodiesIn(nest) : hs[l] = DueIn(i, c, nest, j)
      /\ \A k, l \in U : k < l => Len(hs[k].where) < Len(hs[l].where)
      /\ \A k \in U, j \in BodiesIn(nest) :
            Len(hs[k].where) < j => \E l \in U : hs[l] = DueIn(i, c, nest, j)
  BY DEF Orderly, Remaining
<1> HIDE DEF T, U
<1>1. \A j \in BodiesIn(nest) : /\ j \in Nat /\ j > 0
                                /\ Len(DueIn(i, c, nest, j).where) = j - 1
  <2> TAKE j \in BodiesIn(nest)
  <2>1. j \in Nat /\ j > 0 /\ j - 1 \in 0 .. Len(nest)
    BY DEF BodiesIn
  <2>2. Len(SubSeq(nest, 1, j - 1)) = j - 1
    BY <2>1
  <2>3. QED
    BY <2>1, <2>2 DEF DueIn
<1>2. \A j \in BodiesIn(nest) : j <= m => /\ j \in BodiesIn(new)
                                          /\ DueIn(i, c, new, j) = DueIn(i, c, nest, j)
  BY <1>1, SameDue
<1>3. \A j \in BodiesIn(new) : /\ j \in BodiesIn(nest) /\ j <= m
                               /\ DueIn(i, c, new, j) = DueIn(i, c, nest, j)
  <2> TAKE j \in BodiesIn(new)
  <2>1. j \in 1 .. m
    BY DEF Becomes, BodiesIn
  <2>2. QED
    BY <2>1, SameDue
<1>4. \A k \in T : \E j \in BodiesIn(new) : hs2[k] = DueIn(i, c, new, j)
  <2> TAKE k \in T
  <2>1. PICK j \in BodiesIn(nest) : hs[g[k]] = DueIn(i, c, nest, j)
    BY <1>0
  <2>2. j <= m
    BY <1>0, <1>1, <2>1
  <2>3. QED
    BY <1>0, <1>2, <2>1, <2>2
<1>5. \A k, l \in T : k < l => Len(hs2[k].where) < Len(hs2[l].where)
  BY <1>0, SMTT(30)
<1>6. ASSUME NEW k \in T, NEW j \in BodiesIn(new), Len(hs2[k].where) < j
      PROVE  \E l \in T : hs2[l] = DueIn(i, c, new, j)
  <2>1. PICK l \in U : hs[l] = DueIn(i, c, nest, j)
    BY <1>0, <1>3, <1>6
  <2>2. Len(hs[l].where) = j - 1 /\ j \in Nat /\ j <= m
    BY <1>1, <1>3, <2>1
  <2>3. PICK h \in T : g[h] = l
    BY <1>0, <2>2
  <2>4. QED
    BY <1>0, <1>3, <2>1, <2>3
<1>7. QED
  BY <1>4, <1>5, <1>6 DEF Orderly, T

\* The same where the handlers are the first of what they were.
LEMMA StraightWithin ==
    ASSUME NEW nest \in Seq(Constructs), NEW new \in Seq(Constructs), NEW m \in Nat,
           Becomes(nest, new, m), NEW i, NEW c,
           NEW hs \in Seq(Handler), NEW n \in 0 .. Len(hs),
           Orderly(hs, c, i, nest),
           \A k \in OfIn(hs, c, i) : k <= n <=> Len(hs[k].where) < m
    PROVE  Orderly(SubSeq(hs, 1, n), c, i, new)
<1> DEFINE hs2 == SubSeq(hs, 1, n)
           g == [k \in 1 .. n |-> k]
<1>1. hs2 \in Seq(Handler) /\ Len(hs2) = n /\ \A k \in 1 .. n : hs2[k] = hs[k]
  OBVIOUS
<1> HIDE DEF hs2
<1>2. OfIn(hs2, c, i) = {k \in OfIn(hs, c, i) : k <= n}
  BY <1>1 DEF OfIn
<1>3. OfIn(hs2, c, i) \subseteq 1 .. n
  BY <1>1 DEF OfIn
<1>4. Remaining(g, hs, hs2, c, i, m)
  BY <1>1, <1>2, <1>3 DEF Remaining
<1> HIDE DEF g
<1>5. Orderly(hs2, c, i, new)
  BY <1>1, <1>4, StillStraight
<1>6. QED
  BY <1>5 DEF hs2

\* Nothing changes for a frame whose handlers are all among those that are left.
LEMMA StraightAsItWas ==
    ASSUME NEW nest \in Seq(Constructs), NEW i, NEW c,
           NEW hs \in Seq(Handler), NEW n \in 0 .. Len(hs),
           Orderly(hs, c, i, nest), \A k \in OfIn(hs, c, i) : k <= n
    PROVE  Orderly(SubSeq(hs, 1, n), c, i, nest)
<1> DEFINE hs2 == SubSeq(hs, 1, n)
<1>1. hs2 \in Seq(Handler) /\ Len(hs2) = n /\ \A k \in 1 .. n : hs2[k] = hs[k]
  OBVIOUS
<1> HIDE DEF hs2
<1>2. OfIn(hs2, c, i) = OfIn(hs, c, i)
  BY <1>1 DEF OfIn
<1>3. \A k \in OfIn(hs, c, i) : hs2[k] = hs[k]
  BY <1>1 DEF OfIn
<1>4. Orderly(hs2, c, i, nest)
  BY <1>2, <1>3 DEF Orderly
<1>5. QED
  BY <1>4 DEF hs2

\* A frame's nest, and that of a handler, are nests.
LEMMA FrameTypes ==
    ASSUME NEW fs \in Seq(Frame), NEW i \in 1 .. Len(fs)
    PROVE  fs[i] \in Frame /\ fs[i].nest \in Seq(Constructs) /\ fs[i].stray \in BOOLEAN
<1>1. fs[i] \in Frame
  OBVIOUS
<1>2. fs[i].nest \in Nests /\ fs[i].stray \in BOOLEAN
  BY <1>1 DEF Frame
<1>3. QED
  BY <1>1, <1>2 DEF Nests

\* Of the stack only what is said of each frame matters.
LEMMA OneFrame ==
    ASSUME NEW fs \in Seq(Frame), NEW f \in Frame, fs # <<>>,
           NEW hs, NEW hs2, NEW c, NEW lossy,
           \A i \in 1 .. Len(fs) - 1 : FrameRight(fs[i], hs2, c, i, lossy),
           FrameRight(f, hs2, c, Len(fs), lossy),
           Sorted(hs2), Attached(hs2, c, Len(fs)),
           \A k \in 1 .. Len(hs2) : LandingRight(hs2, c, k, lossy)
    PROVE  StackRight([fs EXCEPT ![Len(fs)] = f], hs2, c, lossy)
<1> DEFINE fs2 == [fs EXCEPT ![Len(fs)] = f]
<1>1. /\ Len(fs) \in Nat /\ Len(fs2) = Len(fs) /\ fs2[Len(fs)] = f
      /\ \A i \in 1 .. Len(fs) - 1 : fs2[i] = fs[i]
  OBVIOUS
<1> HIDE DEF fs2
<1>2. \A i \in 1 .. Len(fs2) : FrameRight(fs2[i], hs2, c, i, lossy)
  <2> TAKE i \in 1 .. Len(fs2)
  <2>1. CASE i = Len(fs)
    BY <1>1, <2>1
  <2>2. CASE i # Len(fs)
    BY <1>1, <2>2
  <2>3. QED
    BY <2>1, <2>2
<1>3. StackRight(fs2, hs2, c, lossy)
  BY <1>1, <1>2 DEF StackRight
<1>4. QED
  BY <1>3 DEF fs2

\* What a nest of the innermost frame becomes when no handler comes or goes.
LEMMA Moved ==
    ASSUME NEW fs \in Seq(Frame), fs # <<>>, NEW hs \in Seq(Handler), NEW c, NEW lossy,
           StackRight(fs, hs, c, lossy), NEW f \in Frame, NEW m \in Nat,
           Becomes(fs[Len(fs)].nest, f.nest, m),
           ~ f.stray => /\ ~ fs[Len(fs)].stray
                        /\ \A j \in BodiesIn(fs[Len(fs)].nest) : j <= m
    PROVE  StackRight([fs EXCEPT ![Len(fs)] = f], hs, c, lossy)
<1> DEFINE n == Len(fs)
           nest == fs[n].nest
           N == Len(hs)
<1>1. n \in Nat /\ n \in 1 .. n /\ N \in Nat /\ SubSeq(hs, 1, N) = hs
  OBVIOUS
<1>2. nest \in Seq(Constructs) /\ f.nest \in Seq(Constructs)
  BY <1>1, FrameTypes DEF Frame, Nests
<1>3. FrameRight(fs[n], hs, c, n, lossy)
  BY <1>1 DEF StackRight
<1>4. (lossy /\ NoneBelow(hs, c, n)) \/ Covered(hs, c, n, f.nest, N)
  <2>1. CASE Covered(hs, c, n, nest, N)
    <3>1. PICK p : Covers(p, hs, c, n, nest, N)
      BY <2>1 DEF Covered
    <3>2. \A j \in BodiesIn(f.nest) : p[j] <= N
      BY <3>1, SMTT(30) DEF Covers, Becomes, BodiesIn
    <3> HIDE DEF n, nest, N
    <3>3. Covered(hs, c, n, f.nest, N)
      BY <1>1, <1>2, <3>1, <3>2, CoveredWithin DEF n, nest
    <3>4. QED
      BY <3>3
  <2>2. QED
    BY <1>3, <2>1 DEF FrameRight
<1>5. ~ f.stray => Orderly(hs, c, n, f.nest)
  <2> SUFFICES ASSUME ~ f.stray PROVE Orderly(hs, c, n, f.nest)
    OBVIOUS
  <2>1. Orderly(hs, c, n, nest)
    BY <1>3 DEF FrameRight
  <2>2. \A k \in OfIn(hs, c, n) : k <= N <=> Len(hs[k].where) < m
    <3> TAKE k \in OfIn(hs, c, n)
    <3>1. PICK j \in BodiesIn(nest) : hs[k] = DueIn(n, c, nest, j)
      BY <2>1 DEF Orderly
    <3>2. j \in 1 .. m
      BY <3>1 DEF BodiesIn
    <3>3. Len(hs[k].where) = j - 1
      BY <1>2, <3>1, <3>2, SameDue
    <3>4. QED
      BY <3>2, <3>3 DEF OfIn
  <2>3. N \in 0 .. Len(hs) /\ Becomes(nest, f.nest, m)
    OBVIOUS
  <2> HIDE DEF n, nest, N
  <2>4. Orderly(SubSeq(hs, 1, N), c, n, f.nest)
    BY <1>2, <2>1, <2>2, <2>3, StraightWithin
  <2>5. QED
    BY <1>1, <2>4
<1>6. FrameRight(f, hs, c, n, lossy)
  BY <1>4, <1>5 DEF FrameRight
<1>7. /\ \A i \in 1 .. n - 1 : FrameRight(fs[i], hs, c, i, lossy)
      /\ Sorted(hs) /\ Attached(hs, c, n) /\ \A k \in 1 .. N : LandingRight(hs, c, k, lossy)
  BY DEF StackRight
<1> HIDE DEF n, N
<1>8. QED
  BY <1>6, <1>7, OneFrame DEF n, N

-----------------------------------------------------------------------------
\* The handlers are cut off at n: what is said of each frame and each handler that
\* is left stays true of what it was said of.
LEMMA CutOff ==
    ASSUME NEW hs \in Seq(Handler), NEW n \in 0 .. Len(hs), NEW c, NEW lossy
    PROVE  /\ Sorted(hs) => Sorted(SubSeq(hs, 1, n))
           /\ \A i : NoneBelow(hs, c, i) => NoneBelow(SubSeq(hs, 1, n), c, i)
           /\ \A k \in 1 .. n : LandingRight(hs, c, k, lossy)
                                    => LandingRight(SubSeq(hs, 1, n), c, k, lossy)
<1> DEFINE hs2 == SubSeq(hs, 1, n)
<1>1. hs2 \in Seq(Handler) /\ Len(hs2) = n /\ \A k \in 1 .. n : hs2[k] = hs[k]
  OBVIOUS
<1> HIDE DEF hs2
<1>2. Sorted(hs) => Sorted(hs2)
  BY <1>1 DEF Sorted
<1>3. \A i : NoneBelow(hs, c, i) => NoneBelow(hs2, c, i)
  BY <1>1 DEF NoneBelow
<1>4. ASSUME NEW k \in 1 .. n, LandingRight(hs, c, k, lossy)
      PROVE  LandingRight(hs2, c, k, lossy)
  <2> SUFFICES ASSUME hs[k].level = c, Covered(hs, c, hs[k].frame, hs[k].where, k - 1)
               PROVE  Covered(hs2, c, hs[k].frame, hs[k].where, k - 1)
    BY <1>1, <1>3, <1>4 DEF LandingRight
  <2>1. PICK p : Covers(p, hs, c, hs[k].frame, hs[k].where, k - 1)
    BY DEF Covered
  <2>2. Covers(p, hs2, c, hs[k].frame, hs[k].where, k - 1)
    BY <1>1, <2>1 DEF Covers
  <2>3. QED
    BY <2>2 DEF Covered
<1>5. QED
  BY <1>2, <1>3, <1>4 DEF hs2

\* A frame keeps what is said of it when only handlers of others go.
LEMMA FrameKeeps ==
    ASSUME NEW f \in Frame, NEW hs \in Seq(Handler), NEW n \in 0 .. Len(hs), NEW c, NEW i,
           NEW lossy, FrameRight(f, hs, c, i, lossy), \A k \in OfIn(hs, c, i) : k <= n
    PROVE  FrameRight(f, SubSeq(hs, 1, n), c, i, lossy)
<1> DEFINE hs2 == SubSeq(hs, 1, n)
<1>1. hs2 \in Seq(Handler) /\ Len(hs2) = n /\ \A k \in 1 .. n : hs2[k] = hs[k]
  OBVIOUS
<1>2. f.nest \in Seq(Constructs)
  BY DEF Frame, Nests
<1>3. ~ f.stray => Orderly(hs2, c, i, f.nest)
  BY <1>2, StraightAsItWas DEF FrameRight
<1>4. CASE Covered(hs, c, i, f.nest, Len(hs))
  <2>1. PICK p : Covers(p, hs, c, i, f.nest, Len(hs))
    BY <1>4 DEF Covered
  <2>2. \A j \in BodiesIn(f.nest) : p[j] \in 1 .. n
    <3> TAKE j \in BodiesIn(f.nest)
    <3>1. p[j] \in 1 .. Len(hs) /\ hs[p[j]] = DueIn(i, c, f.nest, j)
      BY <2>1 DEF Covers
    <3>2. p[j] \in OfIn(hs, c, i)
      BY <3>1 DEF OfIn, DueIn
    <3>3. QED
      BY <3>1, <3>2
  <2> HIDE DEF hs2
  <2>3. Covers(p, hs2, c, i, f.nest, n)
    BY <1>1, <2>1, <2>2 DEF Covers
  <2>4. QED
    BY <1>1, <1>3, <2>3 DEF FrameRight, Covered, hs2
<1>5. QED
  <2>1. lossy /\ NoneBelow(hs, c, i) => NoneBelow(hs2, c, i)
    BY CutOff
  <2>2. QED
    BY <1>3, <1>4, <2>1 DEF FrameRight

\* The fields of the handler that a body asks for.
LEMMA DueFields ==
    ASSUME NEW i, NEW c, NEW nest \in Seq(Constructs), NEW j \in 1 .. Len(nest)
    PROVE  LET due == DueIn(i, c, nest, j)
           IN  /\ due.frame = i /\ due.level = c /\ due.where = SubSeq(nest, 1, j - 1)
               /\ Len(due.where) = j - 1 /\ due.clause.type = nest[j].type
               /\ due.clause.finally = nest[j].finally
<1>1. j - 1 \in 0 .. Len(nest)
  OBVIOUS
<1>2. Len(SubSeq(nest, 1, j - 1)) = j - 1
  BY <1>1
<1>3. QED
  BY <1>2 DEF DueIn

\* In the order of the frames, the handlers of the innermost frame are the last.
LEMMA LastOfInnermost ==
    ASSUME NEW hs \in Seq(Handler), NEW c, NEW n \in Nat, Sorted(hs), Attached(hs, c, n),
           NEW k \in OfIn(hs, c, n)
    PROVE  Len(hs) \in OfIn(hs, c, n)
<1>1. k \in 1 .. Len(hs) /\ hs[k].level = c /\ hs[k].frame = n
  BY DEF OfIn
<1>2. Len(hs) \in 1 .. Len(hs)
  BY <1>1
<1>3. hs[Len(hs)].level \in Nat /\ hs[Len(hs)].frame \in Nat /\ hs[k].level \in Nat
  BY <1>1, <1>2, HandlerTypes
<1>4. hs[Len(hs)].level = c /\ hs[Len(hs)].frame = n
  BY <1>1, <1>2, <1>3 DEF Sorted, Attached
<1>5. QED
  BY <1>2, <1>4 DEF OfIn

\* In a frame without strays that is in a body at m, the innermost of all, the
\* last handler is that of this body; if the frame has any.
LEMMA LastIsInnermost ==
    ASSUME NEW hs \in Seq(Handler), NEW c, NEW n \in Nat, Sorted(hs), Attached(hs, c, n),
           NEW nest \in Seq(Constructs), Orderly(hs, c, n, nest),
           nest # <<>>, nest[Len(nest)].at = "body", NEW k \in OfIn(hs, c, n)
    PROVE  k < Len(hs) <=> Len(hs[k].where) < Len(nest) - 1
<1> DEFINE M == Len(nest)
           N == Len(hs)
           U == OfIn(hs, c, n)
<1>1. M \in Nat /\ M > 0 /\ M \in BodiesIn(nest)
  BY DEF BodiesIn
<1>2. \A l \in U : l \in 1 .. N /\ Len(hs[l].where) \in Nat
  BY HandlerTypes DEF OfIn
<1>3. N \in U /\ N \in Nat
  BY LastOfInnermost
<1>4. \A l \in U : Len(hs[l].where) < M
  <2> TAKE l \in U
  <2>1. PICK j \in BodiesIn(nest) : hs[l] = DueIn(n, c, nest, j)
    BY DEF Orderly
  <2>2. j \in 1 .. M
    BY <2>1 DEF BodiesIn
  <2>3. Len(hs[l].where) = j - 1
    BY <2>1, <2>2, DueFields
  <2>4. QED
    BY <2>2, <2>3
<1>5. PICK l \in U : hs[l] = DueIn(n, c, nest, M)
  BY <1>1, <1>3, <1>4 DEF Orderly
<1>6. Len(hs[l].where) = M - 1
  <2>1. M \in 1 .. Len(nest)
    BY <1>1
  <2>2. QED
    BY <1>5, <2>1, DueFields
<1>7. \A g, h \in U : g < h => Len(hs[g].where) < Len(hs[h].where)
  BY DEF Orderly
<1> HIDE DEF M, N, U
<1>8. l = N
  <2>1. ~ (l < N)
    <3>1. l < N => Len(hs[l].where) < Len(hs[N].where)
      BY <1>3, <1>7
    <3>2. Len(hs[N].where) \in Nat /\ Len(hs[N].where) < M
      BY <1>2, <1>3, <1>4
    <3>3. QED
      BY <1>1, <1>6, <3>1, <3>2
  <2>2. l \in 1 .. N
    BY <1>2
  <2>3. QED
    BY <1>3, <2>1, <2>2
<1>9. k \in U /\ k \in 1 .. N /\ Len(hs[k].where) \in Nat
  BY <1>2 DEF U
<1>10. k < N <=> Len(hs[k].where) < M - 1
  <2>1. CASE k = N
    BY <1>1, <1>3, <1>6, <1>8, <2>1
  <2>2. CASE k < N
    BY <1>3, <1>6, <1>7, <1>8, <1>9, <2>2
  <2>3. QED
    BY <1>3, <1>9, <2>1, <2>2
<1>11. QED
  BY <1>10 DEF M, N

\* The innermost frame leaves the body it is in, and the last handler is popped.
LEMMA Popped ==
    ASSUME NEW fs \in Seq(Frame), fs # <<>>, NEW hs \in Seq(Handler), NEW c, NEW lossy,
           StackRight(fs, hs, c, lossy), NEW f \in Frame, NEW m \in Nat,
           Becomes(fs[Len(fs)].nest, f.nest, m),
           fs[Len(fs)].nest # <<>>, fs[Len(fs)].nest[Len(fs[Len(fs)].nest)].at = "body",
           m < Len(fs[Len(fs)].nest),
           ~ f.stray => /\ ~ fs[Len(fs)].stray
                        /\ \A j \in BodiesIn(fs[Len(fs)].nest) : j <= m \/ j = Len(fs[Len(fs)].nest)
    PROVE  StackRight([fs EXCEPT ![Len(fs)] = f], SubSeq(hs, 1, Len(hs) - 1), c, lossy)
<1> DEFINE n == Len(fs)
           nest == fs[n].nest
           M == Len(nest)
           N == Len(hs)
           hs2 == SubSeq(hs, 1, N - 1)
<1>1. n \in Nat /\ n \in 1 .. n /\ N \in Nat /\ M \in Nat /\ M > 0
  BY FrameTypes
<1>2. nest \in Seq(Constructs) /\ f.nest \in Seq(Constructs)
  BY <1>1, FrameTypes DEF Frame, Nests
<1>3. /\ \A i \in 1 .. n : FrameRight(fs[i], hs, c, i, lossy)
      /\ Sorted(hs) /\ Attached(hs, c, n) /\ \A k \in 1 .. N : LandingRight(hs, c, k, lossy)
  BY DEF StackRight
<1>4. CASE hs = <<>>
  <2>1. hs2 = hs
    BY <1>4
  <2>2. OfIn(hs, c, n) = {}
    BY <1>4 DEF OfIn
  <2>3. Orderly(hs, c, n, f.nest)
    BY <2>2 DEF Orderly
  <2>4. CASE lossy /\ NoneBelow(hs, c, n)
    <3>1. FrameRight(f, hs, c, n, lossy)
      BY <2>3, <2>4 DEF FrameRight
    <3>2. \A i \in 1 .. n - 1 : FrameRight(fs[i], hs, c, i, lossy)
      BY <1>3
    <3> HIDE DEF hs2
    <3>3. QED
      BY <1>3, <2>1, <3>1, <3>2, OneFrame DEF n, hs2, N
  <2>5. CASE ~ (lossy /\ NoneBelow(hs, c, n))
    <3>1. PICK p : Covers(p, hs, c, n, nest, N)
      BY <1>1, <1>3, <2>5 DEF FrameRight, Covered
    <3>2. M \in BodiesIn(nest) /\ N = 0
      BY <1>1, <1>4 DEF BodiesIn
    <3>3. QED
      BY <3>1, <3>2 DEF Covers
  <2>6. QED
    BY <2>4, <2>5
<1>5. CASE hs # <<>>
  <2>1. N > 0 /\ N - 1 \in 0 .. N /\ N \in 1 .. N
    BY <1>1, <1>5
  <2>2. /\ hs2 \in Seq(Handler) /\ Len(hs2) = N - 1
        /\ \A k \in 1 .. N - 1 : hs2[k] = hs[k]
    <3> HIDE DEF N
    <3>1. N - 1 \in 0 .. Len(hs)
      BY <2>1 DEF N
    <3>2. QED
      BY <3>1
  <2>3. Sorted(hs2) /\ \A k \in 1 .. N - 1 : LandingRight(hs2, c, k, lossy)
    <3>1. /\ Sorted(hs) => Sorted(hs2)
          /\ \A k \in 1 .. N - 1 : LandingRight(hs, c, k, lossy) => LandingRight(hs2, c, k, lossy)
      <4> HIDE DEF N
      <4>1. N - 1 \in 0 .. Len(hs)
        BY <2>1 DEF N
      <4>2. QED
        BY <4>1, CutOff
    <3>2. \A k \in 1 .. N - 1 : k \in 1 .. N
      BY <2>1
    <3>3. QED
      BY <1>3, <3>1, <3>2
  <2>4. Attached(hs2, c, n)
    <3> HIDE DEF hs2
    <3>1. QED
      BY <1>3, <2>1, <2>2 DEF Attached
  \* Unless there is nothing below that could be lost, it is the innermost frame
  \* that loses the last handler.
  <2>5. (lossy /\ NoneBelow(hs, c, n)) \/ N \in OfIn(hs, c, n)
    <3>1. CASE Covered(hs, c, n, nest, N)
      <4>1. PICK p : Covers(p, hs, c, n, nest, N)
        BY <3>1 DEF Covered
      <4>2. M \in BodiesIn(nest)
        BY <1>1 DEF BodiesIn
      <4>3. p[M] \in 1 .. N /\ hs[p[M]] = DueIn(n, c, nest, M)
        BY <4>1, <4>2 DEF Covers
      <4>4. p[M] \in OfIn(hs, c, n)
        BY <4>3 DEF OfIn, DueIn
      <4> HIDE DEF n
      <4>5. QED
        BY <1>1, <1>3, <4>4, LastOfInnermost
    <3>2. QED
      BY <1>1, <1>3, <3>1 DEF FrameRight
  <2>6. ASSUME NEW i \in 1 .. n - 1 PROVE FrameRight(fs[i], hs2, c, i, lossy)
    <3>1. i \in 1 .. n /\ i # n /\ fs[i] \in Frame /\ FrameRight(fs[i], hs, c, i, lossy)
      BY <1>1, <1>3
    <3>2. CASE N \in OfIn(hs, c, n)
      <4>1. \A k \in OfIn(hs, c, i) : k <= N - 1
        BY <2>1, <3>1, <3>2 DEF OfIn
      <4>2. QED
        BY <2>1, <3>1, <4>1, FrameKeeps
    <3>3. CASE lossy /\ NoneBelow(hs, c, n)
      <4>1. OfIn(hs, c, i) = {}
        BY <1>1, <3>3 DEF NoneBelow, OfIn
      <4>2. QED
        BY <2>1, <3>1, <4>1, FrameKeeps
    <3>4. QED
      BY <2>5, <3>2, <3>3
  <2>7. (lossy /\ NoneBelow(hs2, c, n)) \/ Covered(hs2, c, n, f.nest, N - 1)
    <3>1. CASE Covered(hs, c, n, nest, N)
      <4>1. PICK p : Covers(p, hs, c, n, nest, N)
        BY <3>1 DEF Covered
      <4>2. M \in BodiesIn(nest)
        BY <1>1 DEF BodiesIn
      <4>3. \A j \in BodiesIn(f.nest) : p[j] <= N - 1
        <5> TAKE j \in BodiesIn(f.nest)
        <5>1. j \in BodiesIn(nest) /\ j < M /\ j \in Nat
          BY <1>1 DEF Becomes, BodiesIn
        <5>2. p[j] < p[M] /\ p[j] \in 1 .. N /\ p[M] \in 1 .. N
          BY <4>1, <4>2, <5>1 DEF Covers
        <5>3. QED
          BY <5>2
      <4>4. Becomes(nest, f.nest, m) /\ N - 1 \in Nat
        BY <2>1
      <4>5. \A k \in 1 .. N : k <= N - 1 => hs2[k] = hs[k]
        BY <2>2
      <4> HIDE DEF n, nest, N, hs2
      <4>6. Covered(hs2, c, n, f.nest, N - 1)
        BY <1>1, <1>2, <4>1, <4>3, <4>4, <4>5, CoveredWithin
      <4>7. QED
        BY <4>6
    <3>2. CASE lossy /\ NoneBelow(hs, c, n)
      BY <2>1, <3>2, CutOff
    <3>3. QED
      BY <1>1, <1>3, <3>1, <3>2 DEF FrameRight
  <2>8. ~ f.stray => Orderly(hs2, c, n, f.nest)
    <3> SUFFICES ASSUME ~ f.stray PROVE Orderly(hs2, c, n, f.nest)
      OBVIOUS
    <3>1. Orderly(hs, c, n, nest)
      BY <1>1, <1>3 DEF FrameRight
    <3>2. \A k \in OfIn(hs, c, n) : k <= N - 1 <=> Len(hs[k].where) < m
      <4> TAKE k \in OfIn(hs, c, n)
      <4>1. PICK j \in BodiesIn(nest) : hs[k] = DueIn(n, c, nest, j)
        BY <3>1 DEF Orderly
      <4>2. j \in 1 .. M
        BY <4>1 DEF BodiesIn
      <4>4. Len(hs[k].where) = j - 1
        <5> HIDE DEF nest
        <5>1. QED
          BY <1>2, <4>1, <4>2, DueFields DEF M
      <4>5. k \in 1 .. N
        BY DEF OfIn
      <4>6. nest # <<>> /\ nest[Len(nest)].at = "body"
        OBVIOUS
      <4>7. k < N <=> Len(hs[k].where) < M - 1
        <5> HIDE DEF n, nest
        <5>1. QED
          BY <1>1, <1>2, <1>3, <3>1, <4>6, LastIsInnermost DEF M, N
      <4>8. j <= m \/ j = M
        BY <4>1
      <4>9. m < M /\ m \in Nat
        OBVIOUS
      <4> HIDE DEF M, N, nest
      <4>10. QED
        BY <1>1, <4>2, <4>4, <4>5, <4>7, <4>8, <4>9
    <3>3. Becomes(nest, f.nest, m)
      OBVIOUS
    <3>4. N - 1 \in 0 .. Len(hs)
      BY <2>1
    <3> HIDE DEF n, nest
    <3>5. QED
      BY <1>2, <3>1, <3>2, <3>3, <3>4, StraightWithin
  <2>9. FrameRight(f, hs2, c, n, lossy)
    BY <2>2, <2>7, <2>8 DEF FrameRight
  <2> HIDE DEF n, N, hs2
  <2>10. StackRight([fs EXCEPT ![n] = f], hs2, c, lossy)
    BY <2>2, <2>3, <2>4, <2>6, <2>9, OneFrame DEF n
  <2>11. QED
    BY <2>10 DEF n, N, hs2
<1>6. QED
  BY <1>4, <1>5

\* A handler is added at the end: what is said of the others stays true.
LEMMA Added ==
    ASSUME NEW hs \in Seq(Handler), NEW h \in Handler, NEW c, NEW lossy, h.level = c,
           \A l \in 1 .. Len(hs) : hs[l].level = c => hs[l].frame <= h.frame,
           NEW k \in 1 .. Len(hs), LandingRight(hs, c, k, lossy)
    PROVE  LandingRight(Append(hs, h), c, k, lossy)
<1> DEFINE hs2 == Append(hs, h)
<1>1. Len(hs2) = Len(hs) + 1 /\ Len(hs) \in Nat /\ hs2[Len(hs) + 1] = h
      /\ \A l \in 1 .. Len(hs) : hs2[l] = hs[l]
  OBVIOUS
<1> SUFFICES LandingRight(hs2, c, k, lossy)
  OBVIOUS
<1> HIDE DEF hs2
<1>2. hs2[k] = hs[k] /\ k \in 1 .. Len(hs)
  BY <1>1
<1>3. CASE hs[k].level # c
  BY <1>2, <1>3 DEF LandingRight
<1>4. CASE hs[k].level = c /\ lossy /\ NoneBelow(hs, c, hs[k].frame)
  <2>1. h.frame >= hs[k].frame
    BY <1>2, <1>4
  <2>2. NoneBelow(hs2, c, hs[k].frame)
    BY <1>1, <1>4, <2>1 DEF NoneBelow
  <2>3. QED
    BY <1>2, <1>4, <2>2 DEF LandingRight
<1>5. CASE Covered(hs, c, hs[k].frame, hs[k].where, k - 1)
  <2>1. PICK p : Covers(p, hs, c, hs[k].frame, hs[k].where, k - 1)
    BY <1>5 DEF Covered
  <2>2. \A l \in 1 .. k - 1 : hs2[l] = hs[l]
    BY <1>1, <1>2
  <2>3. Covers(p, hs2, c, hs[k].frame, hs[k].where, k - 1)
    BY <2>1, <2>2 DEF Covers
  <2>4. QED
    BY <1>2, <2>3 DEF LandingRight, Covered
<1>6. QED
  BY <1>3, <1>4, <1>5 DEF LandingRight

\* The innermost frame enters the body of a try statement, whose handler is added.
LEMMA Pushed ==
    ASSUME NEW fs \in Seq(Frame), fs # <<>>, NEW hs \in Seq(Handler), NEW c, NEW lossy,
           StackRight(fs, hs, c, lossy), NEW f \in Frame, NEW h \in Handler, NEW clause,
           NEW nest, nest = fs[Len(fs)].nest,
           h = [frame |-> Len(fs), level |-> c, where |-> nest, clause |-> clause],
           f.nest = Append(nest, Body(clause)), clause.type \in Kind, clause.finally \in BOOLEAN,
           clause = [type |-> clause.type, finally |-> clause.finally],
           f.stray = fs[Len(fs)].stray
    PROVE  StackRight([fs EXCEPT ![Len(fs)] = f], Append(hs, h), c, lossy)
<1> DEFINE n == Len(fs)
           N == Len(hs)
           M == Len(nest)
           new == Append(nest, Body(clause))
           hs2 == Append(hs, h)
<1>1. /\ n \in Nat /\ n \in 1 .. n /\ N \in Nat
      /\ Len(hs2) = N + 1 /\ hs2[N + 1] = h /\ \A k \in 1 .. N : hs2[k] = hs[k]
      /\ hs2 \in Seq(Handler)
  OBVIOUS
<1>2. nest \in Seq(Constructs) /\ M \in Nat
  BY <1>1, FrameTypes
<1>3. /\ \A i \in 1 .. n : FrameRight(fs[i], hs, c, i, lossy)
      /\ Sorted(hs) /\ Attached(hs, c, n) /\ \A k \in 1 .. N : LandingRight(hs, c, k, lossy)
  BY DEF StackRight
<1>4. h.frame = n /\ h.level = c /\ h.where = nest /\ h.clause = clause
  OBVIOUS
<1>5. new \in Seq(Constructs) /\ Len(new) = M + 1 /\ new[M + 1] = Body(clause)
      /\ \A j \in 1 .. M : new[j] = nest[j]
  <2>1. Body(clause) \in Constructs
    BY DEF Body, Construct, Constructs, Place, Kind
  <2>2. QED
    BY <1>2, <2>1
<1>6. BodiesIn(new) = BodiesIn(nest) \cup {M + 1}
  BY <1>2, <1>5 DEF BodiesIn, Body, Construct
<1>7. Becomes(new, nest, M)
  BY <1>2, <1>5 DEF Becomes, BodiesIn
<1>8. \A j \in BodiesIn(nest) : /\ j \in 1 .. M
                                /\ \A i : DueIn(i, c, new, j) = DueIn(i, c, nest, j)
  <2> TAKE j \in BodiesIn(nest)
  <2>1. j \in 1 .. M
    BY DEF BodiesIn
  <2> HIDE DEF new, M
  <2>2. QED
    BY <1>2, <1>5, <1>7, <2>1, SameDue
<1>9. DueIn(n, c, new, M + 1) = h
  <2>1. SubSeq(new, 1, M) = nest
    BY <1>2
  <2>2. new[M + 1].type = clause.type /\ new[M + 1].finally = clause.finally
    BY <1>5 DEF Body, Construct
  <2> HIDE DEF new, M, n
  <2>3. (M + 1) - 1 = M
    BY <1>2
  <2>4. QED
    BY <1>4, <2>1, <2>2, <2>3 DEF DueIn, n
<1> HIDE DEF new, hs2, n, N, M
<1>10. Sorted(hs2)
  <2>1. \A k \in 1 .. N : hs[k].level <= c /\ (hs[k].level = c => hs[k].frame <= n)
    BY <1>3 DEF Attached, N
  <2>2. ASSUME NEW k \in 1 .. N
        PROVE  \/ hs2[k].level < h.level
               \/ hs2[k].level = h.level /\ hs2[k].frame <= h.frame
    <3>1. hs[k].level \in Nat
      BY <2>2, HandlerTypes DEF N
    <3>2. c \in Nat
      BY <1>4 DEF Handler
    <3>3. QED
      BY <1>1, <1>4, <2>1, <3>1, <3>2
  <2>3. \A k, l \in 1 .. N : k < l => \/ hs2[k].level < hs2[l].level
                                      \/ hs2[k].level = hs2[l].level /\ hs2[k].frame <= hs2[l].frame
    BY <1>1, <1>3 DEF Sorted, N
  <2>4. \A k \in 1 .. N + 1 : k \in 1 .. N \/ k = N + 1
    BY <1>1
  <2>5. \A k, l \in 1 .. N + 1 : k < l => k \in 1 .. N
    BY <1>1
  <2>6. QED
    BY <1>1, <2>2, <2>3, <2>4, <2>5 DEF Sorted
<1>11. Attached(hs2, c, n)
  <2>1. c \in Nat
    BY <1>4 DEF Handler
  <2>2. ASSUME NEW k \in 1 .. N + 1 PROVE hs2[k].level <= c /\ (hs2[k].level = c => hs2[k].frame <= n)
    <3>1. CASE k \in 1 .. N
      BY <1>1, <1>3, <3>1 DEF Attached, N
    <3>2. CASE k = N + 1
      BY <1>1, <1>4, <2>1, <3>2
    <3>3. QED
      BY <1>1, <3>1, <3>2
  <2>3. QED
    BY <1>1, <2>2 DEF Attached
\* The frames below have what they had.
<1>12. ASSUME NEW i \in 1 .. n - 1 PROVE FrameRight(fs[i], hs2, c, i, lossy)
  <2>1. i \in 1 .. n /\ i # n /\ i <= n /\ fs[i] \in Frame /\ FrameRight(fs[i], hs, c, i, lossy)
    BY <1>1, <1>3 DEF n
  <2>2. OfIn(hs2, c, i) = OfIn(hs, c, i)
    BY <1>1, <1>4, <2>1 DEF OfIn, N
  <2>3. \A k \in OfIn(hs, c, i) : hs2[k] = hs[k]
    BY <1>1 DEF OfIn, N
  <2>4. ~ fs[i].stray => Orderly(hs2, c, i, fs[i].nest)
    BY <2>1, <2>2, <2>3 DEF FrameRight, Orderly
  <2>5. NoneBelow(hs, c, i) => NoneBelow(hs2, c, i)
    <3> SUFFICES ASSUME NoneBelow(hs, c, i), NEW k \in 1 .. N + 1, hs2[k].level = c
                 PROVE  hs2[k].frame >= i
      BY <1>1 DEF NoneBelow
    <3>1. CASE k \in 1 .. N
      BY <1>1, <3>1 DEF NoneBelow, N
    <3>2. CASE k = N + 1
      BY <1>1, <1>4, <2>1, <3>2
    <3>3. QED
      BY <1>1, <3>1, <3>2
  <2>6. Covered(hs, c, i, fs[i].nest, N) => Covered(hs2, c, i, fs[i].nest, N + 1)
    <3> SUFFICES ASSUME NEW p, Covers(p, hs, c, i, fs[i].nest, N)
                 PROVE  Covers(p, hs2, c, i, fs[i].nest, N + 1)
      BY DEF Covered
    <3>1. QED
      BY <1>1 DEF Covers
  <2>7. QED
    BY <1>1, <2>1, <2>4, <2>5, <2>6 DEF FrameRight, N
<1>13. Covered(hs, c, n, nest, N) => Covered(hs2, c, n, new, N + 1)
  <2> SUFFICES ASSUME NEW p, Covers(p, hs, c, n, nest, N)
               PROVE  Covered(hs2, c, n, new, N + 1)
    BY DEF Covered
  <2> DEFINE q == [j \in BodiesIn(new) |-> IF j = M + 1 THEN N + 1 ELSE p[j]]
  <2>1. \A j \in BodiesIn(nest) : p[j] \in 1 .. N /\ hs[p[j]] = DueIn(n, c, nest, j) /\ j # M + 1
    BY <1>2, <1>8 DEF Covers
  <2>2. q \in [BodiesIn(new) -> 1 .. N + 1]
    BY <1>1, <1>6, <2>1
  <2>3. ASSUME NEW j \in BodiesIn(new) PROVE hs2[q[j]] = DueIn(n, c, new, j)
    <3>1. CASE j = M + 1
      BY <1>1, <1>9, <2>3, <3>1
    <3>2. CASE j # M + 1
      BY <1>1, <1>6, <1>8, <2>1, <2>3, <3>2
    <3>3. QED
      BY <3>1, <3>2
  <2>4. ASSUME NEW j \in BodiesIn(new), NEW k \in BodiesIn(new), j < k PROVE q[j] < q[k]
    <3>1. j \in BodiesIn(nest)
      BY <1>2, <1>6, <1>8, <2>4
    <3>2. CASE k = M + 1
      BY <1>1, <2>1, <2>4, <3>1, <3>2
    <3>3. CASE k # M + 1
      BY <1>6, <2>1, <2>4, <3>1, <3>3 DEF Covers
    <3>4. QED
      BY <3>2, <3>3
  <2> HIDE DEF q
  <2>5. Covers(q, hs2, c, n, new, N + 1)
    BY <2>2, <2>3, <2>4 DEF Covers
  <2>6. QED
    BY <2>5 DEF Covered
<1>14. NoneBelow(hs, c, n) => NoneBelow(hs2, c, n)
  BY <1>1, <1>4 DEF NoneBelow, N
<1>15. ~ f.stray => Orderly(hs2, c, n, new)
  <2> SUFFICES ASSUME ~ f.stray PROVE Orderly(hs2, c, n, new)
    OBVIOUS
  <2> DEFINE U == OfIn(hs, c, n)
  <2>1. OfIn(hs2, c, n) = U \cup {N + 1}
    BY <1>1, <1>4 DEF OfIn, N
  <2>2. \A k \in U : k \in 1 .. N /\ hs2[k] = hs[k]
    BY <1>1 DEF OfIn, N
  <2>3. Orderly(hs, c, n, nest)
    BY <1>1, <1>3 DEF FrameRight, n
  <2>4. \A k \in U : \E j \in BodiesIn(nest) : hs[k] = DueIn(n, c, nest, j)
    BY <2>3 DEF Orderly
  <2>5. ASSUME NEW k \in U PROVE Len(hs[k].where) < M /\ Len(hs[k].where) \in Nat
    <3>1. PICK j \in BodiesIn(nest) : hs[k] = DueIn(n, c, nest, j)
      BY <2>4
    <3>2. Len(hs[k].where) = j - 1 /\ j \in 1 .. M
      BY <1>2, <1>8, <3>1, DueFields DEF M
    <3>3. QED
      BY <1>2, <3>2
  <2>6. ASSUME NEW k \in OfIn(hs2, c, n) PROVE \E j \in BodiesIn(new) : hs2[k] = DueIn(n, c, new, j)
    <3>1. CASE k \in U
      BY <1>6, <1>8, <2>2, <2>4, <3>1
    <3>2. CASE k = N + 1
      BY <1>1, <1>6, <1>9, <3>2
    <3>3. QED
      BY <2>1, <3>1, <3>2
  <2>7. ASSUME NEW k \in OfIn(hs2, c, n), NEW l \in OfIn(hs2, c, n), k < l
        PROVE  Len(hs2[k].where) < Len(hs2[l].where)
    <3>1. k \in U
      BY <1>1, <2>1, <2>2, <2>7
    <3>2. CASE l = N + 1
      BY <1>1, <1>4, <2>2, <2>5, <3>1, <3>2 DEF M
    <3>3. CASE l \in U
      BY <2>2, <2>3, <2>7, <3>1, <3>3 DEF Orderly
    <3>4. QED
      BY <2>1, <3>2, <3>3
  <2>8. ASSUME NEW k \in OfIn(hs2, c, n), NEW j \in BodiesIn(new), Len(hs2[k].where) < j
        PROVE  \E l \in OfIn(hs2, c, n) : hs2[l] = DueIn(n, c, new, j)
    <3>1. CASE j = M + 1
      BY <1>1, <1>9, <2>1, <3>1
    <3>2. CASE j \in BodiesIn(nest)
      <4>1. k \in U
        <5>1. j <= M /\ j \in Nat
          BY <1>2, <1>8, <3>2
        <5>2. Len(h.where) = M
          BY <1>4 DEF M
        <5>3. k # N + 1
          BY <1>1, <1>2, <2>8, <5>1, <5>2
        <5>4. QED
          BY <2>1, <5>3
      <4>2. PICK l \in U : hs[l] = DueIn(n, c, nest, j)
        BY <2>2, <2>3, <2>8, <3>2, <4>1 DEF Orderly
      <4>3. QED
        BY <1>8, <2>1, <2>2, <3>2, <4>2
    <3>3. QED
      BY <1>6, <3>1, <3>2
  <2>9. QED
    BY <2>6, <2>7, <2>8 DEF Orderly
<1>16. FrameRight(f, hs2, c, n, lossy)
  <2>1. FrameRight(fs[n], hs, c, n, lossy) /\ fs[n].nest = nest /\ f.nest = new
    BY <1>1, <1>3 DEF n, new
  <2>2. QED
    BY <1>1, <1>13, <1>14, <1>15, <2>1 DEF FrameRight, N
\* The new handler leads to where its frame was.
<1>17. ASSUME NEW k \in 1 .. Len(hs2) PROVE LandingRight(hs2, c, k, lossy)
  <2>1. CASE k \in 1 .. N
    <3>1. \A l \in 1 .. Len(hs) : hs[l].level = c => hs[l].frame <= h.frame
      BY <1>3, <1>4 DEF Attached
    <3>2. QED
      BY <1>3, <1>4, <2>1, <3>1, Added DEF hs2, N
  <2>2. CASE k = N + 1
    <3>1. FrameRight(fs[n], hs, c, n, lossy) /\ fs[n].nest = nest
      BY <1>1, <1>3 DEF n
    <3>2. Covered(hs, c, n, nest, N) => Covered(hs2, c, n, nest, N)
      <4> SUFFICES ASSUME NEW p, Covers(p, hs, c, n, nest, N)
                   PROVE  Covers(p, hs2, c, n, nest, N)
        BY DEF Covered
      <4>1. QED
        BY <1>1 DEF Covers
    <3>3. (N + 1) - 1 = N
      BY <1>1
    <3>4. QED
      BY <1>1, <1>4, <1>14, <2>2, <3>1, <3>2, <3>3 DEF LandingRight, FrameRight, N
  <2>3. QED
    BY <1>1, <2>1, <2>2
<1>18. QED
  BY <1>10, <1>11, <1>12, <1>16, <1>17, OneFrame DEF n, hs2

\* A handler is landed at: those before it are left, and its frame is sent to its
\* block.
LEMMA Landed ==
    ASSUME NEW fs \in Seq(Frame), NEW hs \in Seq(Handler), NEW c, NEW lossy,
           StackRight(fs, hs, c, lossy), NEW k \in 1 .. Len(hs), hs[k].level = c,
           NEW block \in Constructs, block.at # "body",
           NEW f \in Frame, f.nest = Append(hs[k].where, block),
           f.stray = fs[hs[k].frame].stray
    PROVE  /\ hs[k].frame \in 1 .. Len(fs)
           /\ StackRight([SubSeq(fs, 1, hs[k].frame) EXCEPT ![hs[k].frame] = f],
                         SubSeq(hs, 1, k - 1), c, lossy)
<1> DEFINE n == hs[k].frame
           N == Len(hs)
           nest == fs[n].nest
           where == hs[k].where
           fs1 == SubSeq(fs, 1, n)
           hs2 == SubSeq(hs, 1, k - 1)
<1>1. n \in Nat /\ n > 0 /\ where \in Seq(Constructs) /\ Len(where) \in Nat
  BY HandlerTypes
<1>2. /\ \A i \in 1 .. Len(fs) : FrameRight(fs[i], hs, c, i, lossy)
      /\ Sorted(hs) /\ Attached(hs, c, Len(fs)) /\ \A l \in 1 .. N : LandingRight(hs, c, l, lossy)
  BY DEF StackRight
<1>3. n \in 1 .. Len(fs)
  BY <1>1, <1>2 DEF Attached
<1>4. /\ fs1 \in Seq(Frame) /\ Len(fs1) = n /\ fs1 # <<>> /\ \A i \in 1 .. n : fs1[i] = fs[i]
  BY <1>3
<1>5. k - 1 \in 0 .. N /\ N \in Nat /\ k \in Nat
  OBVIOUS
<1>6. hs2 \in Seq(Handler) /\ Len(hs2) = k - 1 /\ \A l \in 1 .. k - 1 : hs2[l] = hs[l]
  BY <1>5
<1>7. nest \in Seq(Constructs) /\ Len(nest) \in Nat
  BY <1>3, FrameTypes
<1>8. /\ f.nest \in Seq(Constructs) /\ Len(f.nest) = Len(where) + 1
      /\ \A j \in 1 .. Len(where) : f.nest[j] = where[j]
      /\ f.nest[Len(where) + 1] = block
  BY <1>1
<1>9. Becomes(where, f.nest, Len(where))
  BY <1>1, <1>8 DEF Becomes, BodiesIn
<1> HIDE DEF n, N, nest, where, fs1, hs2
<1>10. Sorted(hs2)
  BY <1>2, <1>5, CutOff DEF hs2, N
<1>11. ASSUME NEW l \in 1 .. k - 1 PROVE LandingRight(hs2, c, l, lossy)
  <2>1. l \in 1 .. N
    BY <1>5
  <2>2. QED
    BY <1>2, <1>5, <2>1, CutOff DEF hs2, N
<1>12. Attached(hs2, c, n)
  <2> SUFFICES ASSUME NEW l \in 1 .. k - 1
               PROVE  hs2[l].level <= c /\ (hs2[l].level = c => hs2[l].frame <= n)
    BY <1>6 DEF Attached
  <2>1. l \in 1 .. N /\ l < k /\ k \in 1 .. N
    BY <1>5 DEF N
  <2>2. hs[l].level <= c
    BY <1>2, <2>1 DEF Attached, N
  <2>3. hs[l].level = c => hs[l].frame <= n
    <3>1. hs[l].level \in Nat
      BY <2>1, HandlerTypes DEF N
    <3>2. QED
      BY <1>2, <2>1, <3>1 DEF Sorted, N, n
  <2>4. QED
    BY <1>6, <2>2, <2>3
<1>13. ASSUME NEW i \in 1 .. n - 1 PROVE FrameRight(fs1[i], hs2, c, i, lossy)
  <2>1. i \in 1 .. n /\ i < n /\ i \in 1 .. Len(fs) /\ fs1[i] = fs[i] /\ fs[i] \in Frame
    BY <1>1, <1>3, <1>4, FrameTypes
  <2>2. \A l \in OfIn(hs, c, i) : l <= k - 1
    <3> SUFFICES ASSUME NEW l \in OfIn(hs, c, i), k <= l PROVE FALSE
      BY <1>5 DEF OfIn, N
    <3>1. l \in 1 .. N /\ hs[l].level = c /\ hs[l].frame = i
      BY DEF OfIn, N
    <3>2. l # k
      BY <2>1, <3>1 DEF n
    <3>3. k < l /\ c \in Nat
      BY <1>5, <3>1, <3>2, HandlerTypes DEF N
    <3>4. hs[k].frame <= hs[l].frame
      BY <1>2, <3>1, <3>3 DEF Sorted, N
    <3>5. QED
      BY <1>1, <2>1, <3>1, <3>4 DEF n
  <2>3. FrameRight(fs[i], hs, c, i, lossy)
    BY <1>2, <2>1
  <2>4. FrameRight(fs[i], hs2, c, i, lossy)
    BY <1>5, <2>1, <2>2, <2>3, FrameKeeps DEF hs2, N
  <2>5. QED
    BY <2>1, <2>4
<1>14. (lossy /\ NoneBelow(hs2, c, n)) \/ Covered(hs2, c, n, f.nest, k - 1)
  <2>1. CASE lossy /\ NoneBelow(hs, c, n)
    BY <1>5, <2>1, CutOff DEF hs2, N
  <2>2. CASE Covered(hs, c, n, where, k - 1)
    <3>1. PICK p : Covers(p, hs, c, n, where, k - 1)
      BY <2>2 DEF Covered
    <3>2. \A j \in BodiesIn(f.nest) : p[j] <= k - 1
      BY <1>5, <1>9, <3>1, SMTT(30) DEF Covers, Becomes, BodiesIn
    <3>3. \A l \in 1 .. k - 1 : l <= k - 1 => hs2[l] = hs[l]
      BY <1>6
    <3>4. k - 1 \in Nat
      BY <1>5
    <3>5. QED
      BY <1>1, <1>8, <1>9, <3>1, <3>2, <3>3, <3>4, CoveredWithin, ZenonT(60)
  <2>3. LandingRight(hs, c, k, lossy)
    BY <1>2 DEF N
  <2>4. QED
    BY <2>1, <2>2, <2>3 DEF LandingRight, n, where
<1>15. ~ f.stray => Orderly(hs2, c, n, f.nest)
  <2> SUFFICES ASSUME ~ f.stray PROVE Orderly(hs2, c, n, f.nest)
    OBVIOUS
  <2>1. Orderly(hs, c, n, nest)
    BY <1>2, <1>3 DEF FrameRight, n, nest
  <2>2. k \in OfIn(hs, c, n)
    BY DEF OfIn, n
  <2>3. PICK j \in BodiesIn(nest) : hs[k] = DueIn(n, c, nest, j)
    BY <2>1, <2>2 DEF Orderly
  <2>4. j \in 1 .. Len(nest) /\ j \in Nat /\ j - 1 \in 0 .. Len(nest)
    BY <1>7 DEF BodiesIn
  <2>5. where = SubSeq(nest, 1, j - 1) /\ Len(where) = j - 1
    <3>1. where = DueIn(n, c, nest, j).where
      BY <2>3 DEF where
    <3>2. QED
      BY <1>7, <2>4, <3>1, DueFields
  <2>6. \A l \in 1 .. j - 1 : where[l] = nest[l]
    BY <1>7, <2>4, <2>5
  <2>7. Becomes(nest, f.nest, j - 1)
    BY <1>8, <1>9, <2>4, <2>5, <2>6 DEF Becomes
  <2>8. \A l \in OfIn(hs, c, n) : l <= k - 1 <=> Len(hs[l].where) < j - 1
    <3> TAKE l \in OfIn(hs, c, n)
    <3>1. l \in Nat /\ Len(hs[l].where) \in Nat
      BY HandlerTypes DEF OfIn
    <3>2. /\ l < k => Len(hs[l].where) < Len(where)
          /\ k < l => Len(where) < Len(hs[l].where)
      BY <2>1, <2>2 DEF Orderly, where
    <3>3. l = k => Len(hs[l].where) = Len(where)
      BY DEF where
    <3>4. QED
      BY <1>5, <2>4, <2>5, <3>1, <3>2, <3>3
  <2>9. j - 1 \in Nat
    BY <2>4
  <2>10. QED
    BY <1>5, <1>7, <1>8, <2>1, <2>7, <2>8, <2>9, StraightWithin DEF hs2, N
<1>16. FrameRight(f, hs2, c, n, lossy)
  BY <1>6, <1>14, <1>15 DEF FrameRight
<1>17. StackRight([fs1 EXCEPT ![n] = f], hs2, c, lossy)
  <2>1. \A l \in 1 .. Len(hs2) : LandingRight(hs2, c, l, lossy)
    BY <1>6, <1>11
  <2>2. \A i \in 1 .. Len(fs1) - 1 : FrameRight(fs1[i], hs2, c, i, lossy)
    BY <1>4, <1>13
  <2>3. FrameRight(f, hs2, c, Len(fs1), lossy) /\ Attached(hs2, c, Len(fs1))
    BY <1>4, <1>12, <1>16
  <2>4. StackRight([fs1 EXCEPT ![Len(fs1)] = f], hs2, c, lossy)
    BY <1>4, <1>10, <2>1, <2>2, <2>3, OneFrame
  <2>5. QED
    BY <1>4, <2>4
<1>18. QED
  BY <1>3, <1>17 DEF n, fs1, hs2

\* A function is called: its frame has no handler yet, and needs none.
LEMMA Entering ==
    ASSUME NEW fs \in Seq(Frame), NEW hs \in Seq(Handler), NEW c, NEW lossy,
           StackRight(fs, hs, c, lossy)
    PROVE  StackRight(Append(fs, Entered), hs, c, lossy)
<1> DEFINE n == Len(fs)
           fs2 == Append(fs, Entered)
<1>1. n \in Nat /\ Len(fs2) = n + 1 /\ fs2[n + 1] = Entered /\ \A i \in 1 .. n : fs2[i] = fs[i]
  OBVIOUS
<1>2. /\ \A i \in 1 .. n : FrameRight(fs[i], hs, c, i, lossy)
      /\ Sorted(hs) /\ Attached(hs, c, n) /\ \A k \in 1 .. Len(hs) : LandingRight(hs, c, k, lossy)
  BY DEF StackRight
<1>3. Entered.nest = <<>> /\ BodiesIn(<<>>) = {}
  BY DEF Entered, BodiesIn
<1> HIDE DEF n, fs2
<1>4. OfIn(hs, c, n + 1) = {}
  <2> SUFFICES ASSUME NEW k \in OfIn(hs, c, n + 1) PROVE FALSE
    OBVIOUS
  <2>1. k \in 1 .. Len(hs) /\ hs[k].level = c /\ hs[k].frame = n + 1
    BY DEF OfIn
  <2>2. QED
    BY <1>1, <1>2, <2>1 DEF Attached
<1>5. Orderly(hs, c, n + 1, <<>>)
  BY <1>4 DEF Orderly
<1>6. Covered(hs, c, n + 1, <<>>, Len(hs))
  <2> DEFINE p == [j \in {} |-> 1]
  <2>1. Covers(p, hs, c, n + 1, <<>>, Len(hs))
    BY <1>3 DEF Covers
  <2>2. QED
    BY <2>1 DEF Covered
<1>7. FrameRight(Entered, hs, c, n + 1, lossy)
  BY <1>3, <1>5, <1>6 DEF FrameRight
<1>8. Attached(hs, c, n + 1)
  <2> SUFFICES ASSUME NEW k \in 1 .. Len(hs), hs[k].level = c PROVE hs[k].frame <= n + 1
    BY <1>2 DEF Attached
  <2>1. hs[k].frame \in Nat /\ hs[k].frame <= n
    BY <1>2, HandlerTypes DEF Attached
  <2>2. QED
    BY <1>1, <2>1
<1>9. \A i \in 1 .. Len(fs2) : FrameRight(fs2[i], hs, c, i, lossy)
  <2> TAKE i \in 1 .. Len(fs2)
  <2>1. CASE i = n + 1
    BY <1>1, <1>7, <2>1
  <2>2. CASE i # n + 1
    BY <1>1, <1>2, <2>2
  <2>3. QED
    BY <2>1, <2>2
<1>10. StackRight(fs2, hs, c, lossy)
  BY <1>1, <1>2, <1>8, <1>9 DEF StackRight
<1>11. QED
  BY <1>10 DEF fs2

\* A stack of its own begins so too, in a callback and at the start.
LEMMA EnteringAnew ==
    ASSUME NEW hs \in Seq(Handler), Sorted(hs), NEW c, NEW lossy,
           c \in Nat, \A k \in 1 .. Len(hs) : hs[k].level < c
    PROVE  StackRight(<<Entered>>, hs, c, lossy)
<1>0. PICK fs : fs = <<>>
  OBVIOUS
<1> fs \in Seq(Frame) /\ Len(fs) = 0
  BY <1>0
<1>1. Attached(hs, c, Len(fs))
  <2> SUFFICES ASSUME NEW k \in 1 .. Len(hs)
               PROVE  hs[k].level <= c /\ hs[k].level # c
    BY DEF Attached
  <2>1. hs[k].level \in Nat /\ hs[k].level < c
    BY HandlerTypes
  <2>2. QED
    BY <2>1
<1>2. \A k \in 1 .. Len(hs) : hs[k].level # c
  BY HandlerTypes
<1>3. StackRight(fs, hs, c, lossy)
  BY <1>1, <1>2 DEF StackRight, LandingRight
<1>4. StackRight(Append(fs, Entered), hs, c, lossy)
  BY <1>3, Entering
<1>5. Append(fs, Entered) = <<Entered>>
  BY <1>0
<1>6. QED
  BY <1>4, <1>5

\* All handlers are lost, which only a callback survives.
LEMMA Emptied ==
    ASSUME NEW fs \in Seq(Frame), NEW c
    PROVE  StackRight(fs, <<>>, c, TRUE)
<1>0. PICK hs : hs = <<>>
  OBVIOUS
<1>1. 1 .. Len(hs) = {}
  BY <1>0
<1>2. \A i : OfIn(hs, c, i) = {} /\ NoneBelow(hs, c, i)
  BY <1>1 DEF OfIn, NoneBelow
<1>3. StackRight(fs, hs, c, TRUE)
  BY <1>1, <1>2 DEF StackRight, Sorted, Attached, FrameRight, Orderly
<1>4. QED
  BY <1>0, <1>3

(***************************************************************************)
(* What is retained: every handler of the new stack is an old one, in the  *)
(* order they had, and all that were to be retained are there.             *)
(***************************************************************************)
RetainedBy(g, hs, n, keep, new) ==
    /\ new \in Seq(Handler) /\ Len(new) <= n /\ g \in [1 .. Len(new) -> 1 .. n]
    /\ \A k \in 1 .. Len(new) : new[k] = hs[g[k]]
    /\ \A k, l \in 1 .. Len(new) : k < l => g[k] < g[l]
    /\ \A l \in 1 .. n : l \in keep <=> \E k \in 1 .. Len(new) : g[k] = l

\* Retain gives such a subsequence, for any places to keep.
LEMMA Retaining ==
    ASSUME handlers \in Seq(Handler), NEW keep
    PROVE  /\ Retain(keep) \in Seq(Handler)
           /\ \E g : RetainedBy(g, handlers, Len(handlers), keep, Retain(keep))
<1> DEFINE N == Len(handlers)
           Def(f, n) == IF n = 0 THEN <<>>
                        ELSE IF n \in keep THEN Append(f[n - 1], handlers[n]) ELSE f[n - 1]
           f == CHOOSE f : f = [n \in 0 .. N |-> Def(f, n)]
<1>1. N \in Nat /\ handlers \in Seq(Handler) /\ \A n \in 1 .. N : handlers[n] \in Handler
  OBVIOUS
<1>2. f = [n \in 0 .. N |-> Def(f, n)]
  <2> DEFINE P == {m \in Nat : \E h : h = [n \in 0 .. m |-> Def(h, n)]}
  <2>1. 0 \in P
    <3> DEFINE h == [n \in 0 .. 0 |-> <<>>]
    <3>1. h = [n \in 0 .. 0 |-> Def(h, n)]
      OBVIOUS
    <3>2. QED
      BY <3>1
  <2>2. ASSUME NEW m \in Nat, m \in P PROVE m + 1 \in P
    <3>1. PICK h : h = [n \in 0 .. m |-> Def(h, n)]
      BY <2>2
    <3> DEFINE e == [n \in 0 .. m + 1 |-> IF n \in 0 .. m THEN h[n] ELSE Def(h, n)]
    <3>2. ASSUME NEW n \in 0 .. m + 1 PROVE e[n] = Def(e, n)
      <4>1. CASE n = 0
        BY <3>1, <4>1
      <4>2. CASE n # 0
        <5>1. n - 1 \in 0 .. m /\ e[n - 1] = h[n - 1]
          BY <4>2
        <5>2. CASE n \in 0 .. m
          BY <3>1, <5>1, <5>2
        <5>3. CASE n = m + 1
          BY <5>1, <5>3
        <5>4. QED
          BY <5>2, <5>3
      <4>3. QED
        BY <4>1, <4>2
    <3>3. e = [n \in 0 .. m + 1 |-> e[n]]
      OBVIOUS
    <3> HIDE DEF e
    <3>4. e = [n \in 0 .. m + 1 |-> Def(e, n)]
      BY <3>2, <3>3
    <3>5. \E d : d = [n \in 0 .. m + 1 |-> Def(d, n)]
      BY <3>4, Zenon
    <3>6. m + 1 \in Nat
      OBVIOUS
    <3> HIDE DEF e, Def
    <3>7. QED
      BY <3>5, <3>6, Zenon
  <2>3. Nat \subseteq P
    <3> HIDE DEF P
    <3>1. QED
      BY <2>1, <2>2, AllNumbers
  <2>4. QED
    BY <1>1, <2>3
<1>3. Retain(keep) = f[N]
  BY DEF Retain
<1> HIDE DEF f, N
<1>4. f[0] = <<>>
  BY <1>1, <1>2
<1>5. \A n \in 1 .. N : f[n] = IF n \in keep THEN Append(f[n - 1], handlers[n]) ELSE f[n - 1]
  <2> TAKE n \in 1 .. N
  <2>1. n \in 0 .. N /\ n # 0
    BY <1>1
  <2>2. f[n] = Def(f, n)
    <3> HIDE DEF Def
    <3>1. QED
      BY <1>2, <2>1
  <2>3. QED
    BY <2>1, <2>2
<1> DEFINE Q == {n \in Nat : n <= N => \E g : RetainedBy(g, handlers, n, keep, f[n])}
<1>6. 0 \in Q
  <2> DEFINE g == [k \in 1 .. 0 |-> 1]
  <2>1. f[0] \in Seq(Handler) /\ Len(f[0]) = 0 /\ 1 .. 0 = {}
    BY <1>4
  <2>2. RetainedBy(g, handlers, 0, keep, f[0])
    BY <2>1 DEF RetainedBy
  <2>3. QED
    BY <2>2
<1>7. ASSUME NEW n \in Nat, n \in Q PROVE n + 1 \in Q
  <2> SUFFICES ASSUME n + 1 <= N
               PROVE  \E g : RetainedBy(g, handlers, n + 1, keep, f[n + 1])
    OBVIOUS
  <2>1. n <= N /\ n + 1 \in 1 .. N /\ (n + 1) - 1 = n
    BY <1>1
  <2>2. PICK g : RetainedBy(g, handlers, n, keep, f[n])
    BY <1>7, <2>1
  <2> DEFINE new == f[n]
             L == Len(new)
  <2>3. /\ new \in Seq(Handler) /\ L \in Nat /\ L <= n /\ g \in [1 .. L -> 1 .. n]
        /\ \A k \in 1 .. L : new[k] = handlers[g[k]]
        /\ \A k, l \in 1 .. L : k < l => g[k] < g[l]
        /\ \A l \in 1 .. n : l \in keep <=> \E k \in 1 .. L : g[k] = l
    BY <2>2 DEF RetainedBy
  <2>4. CASE n + 1 \in keep
    <3> DEFINE e == [k \in 1 .. L + 1 |-> IF k = L + 1 THEN n + 1 ELSE g[k]]
               longer == Append(new, handlers[n + 1])
    <3>1. f[n + 1] = longer
      BY <1>5, <2>1, <2>4
    <3> HIDE DEF new, L
    <3>2. /\ longer \in Seq(Handler) /\ Len(longer) = L + 1
          /\ longer[L + 1] = handlers[n + 1] /\ \A k \in 1 .. L : longer[k] = new[k]
      BY <1>1, <2>1, <2>3 DEF L
    <3> HIDE DEF longer
    <3>3. e \in [1 .. L + 1 -> 1 .. n + 1]
      BY <2>3
    <3>4. \A k \in 1 .. L + 1 : longer[k] = handlers[e[k]]
      BY <2>3, <3>2
    <3>5. \A k, l \in 1 .. L + 1 : k < l => e[k] < e[l]
      <4> TAKE k, l \in 1 .. L + 1
      <4>1. CASE l = L + 1
        BY <2>3, <4>1
      <4>2. CASE l # L + 1
        BY <2>3, <4>2
      <4>3. QED
        BY <4>1, <4>2
    <3>6. ASSUME NEW l \in 1 .. n + 1 PROVE l \in keep <=> \E k \in 1 .. L + 1 : e[k] = l
      <4>1. CASE l = n + 1
        <5>1. L + 1 \in 1 .. L + 1 /\ e[L + 1] = n + 1
          BY <2>3
        <5>2. QED
          BY <2>4, <4>1, <5>1
      <4>2. CASE l # n + 1
        <5>1. l \in 1 .. n
          BY <4>2
        <5>2. \A k \in 1 .. L + 1 : e[k] = l => k \in 1 .. L
          BY <2>3, <4>2
        <5>3. \A k \in 1 .. L : k \in 1 .. L + 1 /\ e[k] = g[k]
          BY <2>3
        <5> HIDE DEF e
        <5>4. QED
          BY <2>3, <5>1, <5>2, <5>3
      <4>3. QED
        BY <4>1, <4>2
    <3> HIDE DEF e
    <3>7. Len(longer) <= n + 1
      BY <2>3, <3>2
    <3>8. RetainedBy(e, handlers, n + 1, keep, longer)
      BY <3>2, <3>3, <3>4, <3>5, <3>6, <3>7 DEF RetainedBy
    <3>9. QED
      BY <3>1, <3>8
  <2>5. CASE n + 1 \notin keep
    <3>1. f[n + 1] = new
      BY <1>5, <2>1, <2>5
    <3> HIDE DEF new, L
    <3>2. g \in [1 .. L -> 1 .. n + 1]
      BY <2>3
    <3>3. \A k \in 1 .. L : g[k] # n + 1
      BY <2>3
    <3>4. ASSUME NEW l \in 1 .. n + 1 PROVE l \in keep <=> \E k \in 1 .. L : g[k] = l
      <4>1. CASE l = n + 1
        BY <2>5, <3>3, <4>1
      <4>2. CASE l # n + 1
        <5>1. l \in 1 .. n
          BY <4>2
        <5>2. QED
          BY <2>3, <5>1
      <4>3. QED
        BY <4>1, <4>2
    <3>5. L <= n + 1
      BY <2>3
    <3>6. RetainedBy(g, handlers, n + 1, keep, new)
      <4> SUFFICES /\ new \in Seq(Handler) /\ L <= n + 1 /\ g \in [1 .. L -> 1 .. n + 1]
                   /\ \A k \in 1 .. L : new[k] = handlers[g[k]]
                   /\ \A k, l \in 1 .. L : k < l => g[k] < g[l]
                   /\ \A l \in 1 .. n + 1 : l \in keep <=> \E k \in 1 .. L : g[k] = l
        BY Zenon DEF RetainedBy, L
      <4>1. QED
        BY <2>3, <3>2, <3>4, <3>5, Zenon
    <3>7. QED
      BY <3>1, <3>6
  <2>6. QED
    BY <2>4, <2>5
<1>8. Nat \subseteq Q
  <2> HIDE DEF Q
  <2>1. QED
    BY <1>6, <1>7, AllNumbers
<1>9. \E g : RetainedBy(g, handlers, N, keep, f[N])
  BY <1>1, <1>8
<1>10. QED
  BY <1>3, <1>9 DEF RetainedBy, N

\* A frame returns: its handlers go, and those of the frames that are left stay.
LEMMA Returned ==
    ASSUME NEW fs \in Seq(Frame), NEW n \in Nat, n < Len(fs), NEW hs \in Seq(Handler),
           NEW c, NEW lossy, StackRight(fs, hs, c, lossy), NEW g, NEW new,
           RetainedBy(g, hs, Len(hs), {k \in 1 .. Len(hs) : hs[k].frame <= n}, new)
    PROVE  StackRight(SubSeq(fs, 1, n), new, c, lossy)
<1> DEFINE N == Len(hs)
           L == Len(new)
           keep == {k \in 1 .. N : hs[k].frame <= n}
           fs2 == SubSeq(fs, 1, n)
           q == [l \in keep |-> CHOOSE k \in 1 .. L : g[k] = l]
<1>1. /\ new \in Seq(Handler) /\ L \in Nat /\ N \in Nat /\ g \in [1 .. L -> 1 .. N]
      /\ \A k \in 1 .. L : new[k] = hs[g[k]] /\ g[k] \in 1 .. N
      /\ \A k, l \in 1 .. L : k < l => g[k] < g[l]
      /\ \A l \in 1 .. N : l \in keep <=> \E k \in 1 .. L : g[k] = l
  <2>1. /\ new \in Seq(Handler) /\ g \in [1 .. L -> 1 .. N]
        /\ \A k \in 1 .. L : new[k] = hs[g[k]]
        /\ \A k, l \in 1 .. L : k < l => g[k] < g[l]
        /\ \A l \in 1 .. N : l \in keep <=> \E k \in 1 .. L : g[k] = l
    <3> HIDE DEF keep
    <3>1. RetainedBy(g, hs, N, keep, new)
      BY DEF keep
    <3>2. QED
      BY <3>1 DEF RetainedBy
  <2>2. L \in Nat /\ N \in Nat
    BY <2>1
  <2> HIDE DEF L, N, keep
  <2>3. QED
    BY <2>1, <2>2
<1>2. /\ fs2 \in Seq(Frame) /\ Len(fs2) = n /\ \A i \in 1 .. n : fs2[i] = fs[i] /\ i \in 1 .. Len(fs)
  OBVIOUS
<1>3. /\ \A i \in 1 .. Len(fs) : FrameRight(fs[i], hs, c, i, lossy)
      /\ Sorted(hs) /\ Attached(hs, c, Len(fs)) /\ \A k \in 1 .. N : LandingRight(hs, c, k, lossy)
  BY DEF StackRight
<1>4. \A k \in 1 .. L : g[k] \in keep /\ hs[g[k]].frame <= n
  BY <1>1
<1>5. \A l \in keep : l \in 1 .. N /\ q[l] \in 1 .. L /\ g[q[l]] = l
  BY <1>1
<1> HIDE DEF q
<1>6. \A k, l \in keep : k < l => q[k] < q[l]
  <2> SUFFICES ASSUME NEW k \in keep, NEW l \in keep, k < l PROVE q[k] < q[l]
    OBVIOUS
  <2>1. /\ q[k] \in 1 .. L /\ q[l] \in 1 .. L /\ g[q[k]] = k /\ g[q[l]] = l
        /\ k \in Nat /\ l \in Nat
    BY <1>5
  <2>2. q[l] < q[k] => l < k
    BY <1>1, <2>1
  <2>3. q[l] = q[k] => l = k
    BY <2>1
  <2>4. QED
    BY <2>1, <2>2, <2>3
<1>7. \A k \in keep : new[q[k]] = hs[k]
  BY <1>1, <1>5
<1>8. \A k \in 1 .. L : q[g[k]] = k
  <2> TAKE k \in 1 .. L
  <2>1. q[g[k]] \in 1 .. L /\ g[q[g[k]]] = g[k] /\ g[k] \in Nat
    BY <1>1, <1>4, <1>5
  <2>2. k < q[g[k]] => g[k] < g[k]
    BY <1>1, <2>1
  <2>3. q[g[k]] < k => g[k] < g[k]
    BY <1>1, <2>1
  <2>4. QED
    BY <2>1, <2>2, <2>3
<1> HIDE DEF N, L, fs2, keep
<1>9. Sorted(new)
  <2> SUFFICES ASSUME NEW k \in 1 .. L, NEW l \in 1 .. L, k < l
               PROVE  \/ new[k].level < new[l].level
                      \/ new[k].level = new[l].level /\ new[k].frame <= new[l].frame
    BY DEF Sorted, L
  <2>1. g[k] \in 1 .. N /\ g[l] \in 1 .. N /\ g[k] < g[l] /\ new[k] = hs[g[k]] /\ new[l] = hs[g[l]]
    BY <1>1
  <2>2. QED
    BY <1>3, <2>1 DEF Sorted, N
<1>10. Attached(new, c, n)
  <2> SUFFICES ASSUME NEW k \in 1 .. L
               PROVE  new[k].level <= c /\ (new[k].level = c => new[k].frame <= n)
    BY DEF Attached, L
  <2>1. QED
    BY <1>1, <1>3, <1>4 DEF Attached, N
<1>11. \A i : NoneBelow(hs, c, i) => NoneBelow(new, c, i)
  BY <1>1 DEF NoneBelow, N, L
<1>12. ASSUME NEW i \in 1 .. n PROVE FrameRight(fs2[i], new, c, i, lossy)
  <2> DEFINE nest == fs2[i].nest
             M == Len(nest)
  <2>1. nest \in Seq(Constructs) /\ M \in Nat /\ FrameRight(fs2[i], hs, c, i, lossy)
        /\ i \in Nat /\ i <= n
    BY <1>2, <1>3, FrameTypes
  <2>2. Becomes(nest, nest, M)
    BY <2>1 DEF Becomes, BodiesIn
  <2>3. \A l \in OfIn(hs, c, i) : l \in keep
    BY <2>1 DEF OfIn, keep, N
  <2>4. Covered(hs, c, i, nest, N) => Covered(new, c, i, nest, L)
    <3> SUFFICES ASSUME NEW p, Covers(p, hs, c, i, nest, N)
                 PROVE  Covered(new, c, i, nest, L)
      BY DEF Covered
    <3>1. ASSUME NEW j \in BodiesIn(nest) PROVE p[j] \in keep
      <4>1. p[j] \in 1 .. N /\ hs[p[j]] = DueIn(i, c, nest, j)
        BY <3>1 DEF Covers
      <4>2. p[j] \in OfIn(hs, c, i)
        BY <4>1 DEF OfIn, DueIn, N
      <4>3. QED
        BY <2>3, <4>2
    <3>2. keep \in SUBSET Nat
      BY DEF keep
    <3>3. \A k \in keep : q[k] \in 1 .. L /\ new[q[k]] = hs[k]
      BY <1>5, <1>7
    <3>4. \A k, l \in keep : k < l => q[k] < q[l]
      BY <1>6
    <3>5. N \in Nat /\ L \in Nat /\ nest \in Seq(Constructs) /\ M \in Nat
      BY <1>1, <2>1
    <3> HIDE DEF nest, M
    <3>6. QED
      BY <2>2, <3>1, <3>2, <3>3, <3>4, <3>5, StillCovered
  <2>5. ~ fs2[i].stray => Orderly(new, c, i, nest)
    <3> SUFFICES ASSUME ~ fs2[i].stray PROVE Orderly(new, c, i, nest)
      OBVIOUS
    <3>1. Orderly(hs, c, i, nest)
      BY <2>1 DEF FrameRight
    <3>2. \A l \in OfIn(hs, c, i) : Len(hs[l].where) < M
      <4> TAKE l \in OfIn(hs, c, i)
      <4>1. PICK j \in BodiesIn(nest) : hs[l] = DueIn(i, c, nest, j)
        BY <3>1 DEF Orderly
      <4>2. j \in 1 .. M
        BY <4>1 DEF BodiesIn
      <4> HIDE DEF nest
      <4>3. Len(hs[l].where) = j - 1
        BY <2>1, <4>1, <4>2, DueFields DEF M
      <4>4. QED
        BY <2>1, <4>2, <4>3
    <3>3. \A k \in OfIn(new, c, i) : k \in 1 .. L /\ g[k] \in OfIn(hs, c, i) /\ new[k] = hs[g[k]]
      BY <1>1 DEF OfIn, L, N
    <3>4. \A l \in OfIn(hs, c, i) : \E k \in OfIn(new, c, i) : g[k] = l
      <4> TAKE l \in OfIn(hs, c, i)
      <4>1. l \in keep
        BY <2>3
      <4>2. q[l] \in OfIn(new, c, i)
        BY <1>5, <1>7, <4>1 DEF OfIn, L
      <4>3. QED
        BY <1>5, <4>1, <4>2
    <3>5. Remaining(g, hs, new, c, i, M)
      BY <1>1, <3>2, <3>3, <3>4 DEF Remaining
    <3>6. new \in Seq(Handler) /\ nest \in Seq(Constructs) /\ M \in Nat
      BY <1>1, <2>1
    <3> HIDE DEF nest, M
    <3>7. QED
      BY <2>2, <3>1, <3>5, <3>6, StillStraight
  <2>6. QED
    BY <1>11, <2>1, <2>4, <2>5 DEF FrameRight, N, L
<1>13. ASSUME NEW k \in 1 .. L PROVE LandingRight(new, c, k, lossy)
  <2> DEFINE i == new[k].frame
             nest == new[k].where
  <2>1. new[k] = hs[g[k]] /\ g[k] \in 1 .. N /\ LandingRight(hs, c, g[k], lossy)
    BY <1>1, <1>3
  <2>2. nest \in Seq(Constructs) /\ Len(nest) \in Nat /\ i <= n
    BY <1>1, <1>4, HandlerTypes DEF L
  <2>3. Becomes(nest, nest, Len(nest))
    BY <2>2 DEF Becomes, BodiesIn
  <2>4. Covered(hs, c, i, nest, g[k] - 1) => Covered(new, c, i, nest, k - 1)
    <3> SUFFICES ASSUME NEW p, Covers(p, hs, c, i, nest, g[k] - 1)
                 PROVE  Covered(new, c, i, nest, k - 1)
      BY DEF Covered
    <3> DEFINE D == {l \in keep : l < g[k]}
    <3>1. ASSUME NEW j \in BodiesIn(nest) PROVE p[j] \in D
      <4>1. p[j] \in 1 .. g[k] - 1 /\ hs[p[j]] = DueIn(i, c, nest, j)
        BY <3>1 DEF Covers
      <4>2. p[j] \in 1 .. N /\ p[j] < g[k]
        BY <1>1, <2>1, <4>1
      <4>3. hs[p[j]].frame = i
        BY <4>1 DEF DueIn
      <4>4. QED
        BY <2>2, <4>2, <4>3 DEF keep, N
    <3>2. D \in SUBSET Nat
      BY DEF keep
    <3>3. ASSUME NEW l \in D PROVE q[l] \in 1 .. k - 1 /\ new[q[l]] = hs[l]
      <4>1. l \in keep /\ g[k] \in keep /\ l < g[k] /\ q[g[k]] = k
        BY <1>4, <1>8
      <4>2. q[l] \in 1 .. L /\ q[l] < k /\ new[q[l]] = hs[l]
        BY <1>5, <1>6, <1>7, <4>1
      <4>3. QED
        BY <1>1, <4>2
    <3>4. \A l, m \in D : l < m => q[l] < q[m]
      BY <1>6
    <3>5. k - 1 \in Nat /\ g[k] - 1 \in Nat
      BY <2>1
    <3> HIDE DEF D, nest, i
    <3>6. QED
      BY <2>2, <2>3, <3>1, <3>2, <3>3, <3>4, <3>5, StillCovered
  <2>5. QED
    BY <1>11, <2>1, <2>4 DEF LandingRight
<1>14. StackRight(fs2, new, c, lossy)
  BY <1>2, <1>9, <1>10, <1>12, <1>13 DEF StackRight, L
<1>15. QED
  BY <1>14 DEF fs2

-----------------------------------------------------------------------------
\* f adds the first n numbers of b to a.
IsSum(f, N, a, b) == f = [n \in 0 .. N |-> IF n = 0 THEN a ELSE f[n - 1] + b[n]]

\* A sum that is taken number by number is there.
LEMMA SumIsThere ==
    ASSUME NEW N \in Nat, NEW a, NEW b
    PROVE  \E f : IsSum(f, N, a, b)
<1> DEFINE Def(f, n) == IF n = 0 THEN a ELSE f[n - 1] + b[n]
           P == {m \in Nat : \E h : h = [n \in 0 .. m |-> Def(h, n)]}
<1>1. 0 \in P
  <2> DEFINE h == [n \in 0 .. 0 |-> a]
  <2>1. h = [n \in 0 .. 0 |-> Def(h, n)]
    OBVIOUS
  <2>2. QED
    BY <2>1
<1>2. ASSUME NEW m \in Nat, m \in P PROVE m + 1 \in P
  <2>1. PICK h : h = [n \in 0 .. m |-> Def(h, n)]
    BY <1>2
  <2> DEFINE e == [n \in 0 .. m + 1 |-> IF n \in 0 .. m THEN h[n] ELSE Def(h, n)]
  <2>2. ASSUME NEW n \in 0 .. m + 1 PROVE e[n] = Def(e, n)
    <3>1. CASE n = 0
      BY <2>1, <3>1
    <3>2. CASE n # 0
      <4>1. n - 1 \in 0 .. m /\ e[n - 1] = h[n - 1]
        BY <3>2
      <4>2. CASE n \in 0 .. m
        BY <2>1, <4>1, <4>2
      <4>3. CASE n = m + 1
        BY <4>1, <4>3
      <4>4. QED
        BY <4>2, <4>3
    <3>3. QED
      BY <3>1, <3>2
  <2>3. e = [n \in 0 .. m + 1 |-> e[n]]
    OBVIOUS
  <2> HIDE DEF e
  <2>4. e = [n \in 0 .. m + 1 |-> Def(e, n)]
    BY <2>2, <2>3
  <2>5. \E d : d = [n \in 0 .. m + 1 |-> Def(d, n)]
    BY <2>4, Zenon
  <2>6. m + 1 \in Nat
    OBVIOUS
  <2> HIDE DEF Def
  <2>7. QED
    BY <2>5, <2>6, Zenon
<1>3. Nat \subseteq P
  <2> HIDE DEF P
  <2>1. QED
    BY <1>1, <1>2, AllNumbers
<1>4. \E f : f = [n \in 0 .. N |-> Def(f, n)]
  BY <1>3
<1>5. QED
  BY <1>4, Zenon DEF IsSum

\* It is at least as much as each of the numbers.
LEMMA SumBounds ==
    ASSUME NEW N \in Nat, NEW a \in Nat, NEW b \in [1 .. N -> Nat],
           NEW f, f[0] = a, \A n \in 1 .. N : f[n] = f[n - 1] + b[n]
    PROVE  f[N] \in Nat /\ f[N] >= a /\ \A n \in 1 .. N : f[N] >= b[n]
<1> DEFINE Good(m) == f[m] \in Nat /\ f[m] >= a /\ \A n \in 1 .. m : f[m] >= b[n]
           P == {m \in Nat : m <= N => Good(m)}
<1>2. 0 \in P
  <2>1. f[0] \in Nat /\ f[0] >= a /\ 1 .. 0 = {}
    OBVIOUS
  <2>2. Good(0)
    BY <2>1
  <2> HIDE DEF Good
  <2>3. QED
    BY <2>2
<1>3. ASSUME NEW m \in Nat, m \in P PROVE m + 1 \in P
  <2> HIDE DEF Good
  <2> SUFFICES ASSUME m + 1 <= N PROVE Good(m + 1)
    OBVIOUS
  <2>0. Good(m)
    BY <1>3
  <2>1. f[m] \in Nat /\ f[m] >= a /\ \A n \in 1 .. m : f[m] >= b[n]
    BY <2>0, Zenon DEF Good
  <2>2. m + 1 \in 1 .. N /\ (m + 1) - 1 = m
    OBVIOUS
  <2>3. f[m + 1] = f[m] + b[m + 1]
    BY <2>2
  <2>4. \A n \in 1 .. m + 1 : b[n] \in Nat /\ (n \in 1 .. m \/ n = m + 1)
    BY <2>2
  <2>5. b[m + 1] \in Nat
    BY <2>4
  <2>6. ASSUME NEW n \in 1 .. m + 1 PROVE f[m + 1] >= b[n]
    <3>1. CASE n = m + 1
      BY <2>1, <2>3, <2>5, <3>1
    <3>2. CASE n \in 1 .. m
      <4>1. f[m] >= b[n] /\ b[n] \in Nat
        BY <2>1, <2>4, <3>2
      <4>2. QED
        BY <2>1, <2>3, <2>5, <4>1
    <3>3. QED
      BY <2>4, <3>1, <3>2
  <2>7. f[m + 1] \in Nat /\ f[m + 1] >= a
    BY <2>1, <2>3, <2>5
  <2>8. QED
    BY <2>6, <2>7 DEF Good
<1>4. Nat \subseteq P
  <2> HIDE DEF P
  <2>1. QED
    BY <1>2, <1>3, AllNumbers
<1>5. Good(N)
  <2> HIDE DEF Good
  <2>1. QED
    BY <1>4
<1>6. QED
  BY <1>5

\* In a stack every nest is at most what is open.
LEMMA OpenBounds ==
    ASSUME NEW stack \in Seq(Frame)
    PROVE  Open(stack) \in Nat /\ \A n \in 1 .. Len(stack) : Len(stack[n].nest) <= Open(stack)
<1> DEFINE N == Len(stack)
           b == [n \in 1 .. N |-> Len(stack[n].nest)]
           f == CHOOSE f : f = [n \in 0 .. N |-> IF n = 0 THEN 0 ELSE f[n - 1] + Len(stack[n].nest)]
<1>1. N \in Nat
  OBVIOUS
<1>2. \A n \in 1 .. N : Len(stack[n].nest) \in Nat
  BY FrameTypes
<1> HIDE DEF N
<1>3. b \in [1 .. N -> Nat] /\ \A n \in 1 .. N : b[n] = Len(stack[n].nest)
  BY <1>2
<1> HIDE DEF b
<1>4. \A h : [n \in 0 .. N |-> IF n = 0 THEN 0 ELSE h[n - 1] + b[n]]
              = [n \in 0 .. N |-> IF n = 0 THEN 0 ELSE h[n - 1] + Len(stack[n].nest)]
  BY <1>1, <1>3
<1>5. PICK s : s = [n \in 0 .. N |-> IF n = 0 THEN 0 ELSE s[n - 1] + b[n]]
  <2>1. \E s : IsSum(s, N, 0, b)
    BY <1>1, SumIsThere
  <2>2. QED
    BY <2>1, Zenon DEF IsSum
<1>6. s = [n \in 0 .. N |-> IF n = 0 THEN 0 ELSE s[n - 1] + Len(stack[n].nest)]
  BY <1>4, <1>5
<1>7. f = [n \in 0 .. N |-> IF n = 0 THEN 0 ELSE f[n - 1] + Len(stack[n].nest)]
  BY <1>6, Zenon
<1>8. f = [n \in 0 .. N |-> IF n = 0 THEN 0 ELSE f[n - 1] + b[n]]
  BY <1>4, <1>7
<1>9. Open(stack) = f[N]
  BY DEF Open, N
<1> HIDE DEF f
<1>10. f[N] \in Nat /\ \A n \in 1 .. N : f[N] >= b[n]
  <2>1. f[0] = 0 /\ \A n \in 1 .. N : f[n] = f[n - 1] + b[n]
    <3>1. \A n \in 0 .. N : f[n] = IF n = 0 THEN 0 ELSE f[n - 1] + b[n]
      BY <1>8
    <3>2. QED
      BY <1>1, <3>1
  <2>2. QED
    BY <1>1, <1>3, <2>1, SumBounds
<1>11. QED
  BY <1>1, <1>2, <1>3, <1>9, <1>10 DEF N

\* What is open altogether is at least what is open in the stack in use.
LEMMA OpenNowBounds ==
    ASSUME frames \in Seq(Frame), saved \in Seq(Seq(Frame))
    PROVE  OpenNow \in Nat /\ Open(frames) <= OpenNow
<1> DEFINE N == Len(saved)
           b == [n \in 1 .. N |-> Open(saved[n])]
           a == Open(frames)
           f == CHOOSE f : f = [n \in 0 .. N |-> IF n = 0 THEN a ELSE f[n - 1] + Open(saved[n])]
<1>1. N \in Nat /\ \A n \in 1 .. N : saved[n] \in Seq(Frame)
  OBVIOUS
<1>2. a \in Nat /\ \A n \in 1 .. N : Open(saved[n]) \in Nat
  BY <1>1, OpenBounds
<1> HIDE DEF N
<1>3. b \in [1 .. N -> Nat] /\ \A n \in 1 .. N : b[n] = Open(saved[n])
  BY <1>2
<1> HIDE DEF b
<1>4. OpenNow = f[N]
  BY DEF OpenNow, N
<1> HIDE DEF a
<1>5. \A h : [n \in 0 .. N |-> IF n = 0 THEN a ELSE h[n - 1] + b[n]]
              = [n \in 0 .. N |-> IF n = 0 THEN a ELSE h[n - 1] + Open(saved[n])]
  BY <1>1, <1>3
<1>6. PICK s : s = [n \in 0 .. N |-> IF n = 0 THEN a ELSE s[n - 1] + b[n]]
  <2>1. \E s : IsSum(s, N, a, b)
    BY <1>1, SumIsThere
  <2>2. QED
    BY <2>1, Zenon DEF IsSum
<1>7. s = [n \in 0 .. N |-> IF n = 0 THEN a ELSE s[n - 1] + Open(saved[n])]
  BY <1>5, <1>6
<1>8. f = [n \in 0 .. N |-> IF n = 0 THEN a ELSE f[n - 1] + Open(saved[n])]
  BY <1>7, Zenon
<1>9. f = [n \in 0 .. N |-> IF n = 0 THEN a ELSE f[n - 1] + b[n]]
  BY <1>5, <1>8
<1> HIDE DEF f
<1>10. f[N] \in Nat /\ f[N] >= a
  <2>1. f[0] = a /\ \A n \in 1 .. N : f[n] = f[n - 1] + b[n]
    <3>1. \A n \in 0 .. N : f[n] = IF n = 0 THEN a ELSE f[n - 1] + b[n]
      BY <1>9
    <3>2. QED
      BY <1>1, <3>1
  <2>2. QED
    BY <1>1, <1>2, <1>3, <2>1, SumBounds
<1>11. QED
  BY <1>2, <1>4, <1>10 DEF a

-----------------------------------------------------------------------------
(***************************************************************************)
(* The steps.                                                              *)
(***************************************************************************)
\* The running function.
LEMMA WhileRunning ==
    ASSUME Types, status = "run"
    PROVE  /\ frames \in Seq(Frame) /\ frames # <<>> /\ Len(frames) \in Nat
           /\ Len(frames) \in 1 .. Len(frames) /\ Len(frames) <= MaxCallDepth
           /\ Top \in Frame /\ Nest = frames[Len(frames)].nest /\ Top.stray \in BOOLEAN
           /\ Nest \in Nests /\ Nest \in Seq(Constructs) /\ Len(Nest) \in Nat
           /\ handlers \in Seq(Handler) /\ Len(handlers) \in Nat
           /\ saved \in Seq(Stacks \ {<<>>}) /\ Len(saved) \in Nat /\ called \in BOOLEAN
           /\ saved # <<>> => called
<1>1. frames \in Seq(Frame) /\ frames # <<>> /\ Len(frames) <= MaxCallDepth
  BY DEF Types, Stacks
<1>2. Len(frames) \in Nat /\ Len(frames) \in 1 .. Len(frames)
  BY <1>1
<1>3. Top \in Frame
  BY <1>1, <1>2 DEF Top
<1>4. Nest \in Nests /\ Top.stray \in BOOLEAN /\ Nest = frames[Len(frames)].nest
  BY <1>3 DEF Frame, Nest, Top
<1>5. Nest \in Seq(Constructs) /\ Len(Nest) \in Nat
  BY <1>4 DEF Nests
<1>6. /\ handlers \in Seq(Handler) /\ Len(handlers) \in Nat
      /\ saved \in Seq(Stacks \ {<<>>}) /\ Len(saved) \in Nat /\ called \in BOOLEAN
      /\ saved # <<>> => called
  BY DEF Types
<1>7. QED
  BY <1>1, <1>2, <1>3, <1>4, <1>5, <1>6

\* The bound on what is open bounds the nest of the running function.
LEMMA RoomBounds ==
    ASSUME Types, status = "run", Room
    PROVE  Len(Nest) < MaxNest
<1>1. frames \in Seq(Frame) /\ Len(frames) \in 1 .. Len(frames)
      /\ Nest = frames[Len(frames)].nest /\ Len(Nest) \in Nat /\ saved \in Seq(Stacks \ {<<>>})
  BY WhileRunning
<1>2. saved \in Seq(Seq(Frame))
  <2>1. (Stacks \ {<<>>}) \subseteq Seq(Frame)
    BY DEF Stacks
  <2>2. QED
    BY <1>1, <2>1
<1>3. OpenNow \in Nat /\ Open(frames) <= OpenNow /\ Open(frames) \in Nat
      /\ Len(Nest) <= Open(frames)
  BY <1>1, <1>2, OpenBounds, OpenNowBounds
<1>4. OpenNow < MaxNest
  BY <1>3, ExceptionsAssumption DEF Room, ExceptionsAssumption
<1>5. QED
  BY <1>1, <1>3, <1>4, ExceptionsAssumption DEF ExceptionsAssumption

\* The run goes on at the same level.
LEMMA GoesOn ==
    ASSUME Types, frames' \in Stacks, frames' # <<>>, handlers' \in Seq(Handler),
           Len(handlers') <= MaxHandlers, status = "run", UNCHANGED <<saved, called, status>>,
           StackRight(frames', handlers', Len(saved), called)
    PROVE  HandlersInv'
<1>1. \A k \in 1 .. Len(handlers') : handlers'[k].level <= Len(saved)
  BY DEF StackRight, Attached
<1>2. Types'
  BY <1>1 DEF Types
<1>3. QED
  BY <1>2 DEF HandlersInv

\* The run is over.
LEMMA RunEnds ==
    ASSUME Types, NEW how \in {"done", "error", "exit", "wild"}, End(how),
           handlers' \in Seq(Handler), Len(handlers') <= MaxHandlers,
           \A k \in 1 .. Len(handlers') : handlers'[k].level <= Len(saved),
           UNCHANGED <<saved, called>>
    PROVE  HandlersInv'
<1>1. frames' = <<>> /\ status' = how
  BY DEF End
<1>2. frames' \in Stacks
  <2>1. <<>> \in Seq(Frame) /\ Len(<<>>) <= MaxCallDepth
    BY ExceptionsAssumption DEF ExceptionsAssumption
  <2>2. QED
    BY <1>1, <2>1 DEF Stacks
<1>3. Types'
  BY <1>1, <1>2 DEF Types
<1>4. QED
  BY <1>1, <1>3 DEF HandlersInv

\* The running function goes elsewhere.
LEMMA MovedTo ==
    ASSUME Types, status = "run", NEW nest \in Nests, MoveTo(nest)
    PROVE  /\ frames' \in Stacks /\ frames' # <<>>
           /\ \E f \in Frame : /\ f.nest = nest /\ f.stray = Top.stray
                               /\ frames' = [frames EXCEPT ![Len(frames)] = f]
<1> DEFINE f == [Top EXCEPT !.nest = nest]
<1>1. f \in Frame /\ f.nest = nest /\ f.stray = Top.stray
  BY WhileRunning DEF Frame
<1>2. frames' = [frames EXCEPT ![Len(frames)] = f]
  BY WhileRunning DEF MoveTo, Top
<1> HIDE DEF f
<1>3. frames' \in Seq(Frame) /\ Len(frames') = Len(frames) /\ frames' # <<>>
  BY <1>1, <1>2, WhileRunning
<1>4. QED
  BY <1>1, <1>2, <1>3, WhileRunning DEF Stacks

\* It goes where it is in the same bodies.
LEMMA StepMoved ==
    ASSUME HandlersInv, status = "run", NEW nest \in Nests, NEW m \in Nat, MoveTo(nest),
           Becomes(Nest, nest, m), \A j \in BodiesIn(Nest) : j <= m,
           UNCHANGED <<handlers, saved, called, status>>
    PROVE  HandlersInv'
<1>1. Types /\ StackRight(frames, handlers, Len(saved), called)
  BY DEF HandlersInv
<1>2. PICK f \in Frame : /\ f.nest = nest /\ f.stray = Top.stray
                         /\ frames' = [frames EXCEPT ![Len(frames)] = f]
  BY <1>1, MovedTo
<1>3. StackRight([frames EXCEPT ![Len(frames)] = f], handlers, Len(saved), called)
  <2>1. /\ frames \in Seq(Frame) /\ frames # <<>> /\ handlers \in Seq(Handler)
        /\ Nest = frames[Len(frames)].nest /\ Top = frames[Len(frames)]
    BY <1>1, WhileRunning DEF Top
  <2>2. QED
    BY <1>1, <1>2, <2>1, Moved
<1>4. QED
  BY <1>1, <1>2, <1>3, MovedTo, GoesOn DEF Types

\* The nests one construct further out.
LEMMA OuterTypes ==
    ASSUME Types, status = "run", Nest # <<>>
    PROVE  /\ Len(Nest) - 1 \in Nat /\ Len(Nest) \in 1 .. Len(Nest)
           /\ Outer(Nest) \in Nests /\ Becomes(Nest, Outer(Nest), Len(Nest) - 1)
           /\ PastIt \in Nests /\ Becomes(Nest, PastIt, Len(Nest) - 1)
<1> DEFINE M == Len(Nest) - 1
           outer == Outer(Nest)
           past == Append(outer, Cleanup)
<1>1. Nest \in Seq(Constructs) /\ Len(Nest) <= MaxNest /\ Len(Nest) \in Nat
  BY WhileRunning DEF Nests
<1>2. M \in Nat /\ Len(Nest) = M + 1 /\ Len(Nest) \in 1 .. Len(Nest)
  BY <1>1
<1>3. outer \in Seq(Constructs) /\ Len(outer) = M /\ \A j \in 1 .. M : outer[j] = Nest[j]
  BY <1>1, <1>2 DEF Outer
<1>4. Cleanup \in Constructs /\ Cleanup.at # "body"
  BY DEF Cleanup, Construct, Constructs, Place, Kind
<1> HIDE DEF M, outer
<1>5. /\ past \in Seq(Constructs) /\ Len(past) = M + 1 /\ past[M + 1] = Cleanup
      /\ \A j \in 1 .. M : past[j] = outer[j]
  BY <1>2, <1>3, <1>4
<1> HIDE DEF past
<1>6. outer \in Nests /\ past \in Nests
  BY <1>1, <1>2, <1>3, <1>5, ExceptionsAssumption DEF Nests, ExceptionsAssumption
<1>7. Becomes(Nest, outer, M)
  BY <1>2, <1>3 DEF Becomes, BodiesIn
<1>8. Becomes(Nest, past, M)
  BY <1>2, <1>3, <1>4, <1>5 DEF Becomes, BodiesIn
<1>9. PastIt = past \/ PastIt = outer
  BY DEF PastIt, past, outer
<1>10. QED
  BY <1>2, <1>6, <1>7, <1>8, <1>9 DEF M, outer

\* Into a loop, out of one, and past the end of a catch block or a finally.
LEMMA EnterLoopStep ==
    ASSUME HandlersInv, EnterLoop PROVE HandlersInv'
<1> DEFINE new == Append(Nest, Loop)
<1>1. status = "run" /\ Room /\ MoveTo(new) /\ UNCHANGED <<handlers, saved, status, called>>
  BY DEF EnterLoop
<1>2. Nest \in Seq(Constructs) /\ Len(Nest) \in Nat /\ Len(Nest) < MaxNest
  BY <1>1, WhileRunning, RoomBounds DEF HandlersInv
<1>3. Loop \in Constructs /\ Loop.at # "body"
  BY DEF Loop, Construct, Constructs, Place, Kind
<1>4. /\ new \in Seq(Constructs) /\ Len(new) = Len(Nest) + 1 /\ new[Len(Nest) + 1] = Loop
      /\ \A j \in 1 .. Len(Nest) : new[j] = Nest[j]
  BY <1>2, <1>3
<1> HIDE DEF new
<1>5. new \in Nests
  BY <1>2, <1>4, ExceptionsAssumption DEF Nests, ExceptionsAssumption
<1>6. Becomes(Nest, new, Len(Nest))
  BY <1>2, <1>3, <1>4 DEF Becomes, BodiesIn
<1>7. \A j \in BodiesIn(Nest) : j <= Len(Nest)
  BY DEF BodiesIn
<1>8. QED
  BY <1>1, <1>2, <1>5, <1>6, <1>7, StepMoved

\* Out of the innermost construct, where it is not a body; into its finally, if it
\* has one.
LEMMA OutwardStep ==
    ASSUME HandlersInv, status = "run", Nest # <<>>, Nest[Len(Nest)].at # "body",
           NEW nest \in {Outer(Nest), PastIt}, MoveTo(nest),
           UNCHANGED <<handlers, saved, called, status>>
    PROVE  HandlersInv'
<1>1. /\ nest \in Nests /\ Becomes(Nest, nest, Len(Nest) - 1)
      /\ Len(Nest) - 1 \in Nat /\ Len(Nest) \in Nat
  BY OuterTypes, WhileRunning DEF HandlersInv
<1>2. \A j \in BodiesIn(Nest) : j <= Len(Nest) - 1
  BY <1>1 DEF BodiesIn
<1>3. QED
  BY <1>1, <1>2, StepMoved

\* Into the body of a try statement.
LEMMA TryStep ==
    ASSUME HandlersInv, NEW clause \in Clause, Try(clause) PROVE HandlersInv'
<1> DEFINE new == Append(Nest, Body(clause))
           h == [frame |-> Len(frames), level |-> Len(saved), where |-> Nest, clause |-> clause]
<1>1. /\ status = "run" /\ Room /\ Len(handlers) < MaxHandlers
      /\ handlers' = Append(handlers, h) /\ MoveTo(new) /\ UNCHANGED <<saved, status, called>>
  BY DEF Try
<1>2. Types /\ StackRight(frames, handlers, Len(saved), called)
  BY <1>1 DEF HandlersInv
<1>3. /\ frames \in Seq(Frame) /\ frames # <<>> /\ handlers \in Seq(Handler)
      /\ Nest = frames[Len(frames)].nest /\ Top = frames[Len(frames)]
      /\ Nest \in Seq(Constructs) /\ Len(Nest) \in Nat /\ Len(Nest) < MaxNest
      /\ Len(frames) \in 1 .. MaxCallDepth
  BY <1>1, <1>2, WhileRunning, RoomBounds, ExceptionsAssumption DEF Top, ExceptionsAssumption
<1>4. /\ clause.type \in Kind /\ clause.finally \in BOOLEAN
      /\ clause = [type |-> clause.type, finally |-> clause.finally]
  <2>1. clause \in [type : Exception \cup {CatchAll, NoCatch}, finally : BOOLEAN]
    BY ExceptionsAssumption DEF ExceptionsAssumption, AnyClause
  <2>2. QED
    BY <2>1 DEF Kind
<1>5. Body(clause) \in Constructs
  BY <1>4 DEF Body, Construct, Constructs, Place, Kind
<1>6. new \in Seq(Constructs) /\ Len(new) = Len(Nest) + 1
  BY <1>3, <1>5
<1>7. new \in Nests
  BY <1>3, <1>6, ExceptionsAssumption DEF Nests, ExceptionsAssumption
<1>8. h \in Handler
  <2>1. Len(saved) \in 0 .. MaxCallbacks
    BY <1>1, <1>2, WhileRunning, ExceptionsAssumption DEF Types, ExceptionsAssumption
  <2>2. QED
    BY <1>3, <2>1 DEF Handler
<1>9. PICK f \in Frame : /\ f.nest = new /\ f.stray = Top.stray
                         /\ frames' = [frames EXCEPT ![Len(frames)] = f]
  BY <1>1, <1>2, <1>7, MovedTo
<1> DEFINE nest == Nest
<1>10. StackRight([frames EXCEPT ![Len(frames)] = f], Append(handlers, h), Len(saved), called)
  <2>1. /\ nest = frames[Len(frames)].nest /\ f.nest = Append(nest, Body(clause))
        /\ f.stray = frames[Len(frames)].stray
        /\ h = [frame |-> Len(frames), level |-> Len(saved), where |-> nest, clause |-> clause]
    BY <1>3, <1>9
  <2> HIDE DEF nest, h, new
  <2>2. QED
    BY <1>2, <1>3, <1>4, <1>8, <2>1, Pushed
<1> HIDE DEF h
<1>11. handlers' \in Seq(Handler) /\ Len(handlers') <= MaxHandlers
  BY <1>1, <1>3, <1>8, ExceptionsAssumption DEF ExceptionsAssumption
<1>12. frames' \in Stacks /\ frames' # <<>>
  BY <1>1, <1>2, <1>7, MovedTo
<1>13. QED
  BY <1>1, <1>2, <1>9, <1>10, <1>11, <1>12, GoesOn

\* What popping a handler leaves.
LEMMA PoppedTypes ==
    ASSUME Types
    PROVE  PopHandler \in Seq(Handler) /\ Len(PopHandler) <= MaxHandlers
<1>1. handlers \in Seq(Handler) /\ Len(handlers) <= MaxHandlers /\ Len(handlers) \in Nat
  BY DEF Types
<1>2. CASE Len(handlers) = 0
  <2>1. PopHandler = <<>>
    BY <1>1, <1>2 DEF PopHandler
  <2>2. QED
    BY <2>1, ExceptionsAssumption DEF ExceptionsAssumption
<1>3. CASE Len(handlers) # 0
  <2>1. Len(handlers) - 1 \in 0 .. Len(handlers)
    BY <1>1, <1>3
  <2>2. PopHandler \in Seq(Handler) /\ Len(PopHandler) = Len(handlers) - 1
    <3> DEFINE n == Len(handlers) - 1
    <3>1. n \in 0 .. Len(handlers)
      BY <2>1
    <3> HIDE DEF n
    <3>2. SubSeq(handlers, 1, n) \in Seq(Handler) /\ Len(SubSeq(handlers, 1, n)) = n
      BY <1>1, <3>1
    <3>3. QED
      BY <3>2 DEF PopHandler, n
  <2>3. QED
    BY <1>1, <2>2, ExceptionsAssumption DEF ExceptionsAssumption
<1>4. QED
  BY <1>2, <1>3

\* Out of a body at its end.
LEMMA EndBodyStep ==
    ASSUME HandlersInv, EndBody PROVE HandlersInv'
<1>1. /\ status = "run" /\ Nest # <<>> /\ Nest[Len(Nest)].at = "body"
      /\ handlers' = PopHandler /\ MoveTo(PastIt) /\ UNCHANGED <<saved, status, called>>
  BY DEF EndBody, Inside
<1>2. Types /\ StackRight(frames, handlers, Len(saved), called)
  BY <1>1 DEF HandlersInv
<1>3. /\ frames \in Seq(Frame) /\ frames # <<>> /\ handlers \in Seq(Handler)
      /\ Nest = frames[Len(frames)].nest /\ Top = frames[Len(frames)] /\ Len(Nest) \in Nat
  BY <1>1, <1>2, WhileRunning DEF Top
<1>4. PastIt \in Nests /\ Becomes(Nest, PastIt, Len(Nest) - 1) /\ Len(Nest) - 1 \in Nat
  BY <1>1, <1>2, OuterTypes
<1>5. PICK f \in Frame : /\ f.nest = PastIt /\ f.stray = Top.stray
                         /\ frames' = [frames EXCEPT ![Len(frames)] = f]
  BY <1>1, <1>2, <1>4, MovedTo
<1> DEFINE m == Len(Nest) - 1
<1>6. /\ m \in Nat /\ m < Len(Nest) /\ Becomes(frames[Len(frames)].nest, f.nest, m)
      /\ \A j \in BodiesIn(Nest) : j <= m \/ j = Len(Nest)
  BY <1>3, <1>4, <1>5 DEF BodiesIn
<1> HIDE DEF m
<1>7. StackRight([frames EXCEPT ![Len(frames)] = f], SubSeq(handlers, 1, Len(handlers) - 1),
                 Len(saved), called)
  BY <1>1, <1>2, <1>3, <1>5, <1>6, Popped
<1>8. QED
  BY <1>1, <1>2, <1>4, <1>5, <1>7, MovedTo, PoppedTypes, GoesOn DEF PopHandler

\* The innermost loop around a statement.
LEMMA LoopAround ==
    ASSUME Types, status = "run", InLoop
    PROVE  /\ LoopAt \in 1 .. Len(Nest) /\ Nest[LoopAt].at = "loop"
           /\ LoopAt \in Nat /\ LoopAt - 1 \in Nat /\ LoopAt <= Len(Nest) /\ Len(Nest) \in Nat
<1> DEFINE S == {i \in 1 .. Len(Nest) : Nest[i].at = "loop"}
<1>1. Len(Nest) \in Nat /\ S \in SUBSET (1 .. Len(Nest)) /\ S # {}
  BY WhileRunning DEF InLoop
<1>2. Max(S) \in S
  <2> HIDE DEF S
  <2>1. QED
    BY <1>1, Greatest
<1>3. LoopAt \in S
  BY <1>2 DEF LoopAt
<1>4. QED
  BY <1>1, <1>3

\* A jump to the head of the loop or past its end.
LEMMA JumpStep ==
    ASSUME HandlersInv, status = "run", InLoop, NEW direct \in BOOLEAN,
           direct => Inside("body"), NEW m \in {LoopAt - 1, LoopAt},
           Jump(direct, SubSeq(Nest, 1, m))
    PROVE  HandlersInv'
<1> DEFINE n == Len(frames)
           new == SubSeq(Nest, 1, m)
           left == Crossed \ (IF direct THEN {Len(Nest)} ELSE {})
           f == [nest |-> new, stray |-> Top.stray \/ left # {}]
<1>1. Types /\ StackRight(frames, handlers, Len(saved), called)
  BY DEF HandlersInv
<1>2. /\ frames \in Seq(Frame) /\ frames # <<>> /\ handlers \in Seq(Handler)
      /\ Nest = frames[n].nest /\ Top = frames[n] /\ Top.stray \in BOOLEAN
      /\ Nest \in Seq(Constructs) /\ Nest \in Nests /\ n <= MaxCallDepth /\ n \in Nat
  BY <1>1, WhileRunning DEF Top
<1>3. /\ LoopAt \in 1 .. Len(Nest) /\ Nest[LoopAt].at = "loop"
      /\ LoopAt \in Nat /\ LoopAt - 1 \in Nat /\ LoopAt <= Len(Nest) /\ Len(Nest) \in Nat
  BY <1>1, LoopAround
<1>4. m \in Nat /\ m <= Len(Nest) /\ m <= LoopAt /\ LoopAt - 1 <= m
  BY <1>3
<1>5. /\ handlers' = IF direct THEN PopHandler ELSE handlers
      /\ frames' = [frames EXCEPT ![n] = f] /\ UNCHANGED <<saved, status, called>>
  BY <1>2 DEF Jump
<1> HIDE DEF n
<1>6. new \in Seq(Constructs) /\ Len(new) = m /\ \A j \in 1 .. m : new[j] = Nest[j]
  BY <1>2, <1>3, <1>4
<1> HIDE DEF new
<1>7. f \in Frame /\ f.nest = new
  <2>1. new \in Nests
    BY <1>2, <1>3, <1>4, <1>6, ExceptionsAssumption DEF Nests, ExceptionsAssumption
  <2>2. QED
    BY <1>2, <2>1 DEF Frame
<1>8. Becomes(Nest, new, m)
  BY <1>3, <1>4, <1>6 DEF Becomes, BodiesIn
\* Without a stray, every body but one that is left directly is outside the loop.
<1>9. ASSUME ~ f.stray, NEW j \in BodiesIn(Nest)
      PROVE  j <= m \/ (direct /\ j = Len(Nest))
  <2>1. left = {}
    BY <1>9
  <2>2. j \in 1 .. Len(Nest) /\ Nest[j].at = "body" /\ j # LoopAt
    BY <1>3 DEF BodiesIn
  <2>3. CASE j < LoopAt
    BY <1>3, <1>4, <2>2, <2>3
  <2>4. CASE j > LoopAt
    <3>1. j \in Crossed
      BY <1>3, <2>2, <2>4 DEF Crossed
    <3>2. QED
      BY <2>1, <3>1
  <2>5. QED
    BY <1>3, <2>2, <2>3, <2>4
<1>10. ~ f.stray => ~ frames[n].stray
  BY <1>2
<1> HIDE DEF f, left
<1>11. frames' \in Stacks /\ frames' # <<>>
  <2>1. frames' \in Seq(Frame) /\ Len(frames') = n /\ frames' # <<>>
    BY <1>2, <1>5, <1>7 DEF n
  <2>2. QED
    BY <1>2, <2>1 DEF Stacks
<1>12. CASE direct
  <2>1. /\ Nest # <<>> /\ Nest[Len(Nest)].at = "body" /\ handlers' = PopHandler
        /\ Nest[LoopAt].at = "loop"
    BY <1>3, <1>5, <1>12 DEF Inside
  <2>2. m < Len(Nest)
    <3>1. LoopAt # Len(Nest)
      BY <2>1
    <3>2. QED
      BY <1>3, <1>4, <3>1
  <2>3. /\ Becomes(frames[Len(frames)].nest, f.nest, m)
        /\ ~ f.stray => /\ ~ frames[Len(frames)].stray
                        /\ \A j \in BodiesIn(Nest) : j <= m \/ j = Len(Nest)
    BY <1>2, <1>7, <1>8, <1>9, <1>10 DEF n
  <2>4. StackRight([frames EXCEPT ![Len(frames)] = f], SubSeq(handlers, 1, Len(handlers) - 1),
                   Len(saved), called)
    BY <1>1, <1>2, <1>4, <1>7, <2>1, <2>2, <2>3, Popped DEF n
  <2>5. QED
    BY <1>1, <1>5, <1>11, <2>1, <2>4, PoppedTypes, GoesOn DEF PopHandler, n
<1>13. CASE ~ direct
  <2>1. /\ Becomes(frames[Len(frames)].nest, f.nest, m)
        /\ ~ f.stray => /\ ~ frames[Len(frames)].stray
                        /\ \A j \in BodiesIn(frames[Len(frames)].nest) : j <= m
    BY <1>2, <1>7, <1>8, <1>9, <1>10, <1>13 DEF n
  <2>2. StackRight([frames EXCEPT ![Len(frames)] = f], handlers, Len(saved), called)
    BY <1>1, <1>2, <1>4, <1>7, <2>1, Moved
  <2>3. handlers' = handlers /\ Len(handlers) <= MaxHandlers
    BY <1>1, <1>5, <1>13 DEF Types
  <2>4. QED
    BY <1>1, <1>2, <1>5, <1>11, <2>2, <2>3, GoesOn DEF n
<1>14. QED
  BY <1>12, <1>13

-----------------------------------------------------------------------------
\* An error that no handler is looked for.
LEMMA FaultStep ==
    ASSUME HandlersInv, status = "run", Fail(Nest), UNCHANGED <<handlers, saved, called>>
    PROVE  HandlersInv'
<1>1. Types /\ Nest \in Nests /\ Len(Nest) \in Nat
  BY WhileRunning DEF HandlersInv
<1>2. CASE saved = <<>>
  <2>1. End("error")
    BY <1>2 DEF Fail
  <2>2. QED
    BY <1>1, <2>1, RunEnds DEF Types
<1>3. CASE saved # <<>>
  <2>1. MoveTo(Nest) /\ UNCHANGED status
    BY <1>3 DEF Fail
  <2>2. Becomes(Nest, Nest, Len(Nest)) /\ \A j \in BodiesIn(Nest) : j <= Len(Nest)
    BY <1>1 DEF Becomes, BodiesIn
  <2>3. QED
    BY <1>1, <2>1, <2>2, StepMoved
<1>4. QED
  BY <1>2, <1>3

\* The handler that raise stops at.
LEMMA Caught ==
    ASSUME handlers \in Seq(Handler), NEW x, Catching(x) # {}
    PROVE  /\ Max(Catching(x)) \in Catching(x) /\ Max(Catching(x)) \in 1 .. Len(handlers)
           /\ \A k \in Catching(x) : k <= Max(Catching(x))
<1>1. Len(handlers) \in Nat /\ Catching(x) \in SUBSET (1 .. Len(handlers))
  BY DEF Catching
<1>2. QED
  BY <1>1, Greatest

\* An exception is raised.
LEMMA RaiseStep ==
    ASSUME HandlersInv, status = "run", NEW x \in Kind, NEW next \in Nests, Raise(x, next)
    PROVE  HandlersInv'
<1>1. Types /\ StackRight(frames, handlers, Len(saved), called)
  BY DEF HandlersInv
<1>2. /\ frames \in Seq(Frame) /\ handlers \in Seq(Handler) /\ UNCHANGED <<saved, called>>
      /\ Len(handlers) \in Nat /\ Len(handlers) <= MaxHandlers /\ Len(frames) <= MaxCallDepth
  BY <1>1, WhileRunning DEF Raise, Types
<1>3. CASE Catching(x) = {}
  <2>1. handlers' = <<>> /\ Fail(next)
    BY <1>3 DEF Raise
  <2>2. handlers' \in Seq(Handler) /\ Len(handlers') = 0
    BY <2>1
  <2>3. CASE saved = <<>>
    <3>1. End("error")
      BY <2>1, <2>3 DEF Fail
    <3>2. QED
      BY <1>1, <1>2, <2>2, <3>1, RunEnds, ExceptionsAssumption DEF ExceptionsAssumption
  <2>4. CASE saved # <<>>
    <3>1. MoveTo(next) /\ UNCHANGED status
      BY <2>1, <2>4 DEF Fail
    <3>2. frames' \in Stacks /\ frames' # <<>> /\ frames' \in Seq(Frame)
      BY <1>1, <3>1, MovedTo DEF Stacks
    <3>3. called = TRUE
      BY <1>1, <2>4 DEF Types
    <3>4. StackRight(frames', handlers', Len(saved), called)
      BY <2>1, <3>2, <3>3, Emptied
    <3>5. Len(handlers') <= MaxHandlers
      BY <2>2, ExceptionsAssumption DEF ExceptionsAssumption
    <3>6. QED
      BY <1>1, <1>2, <2>2, <3>1, <3>2, <3>4, <3>5, GoesOn
  <2>5. QED
    BY <2>3, <2>4
<1>4. CASE Catching(x) # {}
  <2> DEFINE k == Max(Catching(x))
             h == handlers[k]
             block == HandlerBlock(h.clause, x)
             new == Append(h.where, block)
  <2>1. k \in 1 .. Len(handlers) /\ k \in Catching(x)
    BY <1>2, <1>4, Caught
  <2>2. handlers' = SubSeq(handlers, 1, k - 1) /\ Land(h, x)
    BY <1>4 DEF Raise
  <2> HIDE DEF k
  <2>3. /\ handlers' \in Seq(Handler) /\ Len(handlers') = k - 1 /\ k - 1 \in 0 .. Len(handlers)
        /\ \A l \in 1 .. k - 1 : handlers'[l] = handlers[l] /\ l \in 1 .. Len(handlers)
    <3>1. k - 1 \in 0 .. Len(handlers)
      BY <2>1
    <3> DEFINE j == k - 1
    <3> HIDE DEF j
    <3>2. LET s == SubSeq(handlers, 1, j)
          IN  /\ s \in Seq(Handler) /\ Len(s) = j
              /\ \A l \in 1 .. j : s[l] = handlers[l] /\ l \in 1 .. Len(handlers)
      BY <1>2, <3>1 DEF j
    <3>3. QED
      BY <2>2, <3>1, <3>2 DEF j
  <2>4. Len(handlers') <= MaxHandlers
    BY <1>2, <2>1, <2>3, ExceptionsAssumption DEF ExceptionsAssumption
  <2>5. CASE h.level # Len(saved)
    <3>1. End("wild")
      BY <2>2, <2>5 DEF Land
    <3>2. \A l \in 1 .. Len(handlers') : handlers'[l].level <= Len(saved)
      BY <1>1, <2>3 DEF Types
    <3>3. QED
      BY <1>1, <1>2, <2>3, <2>4, <3>1, <3>2, RunEnds
  <2>6. CASE h.level = Len(saved)
    <3>1. /\ h.frame \in Nat /\ h.frame > 0 /\ h.where \in Seq(Constructs)
          /\ Len(h.where) \in Nat /\ Len(h.where) < MaxNest /\ h.clause \in Clause
      BY <1>2, <2>1, HandlerTypes
    <3>2. h.frame <= Len(frames)
      BY <2>1 DEF Catching
    <3> DEFINE fs == SubSeq(frames, 1, h.frame)
               f == [frames[h.frame] EXCEPT !.nest = new]
    <3>3. fs \in Seq(Frame) /\ Len(fs) = h.frame /\ fs[h.frame] = frames[h.frame]
          /\ h.frame \in 1 .. Len(frames)
      BY <1>2, <3>1, <3>2
    <3>4. frames' = [fs EXCEPT ![h.frame].nest = new] /\ UNCHANGED status
      BY <2>2, <2>6 DEF Land
    <3>5. block \in Constructs /\ block.at # "body"
      <4>1. h.clause.finally \in BOOLEAN
        BY <3>1, ExceptionsAssumption DEF ExceptionsAssumption, AnyClause
      <4>2. QED
        BY <4>1 DEF HandlerBlock, Construct, Constructs, Place, Kind
    <3> HIDE DEF block
    <3>6. new \in Seq(Constructs) /\ Len(new) = Len(h.where) + 1
      BY <3>1, <3>5
    <3>7. new \in Nests
      BY <3>1, <3>6, ExceptionsAssumption DEF Nests, ExceptionsAssumption
    <3> HIDE DEF new, fs, h
    <3>8. f \in Frame /\ f.nest = new /\ f.stray = frames[h.frame].stray
      BY <1>2, <3>3, <3>7, FrameTypes DEF Frame
    <3>9. frames' = [fs EXCEPT ![h.frame] = f]
      BY <3>3, <3>4
    <3> HIDE DEF f
    <3>10. StackRight([SubSeq(frames, 1, h.frame) EXCEPT ![h.frame] = f],
                      SubSeq(handlers, 1, k - 1), Len(saved), called)
      BY <1>1, <1>2, <2>1, <2>6, <3>5, <3>8, Landed DEF h, new
    <3>11. frames' \in Stacks /\ frames' # <<>>
      <4>1. frames' \in Seq(Frame) /\ Len(frames') = h.frame
        BY <3>3, <3>8, <3>9
      <4>2. QED
        BY <1>2, <3>1, <3>2, <4>1, ExceptionsAssumption DEF Stacks, ExceptionsAssumption
    <3>12. QED
      BY <1>1, <1>2, <2>2, <2>3, <2>4, <3>4, <3>9, <3>10, <3>11, GoesOn DEF fs
  <2>7. QED
    BY <2>5, <2>6
<1>5. QED
  BY <1>3, <1>4

\* Where a statement is inside a construct, the nest is not empty.
LEMMA WithinOne ==
    ASSUME Types, status = "run", NEW at, Inside(at)
    PROVE  /\ Nest # <<>> /\ Nest[Len(Nest)].at = at /\ Innermost.type \in Kind
           /\ Outer(Nest) \in Nests
<1>1. Nest # <<>> /\ Nest[Len(Nest)].at = at
  BY DEF Inside
<1>2. Nest \in Seq(Constructs) /\ Len(Nest) \in 1 .. Len(Nest) /\ Outer(Nest) \in Nests
  BY <1>1, WhileRunning, OuterTypes
<1>3. Nest[Len(Nest)] \in Constructs
  BY <1>2
<1>4. QED
  BY <1>1, <1>2, <1>3 DEF Innermost, Constructs

\* A call: a frame in no construct.
LEMMA CallStep ==
    ASSUME HandlersInv, Call PROVE HandlersInv'
<1>1. /\ status = "run" /\ UNCHANGED <<handlers, saved, called>>
      /\ Types /\ StackRight(frames, handlers, Len(saved), called)
  BY DEF Call, HandlersInv
<1>2. CASE Len(frames) < MaxCallDepth
  <2>1. frames' = Append(frames, Entered) /\ UNCHANGED status
    BY <1>2 DEF Call
  <2>2. Entered \in Frame
    <3>1. <<>> \in Nests
      <4>1. <<>> \in Seq(Constructs) /\ Len(<<>>) = 0
        OBVIOUS
      <4>2. QED
        BY <4>1, ExceptionsAssumption DEF Nests, ExceptionsAssumption
    <3>2. QED
      BY <3>1 DEF Entered, Frame
  <2>3. frames \in Seq(Frame) /\ Len(frames) \in Nat /\ handlers \in Seq(Handler)
    BY <1>1, WhileRunning
  <2>4. frames' \in Seq(Frame) /\ Len(frames') = Len(frames) + 1 /\ frames' # <<>>
    BY <2>1, <2>2, <2>3
  <2>5. frames' \in Stacks
    BY <1>2, <2>3, <2>4, ExceptionsAssumption DEF Stacks, ExceptionsAssumption
  <2>6. StackRight(frames', handlers', Len(saved), called)
    BY <1>1, <2>1, <2>3, Entering
  <2>7. QED
    BY <1>1, <2>1, <2>3, <2>4, <2>5, <2>6, GoesOn DEF Types
<1>3. CASE ~ (Len(frames) < MaxCallDepth)
  <2>1. Fail(Nest)
    BY <1>3 DEF Call
  <2>2. QED
    BY <1>1, <2>1, FaultStep
<1>4. QED
  BY <1>2, <1>3

\* What a callback returns to: a stack of frames with no handler.
LEMMA CallbackOver ==
    ASSUME HandlersInv, status = "run", saved # <<>>, handlers' = <<>>,
           frames' = saved[Len(saved)], saved' = SubSeq(saved, 1, Len(saved) - 1),
           UNCHANGED <<status, called>>
    PROVE  HandlersInv'
<1>1. Types /\ called = TRUE
  BY DEF HandlersInv, Types
<1>2. saved \in Seq(Stacks \ {<<>>}) /\ Len(saved) \in Nat /\ Len(saved) <= MaxCallbacks
  BY <1>1 DEF Types
<1> DEFINE n == Len(saved) - 1
<1>3. n \in 0 .. Len(saved) /\ Len(saved) \in 1 .. Len(saved) /\ Len(saved) = n + 1 /\ n \in Nat
  BY <1>2
<1> HIDE DEF n
<1>4. SubSeq(saved, 1, n) \in Seq(Stacks \ {<<>>}) /\ Len(SubSeq(saved, 1, n)) = n
  BY <1>2, <1>3
<1>5. saved' \in Seq(Stacks \ {<<>>}) /\ Len(saved') <= MaxCallbacks
  BY <1>2, <1>3, <1>4, ExceptionsAssumption DEF n, ExceptionsAssumption
<1>6. frames' \in Stacks /\ frames' # <<>>
  BY <1>2, <1>3
<1>7. frames' \in Seq(Frame)
  BY <1>6 DEF Stacks
<1>8. handlers' \in Seq(Handler) /\ Len(handlers') = 0
  OBVIOUS
<1>9. Types'
  BY <1>1, <1>5, <1>6, <1>8, ExceptionsAssumption DEF Types, ExceptionsAssumption
<1>10. StackRight(frames', handlers', Len(saved'), called')
  BY <1>1, <1>7, Emptied
<1>11. QED
  BY <1>9, <1>10 DEF HandlersInv

\* A return.
LEMMA ReturnStep ==
    ASSUME HandlersInv, Return PROVE HandlersInv'
<1>1. /\ status = "run" /\ UNCHANGED called
      /\ Types /\ StackRight(frames, handlers, Len(saved), called)
  BY DEF Return, HandlersInv
<1> DEFINE n == Len(frames) - 1
           keep == {k \in 1 .. Len(handlers) : handlers[k].frame <= n}
<1>2. /\ frames \in Seq(Frame) /\ frames # <<>> /\ Len(frames) \in Nat
      /\ Len(frames) <= MaxCallDepth /\ handlers \in Seq(Handler) /\ Len(handlers) \in Nat
      /\ Len(handlers) <= MaxHandlers
  BY <1>1, WhileRunning DEF Types
<1>3. handlers' = Retain(keep)
  BY DEF Return, Kept
<1>4. n \in Nat /\ n < Len(frames) /\ Len(frames) = n + 1 /\ n \in 0 .. Len(frames)
  BY <1>2
<1>5. /\ handlers' \in Seq(Handler)
      /\ \E g : RetainedBy(g, handlers, Len(handlers), keep, handlers')
  BY <1>2, <1>3, Retaining
<1>6. PICK g : RetainedBy(g, handlers, Len(handlers), keep, handlers')
  BY <1>5
<1>7. Len(handlers') <= MaxHandlers /\ Len(handlers') \in Nat
  BY <1>2, <1>5, <1>6, ExceptionsAssumption DEF RetainedBy, ExceptionsAssumption
<1>8. CASE Len(frames) > 1
  <2>1. frames' = SubSeq(frames, 1, n) /\ UNCHANGED <<saved, status>>
    <3>1. Len(frames) # 1
      <4> HIDE DEF n, keep
      <4>1. QED
        BY <1>4, <1>8
    <3>2. QED
      BY <1>8, <3>1, Zenon DEF Return
  <2>2. StackRight(SubSeq(frames, 1, n), handlers', Len(saved), called)
    <3> HIDE DEF n
    <3>1. QED
      BY <1>1, <1>2, <1>4, <1>6, Returned
  <2>3. frames' \in Stacks /\ frames' # <<>>
    <3>1. n > 0
      BY <1>2, <1>8
    <3> HIDE DEF n
    <3>2. frames' \in Seq(Frame) /\ Len(frames') = n
      BY <1>2, <1>4, <2>1
    <3>3. QED
      BY <1>2, <1>4, <3>1, <3>2, ExceptionsAssumption DEF Stacks, ExceptionsAssumption
  <2>4. QED
    BY <1>1, <1>5, <1>7, <2>1, <2>2, <2>3, GoesOn
<1>9. ASSUME Len(frames) = 1 PROVE handlers' = <<>>
  <2>1. \A k \in 1 .. Len(handlers) : handlers[k].frame \in Nat /\ handlers[k].frame > 0
    BY <1>2, HandlerTypes
  <2>2. keep = {}
    BY <1>9, <2>1
  <2>3. \A k \in 1 .. Len(handlers') : g[k] \in keep
    <3>1. \A k \in 1 .. Len(handlers') : g[k] \in 1 .. Len(handlers)
      BY <1>6 DEF RetainedBy
    <3>2. \A l \in 1 .. Len(handlers) :
             l \in keep <=> \E k \in 1 .. Len(handlers') : g[k] = l
      BY <1>6 DEF RetainedBy
    <3> HIDE DEF keep
    <3>3. QED
      BY <3>1, <3>2
  <2>4. QED
    <3>1. Len(handlers') = 0
      BY <1>7, <2>2, <2>3
    <3>2. QED
      BY <1>5, <3>1
<1>10. CASE Len(frames) = 1 /\ saved # <<>>
  <2>1. /\ frames' = saved[Len(saved)] /\ saved' = SubSeq(saved, 1, Len(saved) - 1)
        /\ UNCHANGED status
    BY <1>10 DEF Return
  <2>2. QED
    BY <1>1, <1>9, <1>10, <2>1, CallbackOver
<1>11. CASE Len(frames) = 1 /\ saved = <<>>
  <2>1. End("done") /\ UNCHANGED saved
    BY <1>11 DEF Return
  <2>2. QED
    BY <1>1, <1>5, <1>7, <1>9, <1>11, <2>1, RunEnds
<1>12. Len(frames) > 1 \/ Len(frames) = 1
  <2> HIDE DEF n, keep
  <2>1. QED
    BY <1>4
<1>13. QED
  BY <1>8, <1>10, <1>11, <1>12

\* A callback: another loop, on a stack of its own.
LEMMA CallbackStep ==
    ASSUME HandlersInv, Callback PROVE HandlersInv'
<1>1. /\ status = "run" /\ saved' = Append(saved, frames) /\ frames' = <<Entered>>
      /\ called' = TRUE /\ UNCHANGED <<handlers, status>> /\ Len(saved) < MaxCallbacks
      /\ Types /\ StackRight(frames, handlers, Len(saved), called)
  BY DEF Callback, HandlersInv
<1>2. /\ saved \in Seq(Stacks \ {<<>>}) /\ frames \in Stacks \ {<<>>} /\ Len(saved) \in Nat
      /\ handlers \in Seq(Handler) /\ Len(handlers) \in Nat
  BY <1>1, WhileRunning DEF Types
<1>3. saved' \in Seq(Stacks \ {<<>>}) /\ Len(saved') = Len(saved) + 1
  BY <1>1, <1>2
<1>4. \A k \in 1 .. Len(handlers) : handlers[k].level <= Len(saved) /\ handlers[k].level \in Nat
  BY <1>1, <1>2, HandlerTypes DEF Types
<1>5. \A k \in 1 .. Len(handlers) : handlers[k].level < Len(saved) + 1
  BY <1>2, <1>4
<1>6. frames' \in Stacks /\ frames' # <<>>
  <2>1. <<>> \in Nests
    <3>1. <<>> \in Seq(Constructs) /\ Len(<<>>) = 0
      OBVIOUS
    <3>2. QED
      BY <3>1, ExceptionsAssumption DEF Nests, ExceptionsAssumption
  <2>2. Entered \in Frame
    BY <2>1 DEF Entered, Frame
  <2>3. frames' \in Seq(Frame) /\ Len(frames') = 1
    BY <1>1, <2>2
  <2>4. QED
    BY <2>3, ExceptionsAssumption DEF Stacks, ExceptionsAssumption
<1>7. StackRight(frames', handlers', Len(saved'), called')
  <2> DEFINE c == Len(saved) + 1
  <2>1. c \in Nat /\ \A k \in 1 .. Len(handlers) : handlers[k].level < c
    BY <1>2, <1>5
  <2> HIDE DEF c
  <2>2. Sorted(handlers)
    BY <1>1 DEF StackRight
  <2>3. StackRight(<<Entered>>, handlers, c, TRUE)
    BY <1>2, <2>1, <2>2, EnteringAnew
  <2>4. QED
    BY <1>1, <1>3, <2>3 DEF c
<1>8. Types'
  <2>1. \A k \in 1 .. Len(handlers') : handlers'[k].level <= Len(saved')
    BY <1>1, <1>2, <1>3, <1>4
  <2>2. Len(saved') <= MaxCallbacks
    BY <1>1, <1>2, <1>3, ExceptionsAssumption DEF ExceptionsAssumption
  <2>3. handlers' \in Seq(Handler) /\ Len(handlers') <= MaxHandlers
    BY <1>1, <1>2 DEF Types
  <2>4. QED
    BY <1>1, <1>3, <1>6, <2>1, <2>2, <2>3 DEF Types
<1>9. QED
  BY <1>7, <1>8 DEF HandlersInv

\* Process.exit.
LEMMA ExitStep ==
    ASSUME HandlersInv, Exit PROVE HandlersInv'
<1>1. status = "run" /\ handlers' = <<>> /\ UNCHANGED called /\ Types
  BY DEF Exit, HandlersInv
<1>2. CASE saved = <<>>
  <2>1. End("exit") /\ UNCHANGED saved
    BY <1>2 DEF Exit
  <2>2. handlers' \in Seq(Handler) /\ Len(handlers') = 0
    BY <1>1
  <2>3. QED
    BY <1>1, <2>1, <2>2, RunEnds, ExceptionsAssumption DEF ExceptionsAssumption
<1>3. CASE saved # <<>>
  BY <1>1, <1>3, CallbackOver DEF Exit
<1>4. QED
  BY <1>2, <1>3

-----------------------------------------------------------------------------
\* The invariant is true at the start.
LEMMA HandlersInit ==
    ASSUME Init PROVE HandlersInv
<1>1. /\ frames = <<Entered>> /\ handlers = <<>> /\ saved = <<>> /\ status = "run"
      /\ called = FALSE
  BY DEF Init
<1>2. <<>> \in Nests
  <2>1. <<>> \in Seq(Constructs) /\ Len(<<>>) = 0
    OBVIOUS
  <2>2. QED
    BY <2>1, ExceptionsAssumption DEF Nests, ExceptionsAssumption
<1>3. Entered \in Frame
  BY <1>2 DEF Entered, Frame
<1>4. frames \in Seq(Frame) /\ Len(frames) = 1 /\ frames # <<>>
  BY <1>1, <1>3
<1>5. frames \in Stacks
  BY <1>4, ExceptionsAssumption DEF Stacks, ExceptionsAssumption
<1>6. /\ handlers \in Seq(Handler) /\ Len(handlers) = 0
      /\ saved \in Seq(Stacks \ {<<>>}) /\ Len(saved) = 0
  BY <1>1
<1>7. Types
  <2>1. /\ Len(handlers) <= MaxHandlers /\ Len(saved) <= MaxCallbacks
        /\ \A k \in 1 .. Len(handlers) : handlers[k].level <= Len(saved)
    BY <1>6, ExceptionsAssumption DEF ExceptionsAssumption
  <2>2. (frames = <<>> <=> status # "run") /\ called \in BOOLEAN /\ (saved # <<>> => called)
    BY <1>1, <1>4
  <2>3. status \in {"run", "done", "error", "exit", "wild"}
    BY <1>1
  <2>4. QED
    BY <1>5, <1>6, <2>1, <2>2, <2>3 DEF Types
<1>8. Sorted(handlers) /\ \A k \in 1 .. Len(handlers) : handlers[k].level < 0
  BY <1>6 DEF Sorted
<1>9. StackRight(<<Entered>>, handlers, 0, called)
  BY <1>6, <1>8, EnteringAnew
<1>10. QED
  BY <1>1, <1>6, <1>7, <1>9 DEF HandlersInv

\* Every step of the program keeps it.
LEMMA HandlersNext ==
    ASSUME HandlersInv, [Next]_vars PROVE HandlersInv'
<1>0. Types
  BY DEF HandlersInv
<1>1. CASE EnterLoop
  BY <1>1, EnterLoopStep
<1>2. CASE LeaveLoop
  <2>1. status = "run" /\ Inside("loop")
    BY <1>2 DEF LeaveLoop
  <2>2. QED
    BY <1>0, <1>2, <2>1, WithinOne, OutwardStep DEF LeaveLoop
<1>3. ASSUME NEW clause \in Clause, Try(clause) PROVE HandlersInv'
  BY <1>3, TryStep
<1>4. CASE EndBody
  BY <1>4, EndBodyStep
<1>5. CASE EndCatch
  <2>1. status = "run" /\ Inside("catch")
    BY <1>5 DEF EndCatch
  <2>2. QED
    BY <1>0, <1>5, <2>1, WithinOne, OutwardStep DEF EndCatch
<1>6. CASE EndFinally
  <2>1. status = "run" /\ Inside("finally")
    BY <1>6 DEF EndFinally
  <2>2. QED
    BY <1>0, <1>6, <2>1, WithinOne, OutwardStep DEF EndFinally
<1>7. ASSUME NEW x \in Exception, Throw(x) PROVE HandlersInv'
  <2>1. status = "run" /\ Raise(x, Nest) /\ x \in Kind
    BY <1>7 DEF Throw, Kind
  <2>2. QED
    BY <1>0, <2>1, WhileRunning, RaiseStep
<1>8. CASE Rethrow
  <2>1. status = "run" /\ Inside("rethrow") /\ Raise(Innermost.type, Outer(Nest))
    BY <1>8 DEF Rethrow
  <2>2. Innermost.type \in Kind /\ Outer(Nest) \in Nests
    BY <1>0, <2>1, WithinOne
  <2>3. QED
    BY <2>1, <2>2, RaiseStep
<1>9. CASE Fault
  BY <1>9, FaultStep DEF Fault
<1>10. ASSUME NEW direct \in BOOLEAN, Break(direct) PROVE HandlersInv'
  BY <1>10, JumpStep DEF Break
<1>11. ASSUME NEW direct \in BOOLEAN, Continue(direct) PROVE HandlersInv'
  BY <1>11, JumpStep DEF Continue
<1>12. CASE Call
  BY <1>12, CallStep
<1>13. CASE Return
  BY <1>13, ReturnStep
<1>14. CASE Callback
  BY <1>14, CallbackStep
<1>15. CASE Exit
  BY <1>15, ExitStep
<1>16. CASE UNCHANGED vars
  BY <1>16 DEF vars, HandlersInv, Types
<1>17. QED
  BY <1>1, <1>2, <1>3, <1>4, <1>5, <1>6, <1>7, <1>8, <1>9, <1>10, <1>11, <1>12, <1>13, <1>14,
     <1>15, <1>16 DEF Next

\* Frames and handlers are in step in every state of every run: each step of the
\* compiled code and of the VM keeps what the other relies on.
THEOREM HandlersInvariant == Spec => []HandlersInv
<1>1. Init => HandlersInv
  BY HandlersInit
<1>2. HandlersInv /\ [Next]_vars => HandlersInv'
  BY HandlersNext
<1>3. QED
  BY <1>1, <1>2, PTL DEF Spec

-----------------------------------------------------------------------------
\* The type invariant is part of the invariant.
LEMMA TypesImplyTypeOK == ASSUME Types PROVE TypeOK
<1>1. /\ frames \in Seq(Frame) /\ Len(frames) \in 0 .. MaxCallDepth
      /\ (frames = <<>> <=> status # "run")
  BY ExceptionsAssumption DEF Types, Stacks, ExceptionsAssumption
<1>2. ASSUME NEW i \in 1 .. Len(frames)
      PROVE  /\ Len(frames[i].nest) <= MaxNest
             /\ \A j \in 1 .. Len(frames[i].nest) :
                   frames[i].nest[j] \in [at : Place, type : Exception \cup {CatchAll, NoCatch},
                                          finally : BOOLEAN]
             /\ frames[i].stray \in BOOLEAN
  <2>1. frames[i] \in Frame
    BY <1>1
  <2>2. frames[i].nest \in Seq(Constructs) /\ Len(frames[i].nest) <= MaxNest
        /\ frames[i].stray \in BOOLEAN
    BY <2>1 DEF Frame, Nests
  <2>3. \A j \in 1 .. Len(frames[i].nest) : frames[i].nest[j] \in Constructs
    BY <2>2
  <2>4. QED
    BY <2>2, <2>3 DEF Constructs, Kind
<1>3. handlers \in Seq(Handler) /\ Len(handlers) <= MaxHandlers /\ Len(saved) \in Nat
      /\ \A k \in 1 .. Len(handlers) : handlers[k].level <= Len(saved)
  BY DEF Types
<1>4. ASSUME NEW k \in 1 .. Len(handlers)
      PROVE  /\ handlers[k].clause \in Clause
             /\ handlers[k].level \in 0 .. Len(saved)
             /\ handlers[k].frame \in 1 .. MaxCallDepth
  <2>1. handlers[k] \in Handler
    BY <1>3
  <2>2. handlers[k].clause \in Clause /\ handlers[k].level \in 0 .. MaxCallbacks
        /\ handlers[k].frame \in 1 .. MaxCallDepth /\ handlers[k].level <= Len(saved)
    BY <1>3, <2>1 DEF Handler
  <2>3. QED
    BY <1>3, <2>2, ExceptionsAssumption DEF ExceptionsAssumption
<1>5. /\ Len(saved) <= MaxCallbacks /\ called \in BOOLEAN
      /\ status \in {"run", "done", "error", "exit", "wild"}
  BY DEF Types
<1>6. QED
  BY <1>1, <1>2, <1>3, <1>4, <1>5 DEF TypeOK

\* What the properties say of a frame and its handlers is what the invariant says.
LEMMA SameNames ==
    ASSUME NEW i
    PROVE  /\ Of(i) = OfIn(handlers, Len(saved), i) /\ Bodies(i) = BodiesIn(frames[i].nest)
           /\ \A j : Due(i, j) = DueIn(i, Len(saved), frames[i].nest, j)
BY DEF Of, OfIn, Bodies, BodiesIn, Due, DueIn

\* So is that a frame which no jump has left askew has no stray handler.
LEMMA InvNoStray == ASSUME HandlersInv PROVE NoStrayHandler
<1> SUFFICES ASSUME NEW i \in 1 .. Len(frames), ~ frames[i].stray
             PROVE  /\ \A k \in Of(i) : \E j \in Bodies(i) : handlers[k] = Due(i, j)
                    /\ \A k, l \in Of(i) :
                          k < l => Len(handlers[k].where) < Len(handlers[l].where)
                    /\ \A k \in Of(i), j \in Bodies(i) :
                          Len(handlers[k].where) < j =>
                             \E l \in Of(i) : handlers[l] = Due(i, j)
  BY DEF NoStrayHandler
<1>1. status = "run"
  <2>1. Len(frames) # 0
    OBVIOUS
  <2>2. frames # <<>>
    BY <2>1
  <2>3. QED
    BY <2>2 DEF HandlersInv, Types
<1>2. Orderly(handlers, Len(saved), i, frames[i].nest)
  BY <1>1 DEF HandlersInv, StackRight, FrameRight
<1>3. QED
  BY <1>2, SameNames DEF Orderly

\* Where no callback has been made nothing is lost.
LEMMA AllCovered ==
    ASSUME HandlersInv, ~ called, status = "run", NEW i \in 1 .. Len(frames)
    PROVE  /\ frames[i].nest \in Seq(Constructs) /\ frames[i].stray \in BOOLEAN
           /\ \E p \in [Bodies(i) -> Of(i)] :
                 /\ \A j \in Bodies(i) : handlers[p[j]] = Due(i, j)
                 /\ \A j, k \in Bodies(i) : j < k => p[j] < p[k]
<1> DEFINE nest == frames[i].nest
           c == Len(saved)
<1>1. nest \in Seq(Constructs) /\ frames[i].stray \in BOOLEAN
  BY WhileRunning, FrameTypes DEF HandlersInv
<1>2. Covered(handlers, c, i, nest, Len(handlers))
  BY DEF HandlersInv, StackRight, FrameRight
<1>3. PICK p : Covers(p, handlers, c, i, nest, Len(handlers))
  BY <1>2 DEF Covered
<1>4. /\ p \in [BodiesIn(nest) -> 1 .. Len(handlers)]
      /\ \A j \in BodiesIn(nest) : handlers[p[j]] = DueIn(i, c, nest, j)
      /\ \A j, k \in BodiesIn(nest) : j < k => p[j] < p[k]
  BY <1>3 DEF Covers
<1>5. \A j \in BodiesIn(nest) : p[j] \in OfIn(handlers, c, i)
  <2> TAKE j \in BodiesIn(nest)
  <2>1. p[j] \in 1 .. Len(handlers) /\ handlers[p[j]] = DueIn(i, c, nest, j)
    BY <1>4
  <2>2. handlers[p[j]].level = c /\ handlers[p[j]].frame = i
    BY <2>1 DEF DueIn
  <2>3. QED
    BY <2>1, <2>2 DEF OfIn
<1>6. p \in [BodiesIn(nest) -> OfIn(handlers, c, i)]
  BY <1>4, <1>5
<1>7. QED
  BY <1>1, <1>4, <1>6, SameNames

\* And that no handler is lost before a callback is made.
LEMMA InvNoLost == ASSUME HandlersInv PROVE NoLostHandler
BY AllCovered DEF NoLostHandler

(***************************************************************************)
(* Where a throw leads.  The handlers that raise may stop at and the bodies*)
(* that accept what is thrown, before any callback.                        *)
(***************************************************************************)
LEMMA OneLevel ==
    ASSUME HandlersInv, ~ called, status = "run"
    PROVE  /\ saved = <<>> /\ Len(saved) = 0
           /\ handlers \in Seq(Handler) /\ Len(handlers) \in Nat
           /\ frames \in Seq(Frame) /\ Len(frames) \in Nat
           /\ \A k \in 1 .. Len(handlers) :
                 /\ handlers[k].level = 0 /\ handlers[k].frame \in 1 .. Len(frames)
                 /\ k \in OfIn(handlers, 0, handlers[k].frame)
<1>1. Types /\ Attached(handlers, Len(saved), Len(frames))
  BY DEF HandlersInv, StackRight
<1>2. saved = <<>> /\ handlers \in Seq(Handler) /\ Len(handlers) \in Nat
  BY <1>1 DEF Types
<1>3. Len(saved) = 0 /\ frames \in Seq(Frame) /\ Len(frames) \in Nat
  BY <1>1, <1>2, WhileRunning
<1>4. ASSUME NEW k \in 1 .. Len(handlers)
      PROVE  /\ handlers[k].level = 0 /\ handlers[k].frame \in 1 .. Len(frames)
             /\ k \in OfIn(handlers, 0, handlers[k].frame)
  <2>1. handlers[k].level \in Nat /\ handlers[k].frame \in Nat /\ handlers[k].frame > 0
    BY <1>2, HandlerTypes
  <2>2. handlers[k].level = 0
    BY <1>1, <1>3, <2>1 DEF Attached
  <2>3. handlers[k].frame <= Len(frames)
    BY <1>1, <1>3, <2>2 DEF Attached
  <2>4. QED
    BY <1>3, <2>1, <2>2, <2>3 DEF OfIn
<1>5. QED
  BY <1>2, <1>3, <1>4

\* Each accepting body has a handler that raise may stop at.
LEMMA AcceptingIsCaught ==
    ASSUME HandlersInv, ~ called, status = "run", NEW x, NEW i \in 1 .. Len(frames),
           NEW j \in Bodies(i), Accepts(frames[i].nest[j], x)
    PROVE  \E k \in Catching(x) : handlers[k] = Due(i, j) /\ k \in Of(i)
<1>1. PICK p \in [Bodies(i) -> Of(i)] : handlers[p[j]] = Due(i, j)
  BY AllCovered
<1>2. p[j] \in Of(i) /\ handlers[p[j]] = Due(i, j)
  BY <1>1
<1>3. Accepts(handlers[p[j]].clause, x)
  BY <1>2 DEF Accepts, Due
<1>4. p[j] \in 1 .. Len(handlers) /\ handlers[p[j]].frame = i
  BY <1>2 DEF Of
<1>5. p[j] \in Catching(x)
  BY <1>3, <1>4, OneLevel DEF Catching
<1>6. QED
  BY <1>2, <1>5

\* Without strays, the handlers that raise may stop at are those of accepting bodies.
LEMMA CaughtIsAccepting ==
    ASSUME HandlersInv, ~ called, status = "run", NEW x, NEW k \in Catching(x),
           \A i \in 1 .. Len(frames) : ~ frames[i].stray
    PROVE  LET i == handlers[k].frame
           IN  /\ i \in 1 .. Len(frames) /\ k \in Of(i)
               /\ \E j \in Bodies(i) : handlers[k] = Due(i, j) /\ Accepts(frames[i].nest[j], x)
<1> DEFINE i == handlers[k].frame
<1>1. k \in 1 .. Len(handlers) /\ Accepts(handlers[k].clause, x)
  BY DEF Catching
<1>2. i \in 1 .. Len(frames) /\ k \in OfIn(handlers, Len(saved), i)
  BY <1>1, OneLevel
<1> HIDE DEF i
<1>3. k \in Of(i)
  BY <1>2, SameNames
<1>4. PICK j \in Bodies(i) : handlers[k] = Due(i, j)
  BY <1>2, <1>3, InvNoStray DEF NoStrayHandler
<1>5. Accepts(frames[i].nest[j], x)
  BY <1>1, <1>4 DEF Accepts, Due
<1>6. QED
  BY <1>2, <1>3, <1>4, <1>5 DEF i

\* The bodies that accept x, one by one.
LEMMA InAccepting ==
    ASSUME NEW x
    PROVE  /\ \A i \in 1 .. Len(frames) : \A j \in Bodies(i) :
                 Accepts(frames[i].nest[j], x) => <<i, j>> \in Accepting(x)
           /\ \A q \in Accepting(x) : /\ q[1] \in 1 .. Len(frames) /\ q[2] \in Bodies(q[1])
                                      /\ Accepts(frames[q[1]].nest[q[2]], x)
                                      /\ q = <<q[1], q[2]>>
<1>1. \A q : q \in Accepting(x) <=>
         \E i \in 1 .. Len(frames) :
            q \in {<<i, j>> : j \in {k \in Bodies(i) : Accepts(frames[i].nest[k], x)}}
  BY Zenon DEF Accepting
<1>2. \A q : q \in Accepting(x) <=>
         \E i \in 1 .. Len(frames) : \E j \in Bodies(i) :
            Accepts(frames[i].nest[j], x) /\ q = <<i, j>>
  BY <1>1, Zenon
<1>3. QED
  BY <1>2

\* The innermost accepting body is the one whose handler is nearest the top.
LEMMA NearestIsInnermost ==
    ASSUME HandlersInv, ~ called, status = "run", NEW x, Catching(x) # {},
           \A i \in 1 .. Len(frames) : ~ frames[i].stray
    PROVE  LET p == InnermostAccepting(x)
           IN  p \in Accepting(x) /\ handlers[Max(Catching(x))] = Due(p[1], p[2])
<1> DEFINE k == Max(Catching(x))
           f == handlers[k].frame
<1>0. k \in Catching(x) /\ k \in 1 .. Len(handlers) /\ \A l \in Catching(x) : l <= k
  BY OneLevel, Caught
<1> HIDE DEF k
<1>1. f \in 1 .. Len(frames) /\ k \in Of(f)
      /\ \E j \in Bodies(f) : handlers[k] = Due(f, j) /\ Accepts(frames[f].nest[j], x)
  BY <1>0, CaughtIsAccepting
<1> HIDE DEF f
<1>2. PICK j \in Bodies(f) : handlers[k] = Due(f, j) /\ Accepts(frames[f].nest[j], x)
  BY <1>1
<1>3. <<f, j>> \in Accepting(x)
  BY <1>1, <1>2, InAccepting
\* The place of a body and the length of where its handler leads.
<1>4. ASSUME NEW i \in 1 .. Len(frames), NEW m \in Bodies(i)
      PROVE  m \in Nat /\ i \in Nat /\ Len(Due(i, m).where) = m - 1
  <2>1. frames[i].nest \in Seq(Constructs) /\ m \in 1 .. Len(frames[i].nest)
    BY OneLevel, FrameTypes DEF Bodies
  <2>2. Len(DueIn(i, Len(saved), frames[i].nest, m).where) = m - 1
    BY <2>1, DueFields
  <2>3. QED
    BY <2>1, <2>2, SameNames
<1>5. ASSUME NEW q \in Accepting(x)
      PROVE  q[1] < f \/ (q[1] = f /\ q[2] <= j)
  <2> DEFINE i == q[1]
             m == q[2]
  <2>1. i \in 1 .. Len(frames) /\ m \in Bodies(i) /\ Accepts(frames[i].nest[m], x)
    BY InAccepting
  <2> HIDE DEF i, m
  <2>2. PICK l \in Catching(x) : handlers[l] = Due(i, m) /\ l \in Of(i)
    BY <2>1, AcceptingIsCaught
  <2>3. l \in 1 .. Len(handlers) /\ l <= k /\ handlers[l].frame = i
    BY <1>0, <2>2 DEF Catching, Of
  <2>4. /\ m \in Nat /\ i \in Nat /\ j \in Nat /\ f \in Nat
        /\ Len(handlers[l].where) = m - 1 /\ Len(handlers[k].where) = j - 1
    BY <1>1, <1>2, <1>4, <2>1, <2>2
  <2>5. CASE l = k
    <3>1. i = f /\ m = j
      BY <2>3, <2>4, <2>5 DEF f
    <3>2. QED
      BY <2>4, <3>1 DEF i, m
  <2>6. CASE l < k
    <3>1. i <= f
      <4>1. Sorted(handlers)
        BY DEF HandlersInv, StackRight
      <4>2. handlers[l].level = 0 /\ handlers[k].level = 0
        BY <1>0, <2>3, OneLevel
      <4>3. QED
        BY <1>0, <2>3, <2>6, <4>1, <4>2 DEF Sorted, f
    <3>2. i = f => m < j
      <4>1. SUFFICES ASSUME i = f PROVE m < j
        OBVIOUS
      <4>2. Len(handlers[l].where) < Len(handlers[k].where)
        BY <1>1, <2>2, <2>6, <4>1, InvNoStray DEF NoStrayHandler
      <4>3. QED
        BY <2>4, <4>2
    <3>3. QED
      BY <2>4, <3>1, <3>2 DEF i, m
  <2>7. QED
    BY <1>0, <2>3, <2>5, <2>6
<1> DEFINE p == InnermostAccepting(x)
<1>6. p \in Accepting(x) /\ \A q \in Accepting(x) : q[1] < p[1] \/ (q[1] = p[1] /\ q[2] <= p[2])
  <2>1. \E y \in Accepting(x) :
           \A q \in Accepting(x) : q[1] < y[1] \/ (q[1] = y[1] /\ q[2] <= y[2])
    <3>1. <<f, j>>[1] = f /\ <<f, j>>[2] = j
      OBVIOUS
    <3>2. WITNESS <<f, j>> \in Accepting(x)
    <3>3. QED
      BY <1>5, <3>1
  <2>2. QED
    BY <2>1, Zenon DEF InnermostAccepting
<1> HIDE DEF p
<1>7. p[1] = f /\ p[2] = j
  <2>1. p[1] < f \/ (p[1] = f /\ p[2] <= j)
    BY <1>5, <1>6
  <2>2. f < p[1] \/ (f = p[1] /\ j <= p[2])
    <3>1. \A q \in Accepting(x) : q[1] < p[1] \/ (q[1] = p[1] /\ q[2] <= p[2])
      BY <1>6
    <3>2. <<f, j>>[1] = f /\ <<f, j>>[2] = j
      OBVIOUS
    <3>3. QED
      BY <1>3, <3>1, <3>2
  <2>3. p[1] \in 1 .. Len(frames) /\ p[2] \in Bodies(p[1])
    BY <1>6, InAccepting
  <2>4. p[1] \in Nat /\ p[2] \in Nat /\ f \in Nat /\ j \in Nat
    BY <1>1, <1>2, <1>4, <2>3
  <2>5. QED
    BY <2>1, <2>2, <2>4
<1>8. QED
  BY <1>2, <1>6, <1>7 DEF k, p

\* A throw of the source is a raise.
LEMMA ThrownRaises ==
    ASSUME NEW x, Thrown(x)
    PROVE  status = "run" /\ \E next : Raise(x, next)
BY DEF Thrown, Throw, Rethrow

\* Where the invariant holds a throw unwinds as the source says.
LEMMA StepUnwinds ==
    ASSUME HandlersInv, NEW x \in Exception, Thrown(x), ~ called
    PROVE  /\ Accepting(x) # {} => status' = "run"
           /\ (\A i \in 1 .. Len(frames) : ~ frames[i].stray) => Unwinds(x)
<1>1. status = "run" /\ \E next : Raise(x, next)
  BY ThrownRaises
<1>2. PICK next : Raise(x, next)
  BY <1>1
<1> DEFINE k == Max(Catching(x))
           h == handlers[k]
<1>3. ASSUME Catching(x) # {}
      PROVE  /\ frames' = [SubSeq(frames, 1, h.frame) EXCEPT
                               ![h.frame].nest = Append(h.where, HandlerBlock(h.clause, x))]
             /\ status' = "run" /\ h.frame \in 1 .. Len(frames)
  <2>1. Land(h, x)
    BY <1>2, <1>3 DEF Raise
  <2>2. k \in 1 .. Len(handlers)
    BY <1>1, <1>3, OneLevel, Caught
  <2> HIDE DEF k
  <2>3. h.level = Len(saved) /\ h.frame \in 1 .. Len(frames)
    BY <1>1, <2>2, OneLevel
  <2>4. QED
    BY <1>1, <2>1, <2>3 DEF Land
<1>4. ASSUME Accepting(x) # {} PROVE Catching(x) # {}
  <2>1. PICK q : q \in Accepting(x)
    BY <1>4
  <2>2. q[1] \in 1 .. Len(frames) /\ q[2] \in Bodies(q[1])
        /\ Accepts(frames[q[1]].nest[q[2]], x)
    BY <2>1, InAccepting
  <2>3. QED
    BY <1>1, <2>2, AcceptingIsCaught
<1>5. ASSUME \A i \in 1 .. Len(frames) : ~ frames[i].stray PROVE Unwinds(x)
  <2>1. CASE Accepting(x) = {}
    <3>1. Catching(x) = {}
      <4>1. SUFFICES ASSUME NEW l \in Catching(x) PROVE FALSE
        OBVIOUS
      <4>2. handlers[l].frame \in 1 .. Len(frames)
            /\ \E j \in Bodies(handlers[l].frame) :
                  Accepts(frames[handlers[l].frame].nest[j], x)
        BY <1>1, <1>5, CaughtIsAccepting
      <4>3. QED
        BY <2>1, <4>2, InAccepting
    <3>2. Fail(next) /\ saved = <<>>
      BY <1>1, <1>2, <3>1, OneLevel DEF Raise
    <3>3. status' = "error"
      BY <3>2 DEF Fail, End
    <3>4. QED
      BY <2>1, <3>3 DEF Unwinds
  <2>2. CASE Accepting(x) # {}
    <3> DEFINE p == InnermostAccepting(x)
               nest == frames[p[1]].nest
    <3>1. Catching(x) # {}
      BY <1>4, <2>2
    <3>2. p \in Accepting(x) /\ h = Due(p[1], p[2])
      BY <1>1, <1>5, <3>1, NearestIsInnermost
    <3> HIDE DEF p
    <3>3. /\ h.frame = p[1] /\ h.where = SubSeq(nest, 1, p[2] - 1)
          /\ h.clause = [type |-> nest[p[2]].type, finally |-> nest[p[2]].finally]
      <4> DEFINE g == h
      <4>1. g = Due(p[1], p[2])
        BY <3>2
      <4> HIDE DEF g
      <4>2. /\ g.frame = p[1] /\ g.where = SubSeq(nest, 1, p[2] - 1)
            /\ g.clause = [type |-> nest[p[2]].type, finally |-> nest[p[2]].finally]
        BY <4>1 DEF Due
      <4>3. QED
        BY <4>2 DEF g
    <3>4. HandlerBlock(h.clause, x) = HandlerBlock(nest[p[2]], x)
      BY <3>3 DEF HandlerBlock
    <3> DEFINE new == Append(SubSeq(nest, 1, p[2] - 1), HandlerBlock(nest[p[2]], x))
               fs == SubSeq(frames, 1, p[1])
    <3>5. frames' = [fs EXCEPT ![p[1]].nest = new] /\ status' = "run"
          /\ p[1] \in 1 .. Len(frames)
      BY <1>3, <3>1, <3>3, <3>4
    <3> HIDE DEF new, nest
    <3>6. fs \in Seq(Frame) /\ Len(fs) = p[1] /\ fs[p[1]] \in Frame
      BY <1>1, <3>5, OneLevel
    <3>7. Len(frames') = p[1] /\ frames'[p[1]].nest = new
      BY <3>5, <3>6 DEF Frame
    <3>8. QED
      BY <2>2, <3>5, <3>7 DEF Unwinds, p, new, nest
  <2>3. QED
    BY <2>1, <2>2
<1>6. QED
  BY <1>3, <1>4, <1>5

-----------------------------------------------------------------------------
\* The frames, handlers and callbacks of a run have their types, whatever the
\* program: the stacks stay within their limits.
THEOREM ExceptionsTypeCorrect == Spec => []TypeOK
<1>1. HandlersInv => TypeOK
  BY TypesImplyTypeOK DEF HandlersInv
<1>2. QED
  BY <1>1, HandlersInvariant, PTL

\* The handlers of a frame are those of the try bodies it is in, the innermost of
\* them if not all, unless a break or continue has left one of its bodies.
THEOREM NoHandlerStrays == Spec => []NoStrayHandler
BY InvNoStray, HandlersInvariant, PTL

\* While no callback has been made every open try body has its handler, in the
\* order of nesting, whatever strays are among them.
THEOREM NoHandlerIsLost == Spec => []NoLostHandler
BY InvNoLost, HandlersInvariant, PTL

\* Before any callback, a throw that an open body accepts is caught, and if there are
\* no strays it goes to the handler block of the innermost body that accepts it.
THEOREM ThrowsUnwind == Spec => UnwindsToInnermost
<1>1. ASSUME HandlersInv
      PROVE  \A x \in Exception :
               Thrown(x) /\ ~called =>
                  /\ Accepting(x) # {} => status' = "run"
                  /\ (\A i \in 1 .. Len(frames) : ~ frames[i].stray) => Unwinds(x)
  BY <1>1, StepUnwinds
<1>2. HandlersInv =>
        [\A x \in Exception :
            Thrown(x) /\ ~called =>
               /\ Accepting(x) # {} => status' = "run"
               /\ (\A i \in 1 .. Len(frames) : ~ frames[i].stray) => Unwinds(x)]_vars
  BY <1>1
<1>3. QED
  BY <1>2, HandlersInvariant, PTL DEF UnwindsToInnermost
=============================================================================
