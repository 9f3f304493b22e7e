----------------------------- MODULE ActorProofs ----------------------------
(***************************************************************************)
(* What a kill does to the tree of actors, for every tree and circle.      *)
(*                                                                         *)
(* The recursion walks the children as they are in the table it edits, and *)
(* may come to an actor several times, also while it is still at work on   *)
(* it.  The invariant compares the table with that at the call: F are the  *)
(* actors some activation has finished with.                               *)
(***************************************************************************)
EXTENDS Actor, FiniteSetTheorems, SequenceTheorems, WellFoundedInduction, TLAPS

\* What an actor of the table is.
KnownActor ==
    [mailbox : Seq(Message), alive : BOOLEAN, parent : AnyId, children : Seq(AnyId),
     death_strategy : Strategy]

\* It lists no child twice, and has been asked only what was made a request.
Proper(actor, made) ==
    /\ IsInjective(actor.children)
    /\ \A i \in 1 .. Len(actor.mailbox) :
          actor.mailbox[i].kind = "request" => actor.mailbox[i].n \in made

Table(table, made) ==
    /\ table \in Seq(KnownActor) /\ Len(table) <= MaxActors
    /\ \A id \in 1 .. Len(table) : Proper(table[id], made)

\* The requests made so far.
Made == 1 .. next_request_id - 1

RequestTypes ==
    /\ operations \in 0 .. MaxOperations
    /\ next_request_id \in 1 .. operations + 1
    /\ known \subseteq Made
    /\ response_queue \in Seq(Made)
    /\ tokens \in 0 .. NotifierSpace

Activations == [id : Id, todo : Seq(AnyId), parent : AnyId]

CallTypes ==
    /\ calls \in Seq(Activations)
    /\ Len(calls) <= StackDepth
    /\ caller \in {"run", "notify", "overflow"}
    /\ caller # "run" => calls = <<>>

ActorTypes == Table(actors, Made) /\ RequestTypes /\ CallTypes

-----------------------------------------------------------------------------
\* The actors that a kill in progress has marked, if F have been finished.
Marked(F) == F \cup {calls[k].id : k \in 1 .. Len(calls)}

\* No children have been taken from F that are not in F.
Finished(F) ==
    /\ F \subseteq Id
    /\ \A a \in F : Ends(before[a]) \cap Id \subseteq F
    /\ \A C \in (SUBSET F) \ {{}} : \E a \in C : Ends(before[a]) \cap C = {}

\* The children of a that nobody has unlinked.
Linked(a, F) == {c \in AnyId : ~ (c \in F /\ before[c].parent = a)}

\* The table is that of the call, but for what it is to have marked the actors
\* of M and unlinked those of F.
Edited(table, F, M) ==
    \A a \in Id :
        /\ table[a].parent = before[a].parent
        /\ table[a].death_strategy = before[a].death_strategy
        /\ table[a].alive = IF a \in M THEN before[a].death_strategy = "Restart"
                                       ELSE before[a].alive
        /\ table[a].children = Kept(before[a].children, Linked(a, F))

\* The mailbox of p was that in `table`, and has been sent the notices of M.
Notified(table, p, M, box) ==
    LET old == table[p].mailbox
    IN  /\ Len(old) <= Len(box) /\ \A i \in 1 .. Len(old) : box[i] = old[i]
        /\ {box[i] : i \in Len(old) + 1 .. Len(box)} =
               {Died(c) : c \in {c \in M : /\ table[c].parent = p
                                           /\ table[c].death_strategy = "Escalate"
                                           /\ table[p].alive}}

Told(table, M) == \A p \in Id \ Victims : Notified(before, p, M, table[p].mailbox)

\* An activation for a child that its caller ends, with the children that are
\* not finished still to do, but for the one it has called.
Visits(call, child, F) ==
    /\ call.parent = before[call.id].parent
    /\ Range(call.todo) \cup child \subseteq Ends(before[call.id])
    /\ Ends(before[call.id]) \cap Id \subseteq F \cup Range(call.todo) \cup child

Called(k) == IF k < Len(calls) THEN {calls[k + 1].id} ELSE {}

Walk(F) == \A k \in 1 .. Len(calls) : Visits(calls[k], Called(k), F)

Killing(F) ==
    /\ Finished(F) /\ Walk(F)
    /\ Edited(actors, F, Marked(F)) /\ Told(actors, Marked(F))
    /\ Marked(F) \subseteq Victims

KillInv ==
    calls # <<>> =>
        /\ before \in Seq(KnownActor) /\ Len(before) = Len(actors)
        /\ \E F \in SUBSET Id : Killing(F)

ActorInv == ActorTypes /\ KillInv
-----------------------------------------------------------------------------
\* What Kept does, by induction.

\* A set of numbers that has 0 and the next of each has them all.
LEMMA AllNumbers ==
    ASSUME NEW P, 0 \in P, \A n \in Nat : n \in P => n + 1 \in P
    PROVE  Nat \subseteq P
<1> SUFFICES ASSUME Nat \ P # {} PROVE FALSE
  OBVIOUS
<1>1. PICK x \in Nat \ P : \A y \in Nat \ P : ~ (<<y, x>> \in OpToRel(<, Nat))
  BY NatLessThanWellFounded, WFMin
<1>2. x - 1 \in Nat /\ (x - 1) + 1 = x
  OBVIOUS
<1>3. <<x - 1, x>> \in OpToRel(<, Nat)
  <2>1. <<x - 1, x>> \in Nat \X Nat /\ x - 1 < x
    BY <1>2
  <2>2. QED
    BY <2>1 DEF OpToRel
<1>4. x - 1 \in P
  BY <1>1, <1>2, <1>3
<1>5. QED
  BY <1>2, <1>4

\* So has a set of sequences that has the empty one, and with each those that
\* are longer by one.
LEMMA AllSequences ==
    ASSUME NEW S, NEW P, <<>> \in P,
           \A s \in Seq(S), e \in S : s \in P => Append(s, e) \in P
    PROVE  Seq(S) \subseteq P
<1> DEFINE L == {n \in Nat : \A s \in Seq(S) : Len(s) = n => s \in P}
<1>1. 0 \in L
  <2>1. \A s \in Seq(S) : Len(s) = 0 => s = <<>>
    OBVIOUS
  <2>2. QED
    BY <2>1
<1>2. ASSUME NEW n \in Nat, n \in L PROVE n + 1 \in L
  <2> SUFFICES ASSUME NEW s \in Seq(S), Len(s) = n + 1 PROVE s \in P
    OBVIOUS
  <2> DEFINE t == SubSeq(s, 1, n)
  <2>1. t \in Seq(S) /\ Len(t) = n /\ s[n + 1] \in S
    OBVIOUS
  <2>2. s = Append(t, s[n + 1])
    OBVIOUS
  <2>3. t \in P
    BY <1>2, <2>1
  <2>4. QED
    BY <2>1, <2>2, <2>3
<1>3. Nat \subseteq L
  <2> HIDE DEF L
  <2>1. QED
    BY <1>1, <1>2, AllNumbers
<1>4. QED
  BY <1>3

LEMMA RangeAppend ==
    ASSUME NEW S, NEW s \in Seq(S), NEW e \in S
    PROVE  Range(Append(s, e)) = Range(s) \cup {e}
<1> DEFINE t == Append(s, e)
<1>1. /\ Len(s) \in Nat /\ DOMAIN s = 1 .. Len(s) /\ DOMAIN t = 1 .. Len(s) + 1
      /\ t[Len(s) + 1] = e /\ \A k \in 1 .. Len(s) : t[k] = s[k]
  OBVIOUS
<1> HIDE DEF t
<1>2. Range(t) \subseteq Range(s) \cup {e}
  BY <1>1 DEF Range
<1>3. \A k \in DOMAIN s : k \in DOMAIN t /\ t[k] = s[k]
  BY <1>1
<1>4. Range(s) \subseteq Range(t)
  BY <1>3 DEF Range
<1>5. e \in Range(t)
  <2>1. Len(s) + 1 \in DOMAIN t
    BY <1>1
  <2>2. QED
    BY <1>1, <2>1 DEF Range
<1>6. QED
  BY <1>2, <1>4, <1>5 DEF t

\* Nothing is twice in a longer sequence if it was not in the shorter.
LEMMA InjectiveAppend ==
    ASSUME NEW S, NEW s \in Seq(S), NEW e \in S
    PROVE  IsInjective(Append(s, e)) <=> IsInjective(s) /\ e \notin Range(s)
<1> DEFINE t == Append(s, e)
           n == Len(s)
<1>1. /\ n \in Nat /\ DOMAIN s = 1 .. n /\ DOMAIN t = 1 .. n + 1
      /\ t[n + 1] = e /\ \A k \in 1 .. n : t[k] = s[k]
  OBVIOUS
<1> HIDE DEF t, n
<1>2. ASSUME IsInjective(t) PROVE IsInjective(s) /\ e \notin Range(s)
  <2>1. IsInjective(s)
    BY <1>1, <1>2 DEF IsInjective
  <2>2. ASSUME NEW k \in 1 .. n PROVE s[k] # e
    <3>1. k \in DOMAIN t /\ n + 1 \in DOMAIN t /\ k # n + 1
      BY <1>1
    <3>2. QED
      BY <1>1, <1>2, <3>1 DEF IsInjective
  <2>3. QED
    BY <1>1, <2>1, <2>2 DEF Range
<1>3. ASSUME IsInjective(s), e \notin Range(s) PROVE IsInjective(t)
  <2>1. \A k \in 1 .. n : s[k] # e
    BY <1>1, <1>3 DEF Range
  <2>2. \A k \in 1 .. n + 1 : k \in 1 .. n \/ k = n + 1
    BY <1>1
  <2>3. \A a, b \in 1 .. n : t[a] = t[b] => a = b
    BY <1>1, <1>3 DEF IsInjective
  <2>4. \A a, b \in 1 .. n + 1 : t[a] = t[b] => a = b
    BY <1>1, <2>1, <2>2, <2>3
  <2>5. QED
    BY <1>1, <2>4 DEF IsInjective
<1>4. QED
  BY <1>2, <1>3 DEF t

\* F is the function that Kept defines, on 0 .. n.
Filters(F, s, keep, n) ==
    F = [k \in 0 .. n |->
            IF k = 0 THEN <<>>
            ELSE IF s[k] \in keep THEN Append(F[k - 1], s[k]) ELSE F[k - 1]]

LEMMA FilterAt ==
    ASSUME NEW F, NEW s, NEW keep, NEW n, Filters(F, s, keep, n), NEW k \in 0 .. n
    PROVE  F[k] = IF k = 0 THEN <<>>
                  ELSE IF s[k] \in keep THEN Append(F[k - 1], s[k]) ELSE F[k - 1]
  BY DEF Filters

LEMMA FilterExists ==
    ASSUME NEW s, NEW keep, NEW n \in Nat
    PROVE  \E F : Filters(F, s, keep, n)
<1> DEFINE P == {m \in Nat : \E F : Filters(F, s, keep, m)}
<1>1. 0 \in P
  <2>1. Filters([k \in 0 .. 0 |-> <<>>], s, keep, 0)
    BY DEF Filters
  <2>2. QED
    BY <2>1
<1>2. ASSUME NEW m \in Nat, m \in P PROVE m + 1 \in P
  <2>1. PICK F : Filters(F, s, keep, m)
    BY <1>2
  <2> DEFINE last == IF s[m + 1] \in keep THEN Append(F[m], s[m + 1]) ELSE F[m]
             G == [k \in 0 .. m + 1 |-> IF k = m + 1 THEN last ELSE F[k]]
  <2>2. \A k \in 0 .. m : F[k] = IF k = 0 THEN <<>>
                                 ELSE IF s[k] \in keep THEN Append(F[k - 1], s[k]) ELSE F[k - 1]
    BY <2>1 DEF Filters
  <2>3. \A k \in 0 .. m : G[k] = F[k]
    OBVIOUS
  <2>4. \A k \in 0 .. m + 1 :
            G[k] = IF k = 0 THEN <<>>
                   ELSE IF s[k] \in keep THEN Append(G[k - 1], s[k]) ELSE G[k - 1]
    <3> SUFFICES ASSUME NEW k \in 0 .. m + 1
                 PROVE  G[k] = IF k = 0 THEN <<>>
                               ELSE IF s[k] \in keep THEN Append(G[k - 1], s[k]) ELSE G[k - 1]
      OBVIOUS
    <3>1. CASE k = m + 1
      <4>1. G[k] = last /\ k # 0 /\ k - 1 = m /\ G[k - 1] = F[m]
        BY <3>1, <2>3
      <4>2. QED
        BY <3>1, <4>1
    <3>2. CASE k \in 1 .. m
      <4>1. k - 1 \in 0 .. m /\ G[k - 1] = F[k - 1] /\ G[k] = F[k]
        BY <3>2, <2>3
      <4>2. QED
        BY <2>2, <3>2, <4>1
    <3>3. CASE k = 0
      BY <2>2, <2>3, <3>3
    <3>4. QED
      BY <3>1, <3>2, <3>3
  <2>5. Filters(G, s, keep, m + 1)
    <3> HIDE DEF last
    <3>1. QED
      BY <2>4 DEF Filters
  <2>6. QED
    BY <2>5
<1>3. Nat \subseteq P
  <2> HIDE DEF P
  <2>1. QED
    BY <1>1, <1>2, AllNumbers
<1>4. QED
  BY <1>3

\* It is the same for sequences with the same beginning.
LEMMA FilterUnique ==
    ASSUME NEW s, NEW t, NEW keep, NEW F, NEW G, NEW n \in Nat,
           Filters(F, s, keep, n), Filters(G, t, keep, n + 1),
           \A k \in 1 .. n : s[k] = t[k]
    PROVE  F[n] = G[n]
<1> DEFINE P == {k \in Nat : k <= n => F[k] = G[k]}
<1>1. 0 \in P
  BY DEF Filters
<1>2. ASSUME NEW k \in Nat, k \in P PROVE k + 1 \in P
  <2> SUFFICES ASSUME k + 1 <= n PROVE F[k + 1] = G[k + 1]
    OBVIOUS
  <2>1. F[k] = G[k] /\ k + 1 \in 0 .. n /\ k + 1 \in 0 .. n + 1 /\ s[k + 1] = t[k + 1]
    BY <1>2
  <2>2. k + 1 # 0 /\ (k + 1) - 1 = k
    OBVIOUS
  <2>3. F[k + 1] = IF s[k + 1] \in keep THEN Append(F[k], s[k + 1]) ELSE F[k]
    BY <2>1, <2>2, FilterAt
  <2>4. G[k + 1] = IF t[k + 1] \in keep THEN Append(G[k], t[k + 1]) ELSE G[k]
    BY <2>1, <2>2, FilterAt
  <2>5. QED
    BY <2>1, <2>3, <2>4
<1>3. Nat \subseteq P
  <2> HIDE DEF P
  <2>1. QED
    BY <1>1, <1>2, AllNumbers
<1>4. QED
  BY <1>3

LEMMA KeptFilters ==
    ASSUME NEW S, NEW s \in Seq(S), NEW keep
    PROVE  \E F : Filters(F, s, keep, Len(s)) /\ Kept(s, keep) = F[Len(s)]
<1>1. \E F : Filters(F, s, keep, Len(s))
  <2>1. Len(s) \in Nat
    OBVIOUS
  <2>2. QED
    BY <2>1, FilterExists
<1> DEFINE F == CHOOSE F : Filters(F, s, keep, Len(s))
<1>2. Filters(F, s, keep, Len(s))
  BY <1>1
<1>3. Kept(s, keep) = F[Len(s)]
  BY DEF Kept, Filters
<1>4. QED
  BY <1>2, <1>3

LEMMA KeptEmpty == ASSUME NEW keep PROVE Kept(<<>>, keep) = <<>>
<1>1. PICK F : Filters(F, <<>>, keep, 0) /\ Kept(<<>>, keep) = F[0]
  <2>1. <<>> \in Seq(Nat) /\ Len(<<>>) = 0
    OBVIOUS
  <2>2. QED
    BY <2>1, KeptFilters
<1>2. QED
  BY <1>1 DEF Filters

LEMMA KeptAppend ==
    ASSUME NEW S, NEW s \in Seq(S), NEW e \in S, NEW keep
    PROVE  Kept(Append(s, e), keep) = IF e \in keep THEN Append(Kept(s, keep), e)
                                                    ELSE Kept(s, keep)
<1>1. PICK n \in Nat : n = Len(s)
  OBVIOUS
<1>2. PICK t : t = Append(s, e)
  OBVIOUS
<1>3. /\ t \in Seq(S) /\ Len(t) = n + 1 /\ t[n + 1] = e
      /\ \A k \in 1 .. n : s[k] = t[k]
  BY <1>1, <1>2
<1>4. PICK F : Filters(F, s, keep, n) /\ Kept(s, keep) = F[n]
  BY <1>1, KeptFilters
<1>5. PICK G : Filters(G, t, keep, n + 1) /\ Kept(t, keep) = G[n + 1]
  BY <1>3, KeptFilters
<1>6. F[n] = G[n]
  <2>1. \A k \in 1 .. n : s[k] = t[k]
    BY <1>3
  <2>2. Filters(F, s, keep, n) /\ Filters(G, t, keep, n + 1)
    BY <1>4, <1>5
  <2>3. QED
    BY <2>1, <2>2, FilterUnique
<1>7. G[n + 1] = IF t[n + 1] \in keep THEN Append(G[n], t[n + 1]) ELSE G[n]
  <2>1. n + 1 \in 0 .. n + 1 /\ n + 1 # 0 /\ (n + 1) - 1 = n
    OBVIOUS
  <2>2. QED
    BY <1>5, <2>1, FilterAt
<1>8. QED
  BY <1>2, <1>3, <1>4, <1>5, <1>6, <1>7

\* What is kept is in S, and is what was there and is to be kept.
LEMMA KeptRange ==
    ASSUME NEW S, NEW s \in Seq(S), NEW keep
    PROVE  Kept(s, keep) \in Seq(S) /\ Range(Kept(s, keep)) = Range(s) \cap keep
<1> DEFINE P == {t \in Seq(S) : /\ Kept(t, keep) \in Seq(S)
                                /\ Range(Kept(t, keep)) = Range(t) \cap keep}
<1>1. <<>> \in P
  <2>1. <<>> \in Seq(S) /\ DOMAIN <<>> = {}
    OBVIOUS
  <2>2. Range(<<>>) = {}
    BY <2>1 DEF Range
  <2>3. QED
    BY <2>1, <2>2, KeptEmpty
<1>2. ASSUME NEW t \in Seq(S), NEW e \in S, t \in P PROVE Append(t, e) \in P
  <2>1. Range(Append(t, e)) = Range(t) \cup {e}
    BY RangeAppend
  <2>2. Kept(t, keep) \in Seq(S) /\ Range(Kept(t, keep)) = Range(t) \cap keep
    BY <1>2
  <2>3. Range(Append(Kept(t, keep), e)) = Range(Kept(t, keep)) \cup {e}
    BY <2>2, RangeAppend
  <2>4. CASE e \in keep
    <3>1. Kept(Append(t, e), keep) = Append(Kept(t, keep), e)
      BY <2>4, KeptAppend
    <3>2. Append(Kept(t, keep), e) \in Seq(S) /\ Append(t, e) \in Seq(S)
      BY <2>2
    <3>3. Range(Append(Kept(t, keep), e)) = Range(Append(t, e)) \cap keep
      BY <2>1, <2>2, <2>3, <2>4
    <3>4. QED
      BY <3>1, <3>2, <3>3
  <2>5. CASE e \notin keep
    <3>1. Kept(Append(t, e), keep) = Kept(t, keep)
      BY <2>5, KeptAppend
    <3>2. QED
      BY <2>1, <2>2, <2>5, <3>1
  <2>6. QED
    BY <2>4, <2>5
<1>3. Seq(S) \subseteq P
  <2> HIDE DEF P
  <2>1. QED
    BY <1>1, <1>2, AllSequences
<1>4. QED
  BY <1>3

\* To keep from what was kept is to keep both.
LEMMA KeptTwice ==
    ASSUME NEW S, NEW s \in Seq(S), NEW keep, NEW hold
    PROVE  Kept(Kept(s, keep), hold) = Kept(s, keep \cap hold)
<1> DEFINE P == {t \in Seq(S) : Kept(Kept(t, keep), hold) = Kept(t, keep \cap hold)}
<1>1. <<>> \in P
  BY KeptEmpty
<1>2. ASSUME NEW t \in Seq(S), NEW e \in S, t \in P PROVE Append(t, e) \in P
  <2> DEFINE u == Kept(t, keep)
  <2>1. u \in Seq(S) /\ Kept(u, hold) = Kept(t, keep \cap hold)
    BY <1>2, KeptRange
  <2>2. Kept(Append(t, e), keep) = IF e \in keep THEN Append(u, e) ELSE u
    BY KeptAppend
  <2>3. Kept(Append(t, e), keep \cap hold) =
            IF e \in keep \cap hold THEN Append(Kept(t, keep \cap hold), e)
                                    ELSE Kept(t, keep \cap hold)
    BY KeptAppend
  <2>4. Kept(Append(u, e), hold) = IF e \in hold THEN Append(Kept(u, hold), e) ELSE Kept(u, hold)
    BY <2>1, KeptAppend
  <2> HIDE DEF u
  <2>5. Kept(Kept(Append(t, e), keep), hold) = Kept(Append(t, e), keep \cap hold)
    <3>1. CASE e \in keep
      <4>1. e \in hold <=> e \in keep \cap hold
        BY <3>1
      <4>2. QED
        BY <2>1, <2>2, <2>3, <2>4, <3>1, <4>1
    <3>2. CASE e \notin keep
      <4>1. e \notin keep \cap hold
        BY <3>2
      <4>2. QED
        BY <2>1, <2>2, <2>3, <3>2, <4>1
    <3>3. QED
      BY <3>1, <3>2
  <2>6. QED
    BY <2>5
<1>3. Seq(S) \subseteq P
  <2> HIDE DEF P
  <2>1. QED
    BY <1>1, <1>2, AllSequences
<1>4. QED
  BY <1>3

\* Nothing is taken out if all is to be kept.
LEMMA KeptAll ==
    ASSUME NEW S, NEW s \in Seq(S), NEW keep, Range(s) \subseteq keep
    PROVE  Kept(s, keep) = s
<1> DEFINE P == {t \in Seq(S) : Range(t) \subseteq keep => Kept(t, keep) = t}
<1>1. <<>> \in P
  BY KeptEmpty
<1>2. ASSUME NEW t \in Seq(S), NEW e \in S, t \in P PROVE Append(t, e) \in P
  <2>1. Range(Append(t, e)) = Range(t) \cup {e}
    BY RangeAppend
  <2>2. Kept(Append(t, e), keep) = IF e \in keep THEN Append(Kept(t, keep), e)
                                                 ELSE Kept(t, keep)
    BY KeptAppend
  <2>3. QED
    BY <1>2, <2>1, <2>2
<1>3. Seq(S) \subseteq P
  <2> HIDE DEF P
  <2>1. QED
    BY <1>1, <1>2, AllSequences
<1>4. QED
  BY <1>3

\* What had nothing twice has nothing twice.
LEMMA KeptInjective ==
    ASSUME NEW S, NEW s \in Seq(S), NEW keep, IsInjective(s)
    PROVE  IsInjective(Kept(s, keep))
<1> DEFINE P == {t \in Seq(S) : IsInjective(t) => IsInjective(Kept(t, keep))}
<1>1. <<>> \in P
  BY KeptEmpty DEF IsInjective
<1>2. ASSUME NEW t \in Seq(S), NEW e \in S, t \in P PROVE Append(t, e) \in P
  <2> SUFFICES ASSUME IsInjective(Append(t, e)) PROVE IsInjective(Kept(Append(t, e), keep))
    OBVIOUS
  <2>1. IsInjective(t) /\ e \notin Range(t)
    BY InjectiveAppend
  <2>2. /\ Kept(t, keep) \in Seq(S) /\ e \notin Range(Kept(t, keep))
        /\ IsInjective(Kept(t, keep))
    BY <1>2, <2>1, KeptRange
  <2>3. IsInjective(Append(Kept(t, keep), e))
    BY <2>2, InjectiveAppend
  <2>4. Kept(Append(t, e), keep) = IF e \in keep THEN Append(Kept(t, keep), e)
                                                 ELSE Kept(t, keep)
    BY KeptAppend
  <2>5. QED
    BY <2>2, <2>3, <2>4
<1>3. Seq(S) \subseteq P
  <2> HIDE DEF P
  <2>1. QED
    BY <1>1, <1>2, AllSequences
<1>4. QED
  BY <1>3

-----------------------------------------------------------------------------
\* Types.

\* An actor of the table is replaced by another.
LEMMA Replaced ==
    ASSUME NEW made, NEW table, Table(table, made), NEW id \in 1 .. Len(table),
           NEW actor \in KnownActor, Proper(actor, made)
    PROVE  /\ Table([table EXCEPT ![id] = actor], made)
           /\ Len([table EXCEPT ![id] = actor]) = Len(table)
<1> DEFINE new == [table EXCEPT ![id] = actor]
<1>1. new \in Seq(KnownActor) /\ Len(new) = Len(table)
  BY ExceptSeq DEF Table
<1>2. \A a \in 1 .. Len(table) : new[a] = IF a = id THEN actor ELSE table[a]
  BY DEF Table
<1> HIDE DEF new
<1>3. Table(new, made)
  BY <1>1, <1>2 DEF Table
<1>4. QED
  BY <1>1, <1>3 DEF new

\* Made stays in a longer row of requests.
LEMMA MoreRequests ==
    ASSUME NEW made, NEW more, made \subseteq more, NEW table, Table(table, made)
    PROVE  Table(table, more)
  BY DEF Table, Proper

\* An actor gets a message.
LEMMA Delivered ==
    ASSUME NEW made, NEW actor \in KnownActor, Proper(actor, made),
           NEW message \in Message, message.kind = "request" => message.n \in made
    PROVE  /\ [actor EXCEPT !.mailbox = Append(@, message)] \in KnownActor
           /\ Proper([actor EXCEPT !.mailbox = Append(@, message)], made)
<1> DEFINE box == Append(actor.mailbox, message)
<1>1. actor.mailbox \in Seq(Message)
  BY DEF KnownActor
<1>2. /\ box \in Seq(Message) /\ Len(box) = Len(actor.mailbox) + 1
      /\ box[Len(actor.mailbox) + 1] = message
      /\ \A i \in 1 .. Len(actor.mailbox) : box[i] = actor.mailbox[i]
  BY <1>1, AppendProperties
<1> HIDE DEF box
<1>3. [actor EXCEPT !.mailbox = box] \in KnownActor
  BY <1>2 DEF KnownActor
<1>4. \A i \in 1 .. Len(box) : i \in 1 .. Len(actor.mailbox) \/ i = Len(actor.mailbox) + 1
  BY <1>1, <1>2
<1>5. Proper([actor EXCEPT !.mailbox = box], made)
  <2>1. /\ [actor EXCEPT !.mailbox = box].mailbox = box
        /\ [actor EXCEPT !.mailbox = box].children = actor.children
    BY DEF KnownActor
  <2>2. \A i \in 1 .. Len(box) : box[i].kind = "request" => box[i].n \in made
    BY <1>2, <1>4 DEF Proper
  <2>3. QED
    BY <2>1, <2>2 DEF Proper
<1>6. QED
  BY <1>3, <1>5 DEF box

\* What a kill does to the table when it comes to an actor.
LEMMA MarkEffect ==
    ASSUME Table(actors, Made), NEW id \in Id, Mark(id)
    PROVE  /\ Table(actors', Made) /\ Len(actors') = Len(actors)
           /\ \A a \in Id :
                 /\ actors'[a].parent = actors[a].parent
                 /\ actors'[a].death_strategy = actors[a].death_strategy
                 /\ actors'[a].children = actors[a].children
                 /\ actors'[a].alive = IF a = id THEN actors[a].death_strategy = "Restart"
                                                 ELSE actors[a].alive
                 /\ a # id =>
                       actors'[a].mailbox =
                           IF /\ actors[id].death_strategy = "Escalate"
                              /\ actors[id].parent = a /\ actors[a].alive
                           THEN Append(actors[a].mailbox, Died(id)) ELSE actors[a].mailbox
<1> DEFINE actor == actors[id]
           end == [actor EXCEPT !.alive = FALSE]
           dead == [actors EXCEPT ![id] = end]
<1>1. actor \in KnownActor /\ Proper(actor, Made) /\ actors \in Seq(KnownActor)
  BY DEF Table, Id
<1>2. end \in KnownActor /\ Proper(end, Made)
  BY <1>1 DEF KnownActor, Proper
<1>3. Table(dead, Made) /\ Len(dead) = Len(actors)
  <2>1. id \in 1 .. Len(actors)
    BY DEF Id
  <2> HIDE DEF end
  <2>2. QED
    BY <1>2, <2>1, Replaced
<1>4. /\ dead[id] = end /\ \A a \in Id \ {id} : dead[a] = actors[a]
      /\ DOMAIN actors = Id
  <2>1. DOMAIN actors = Id
    BY <1>1 DEF Id
  <2> HIDE DEF end
  <2>2. QED
    BY <2>1
<1>5. [actors EXCEPT ![id].alive = FALSE] = dead
  OBVIOUS
<1>6. CASE actor.death_strategy = "Terminate"
  <2>1. actors' = dead
    BY <1>5, <1>6 DEF Mark
  <2> HIDE DEF dead
  <2>2. QED
    BY <1>1, <1>3, <1>4, <1>6, <2>1 DEF KnownActor
<1>7. CASE actor.death_strategy = "Restart"
  <2> DEFINE new == [actor EXCEPT !.alive = TRUE, !.mailbox = <<>>]
  <2>1. actors' = [actors EXCEPT ![id] = new]
    BY <1>1, <1>4, <1>7 DEF Mark
  <2>2. new \in KnownActor /\ Proper(new, Made)
    <3>1. <<>> \in Seq(Message) /\ Len(<<>>) = 0
      OBVIOUS
    <3>2. /\ new \in KnownActor /\ new.children = actor.children
          /\ new.mailbox = <<>>
      BY <1>1, <3>1 DEF KnownActor
    <3> HIDE DEF new
    <3>3. QED
      BY <1>1, <3>1, <3>2 DEF Proper
  <2>3. /\ new.parent = actor.parent /\ new.death_strategy = actor.death_strategy
        /\ new.children = actor.children /\ new.alive = TRUE
    BY <1>1 DEF KnownActor
  <2> HIDE DEF new
  <2>4. Table(actors', Made) /\ Len(actors') = Len(actors)
    <3>1. id \in 1 .. Len(actors)
      BY DEF Id
    <3>2. /\ Table([actors EXCEPT ![id] = new], Made)
          /\ Len([actors EXCEPT ![id] = new]) = Len(actors)
      BY <2>2, <3>1, Replaced
    <3>3. QED
      BY <2>1, <3>2
  <2>5. actors'[id] = new /\ \A a \in Id \ {id} : actors'[a] = actors[a]
    BY <1>4, <2>1
  <2>6. QED
    BY <1>7, <2>3, <2>4, <2>5
<1>8. CASE actor.death_strategy = "Escalate"
  <2>1. /\ end.parent = actor.parent /\ end.death_strategy = actor.death_strategy
        /\ end.children = actor.children /\ end.alive = FALSE
    BY <1>1 DEF KnownActor
  <2>2. CASE actor.parent \in Id /\ dead[actor.parent].alive
    <3> DEFINE p == actor.parent
               new == [dead[p] EXCEPT !.mailbox = Append(@, Died(id))]
    <3>1. actors' = [dead EXCEPT ![p] = new]
      <4>1. actors' = [dead EXCEPT ![p].mailbox = Append(@, Died(id))]
        BY <1>5, <1>8, <2>2 DEF Mark
      <4>2. QED
        BY <4>1
    <3>2. dead[p] \in KnownActor /\ Proper(dead[p], Made)
      <4> HIDE DEF dead
      <4>1. QED
        BY <1>3, <2>2 DEF Table, Id
    <3>3. Died(id) \in Message /\ Died(id).kind = "died"
      <4>1. id \in 1 .. MaxActors
        BY ActorAssumption DEF Id, Table, ActorAssumption
      <4>2. QED
        BY <4>1 DEF Message, Died
    <3>4. new \in KnownActor /\ Proper(new, Made)
      <4> HIDE DEF dead
      <4>1. QED
        BY <3>2, <3>3, Delivered
    <3>5. Table(actors', Made) /\ Len(actors') = Len(actors)
      <4>1. p \in 1 .. Len(dead)
        BY <1>3, <2>2 DEF Id
      <4> HIDE DEF dead, new
      <4>2. /\ Table([dead EXCEPT ![p] = new], Made)
            /\ Len([dead EXCEPT ![p] = new]) = Len(dead)
        BY <1>3, <3>4, <4>1, Replaced
      <4>3. QED
        BY <1>3, <3>1, <4>2
    <3>6. /\ new.parent = dead[p].parent /\ new.death_strategy = dead[p].death_strategy
          /\ new.children = dead[p].children /\ new.alive = dead[p].alive
          /\ new.mailbox = Append(dead[p].mailbox, Died(id))
      <4> HIDE DEF dead
      <4>1. QED
        BY <3>2 DEF KnownActor
    <3>7. actors'[p] = new /\ \A a \in Id \ {p} : actors'[a] = dead[a]
      <4>1. DOMAIN dead = Id
        BY <1>4
      <4> HIDE DEF dead, new
      <4>2. QED
        BY <2>2, <3>1, <4>1
    <3>8. p # id
      BY <1>4, <2>1, <2>2
    <3> HIDE DEF dead, new, end
    <3>9. QED
      BY <1>4, <1>8, <2>1, <2>2, <3>5, <3>6, <3>7, <3>8
  <2>3. CASE ~ (actor.parent \in Id /\ dead[actor.parent].alive)
    <3>1. actors' = dead
      BY <1>5, <1>8, <2>3 DEF Mark
    <3> HIDE DEF dead, end
    <3>2. QED
      BY <1>3, <1>4, <1>8, <2>1, <2>3, <3>1
  <2>4. QED
    BY <2>2, <2>3
<1>9. QED
  <2>1. actor.death_strategy \in {"Restart", "Escalate", "Terminate"}
    BY <1>1 DEF KnownActor, Strategy
  <2>2. QED
    BY <1>6, <1>7, <1>8, <2>1

LEMMA InvInit == Init => ActorInv
<1> SUFFICES ASSUME Init PROVE ActorInv
  OBVIOUS
<1>1. \A S : <<>> \in Seq(S) /\ Len(<<>>) = 0
  OBVIOUS
<1>2. Table(actors, Made)
  BY <1>1, ActorAssumption DEF ActorAssumption, Table, Init
<1>3. RequestTypes
  BY <1>1, ActorAssumption DEF ActorAssumption, RequestTypes, Made, Init
<1>4. CallTypes
  BY <1>1, ActorAssumption DEF ActorAssumption, CallTypes, Init
<1>5. QED
  BY <1>2, <1>3, <1>4 DEF ActorInv, ActorTypes, KillInv, Init

\* No kill is in progress.
LEMMA NoKill ==
    ASSUME calls' = <<>>, caller' \in {"run", "notify", "overflow"}
    PROVE  CallTypes' /\ KillInv'
<1>1. \A S : <<>> \in Seq(S) /\ Len(<<>>) = 0
  OBVIOUS
<1>2. CallTypes'
  BY <1>1, ActorAssumption DEF ActorAssumption, CallTypes
<1>3. QED
  BY <1>2 DEF KillInv

\* A call is counted that makes no request.
LEMMA CountedCall == ASSUME RequestTypes, Counted, UNCHANGED requests PROVE RequestTypes'
<1>1. operations' \in 0 .. MaxOperations /\ operations' = operations + 1
  BY ActorAssumption DEF ActorAssumption, RequestTypes, Counted
<1>2. Made' = Made
  BY DEF requests, Made
<1>3. next_request_id' \in 1 .. operations' + 1
  BY <1>1 DEF RequestTypes, requests
<1>4. QED
  BY <1>1, <1>2, <1>3 DEF RequestTypes, requests

LEMMA OneActor ==
    ASSUME Table(actors, Made), Made \subseteq Made', NEW id \in Id,
           NEW actor \in KnownActor, Proper(actor, Made'),
           actors' = [actors EXCEPT ![id] = actor]
    PROVE  Table(actors, Made)'
<1>1. id \in 1 .. Len(actors)
  BY DEF Id
<1>2. Table(actors, Made')
  BY MoreRequests
<1>3. Table([actors EXCEPT ![id] = actor], Made')
  BY <1>1, <1>2, Replaced
<1>4. QED
  BY <1>3

LEMMA ActorAt ==
    ASSUME Table(actors, Made), NEW id \in Id
    PROVE  /\ actors[id] \in KnownActor /\ Proper(actors[id], Made)
           /\ id \in 1 .. MaxActors /\ DOMAIN actors = Id
<1>1. Len(actors) \in Nat /\ Len(actors) <= MaxActors
  BY DEF Table
<1>2. QED
  BY <1>1, ActorAssumption DEF ActorAssumption, Table, Id

\* The table is edited throughout.
LEMMA AllActors ==
    ASSUME Table(actors, Made), Made' = Made, NEW new,
           new = [a \in Id |-> new[a]],
           \A a \in Id : new[a] \in KnownActor /\ Proper(new[a], Made)
    PROVE  Table(new, Made)
<1>1. Len(actors) \in Nat /\ Len(actors) <= MaxActors
  BY DEF Table
<1>2. new \in Seq(KnownActor) /\ Len(new) = Len(actors)
  <2>1. new \in [1 .. Len(actors) -> KnownActor]
    BY DEF Id
  <2>2. QED
    BY <1>1, <2>1
<1>3. QED
  BY <1>1, <1>2 DEF Table, Id

-----------------------------------------------------------------------------
\* Each call keeps the invariant.

LEMMA SpawnStep == ASSUME ActorInv, Spawn PROVE ActorInv'
<1> DEFINE new == [mailbox |-> <<>>, alive |-> TRUE, parent |-> 0,
                   children |-> <<>>, death_strategy |-> "Terminate"]
<1>1. new \in KnownActor /\ Proper(new, Made)
  <2>1. <<>> \in Seq(Message) /\ <<>> \in Seq(AnyId) /\ Len(<<>>) = 0 /\ DOMAIN <<>> = {}
    OBVIOUS
  <2>2. new \in KnownActor
    BY <2>1, ActorAssumption DEF ActorAssumption, KnownActor, AnyId, Strategy
  <2>3. QED
    BY <2>1, <2>2 DEF Proper, IsInjective
<1>2. actors' = Append(actors, new) /\ Len(actors) < MaxActors /\ Table(actors, Made)
  BY DEF Spawn, ActorInv, ActorTypes
<1> HIDE DEF new
<1>3. /\ actors' \in Seq(KnownActor) /\ Len(actors') = Len(actors) + 1
      /\ actors'[Len(actors) + 1] = new
      /\ \A a \in 1 .. Len(actors) : actors'[a] = actors[a]
      /\ Len(actors) \in Nat
  BY <1>1, <1>2, AppendProperties DEF Table
<1>4. \A a \in 1 .. Len(actors') : a \in 1 .. Len(actors) \/ a = Len(actors) + 1
  BY <1>3
<1>5. \A a \in 1 .. Len(actors') : Proper(actors'[a], Made)
  BY <1>1, <1>2, <1>3, <1>4 DEF Table
<1>6. Len(actors') <= MaxActors
  BY <1>2, <1>3, ActorAssumption DEF ActorAssumption
<1>7. Made' = Made
  BY DEF Spawn, requests, Made
<1>8. Table(actors, Made)'
  BY <1>3, <1>5, <1>6, <1>7 DEF Table
<1>9. RequestTypes'
  BY <1>7 DEF Spawn, requests, ActorInv, ActorTypes, RequestTypes
<1>10. CallTypes' /\ KillInv'
  BY NoKill DEF Spawn, Idle
<1>11. QED
  BY <1>8, <1>9, <1>10 DEF ActorInv, ActorTypes

LEMMA SetStrategyStep ==
    ASSUME ActorInv, NEW id \in Id, NEW strategy \in Strategy, SetStrategy(id, strategy)
    PROVE  ActorInv'
<1> DEFINE new == [actors[id] EXCEPT !.death_strategy = strategy]
<1>1. Table(actors, Made) /\ actors[id] \in KnownActor /\ Proper(actors[id], Made)
  BY ActorAt DEF ActorInv, ActorTypes
<1>2. /\ new \in KnownActor /\ new.children = actors[id].children
      /\ new.mailbox = actors[id].mailbox
  BY <1>1 DEF KnownActor
<1>3. Made' = Made
  BY DEF SetStrategy, requests, Made
<1>4. actors' = [actors EXCEPT ![id] = new]
  BY DEF SetStrategy
<1> HIDE DEF new
<1>5. Proper(new, Made)
  BY <1>1, <1>2 DEF Proper
<1>6. Table(actors, Made)'
  BY <1>1, <1>2, <1>3, <1>4, <1>5, OneActor
<1>7. RequestTypes'
  BY CountedCall DEF SetStrategy, requests, ActorInv, ActorTypes
<1>8. CallTypes' /\ KillInv'
  BY NoKill DEF SetStrategy, Idle
<1>9. QED
  BY <1>6, <1>7, <1>8 DEF ActorInv, ActorTypes

LEMMA SuperviseStep ==
    ASSUME ActorInv, NEW parent \in AnyId, NEW child \in AnyId, Supervise(parent, child)
    PROVE  ActorInv'
<1> DEFINE list(a) == IF a = parent /\ ~Contains(actors[a].children, child)
                      THEN Append(actors[a].children, child) ELSE actors[a].children
           new(a) == [actors[a] EXCEPT !.parent = IF a = child THEN parent ELSE @,
                                       !.children = list(a)]
<1>1. Table(actors, Made)
  BY DEF ActorInv, ActorTypes
<1>2. ASSUME NEW a \in Id PROVE new(a) \in KnownActor /\ Proper(new(a), Made)
  <2>1. actors[a] \in KnownActor /\ Proper(actors[a], Made) /\ actors[a].children \in Seq(AnyId)
    BY <1>1, ActorAt DEF KnownActor
  <2>2. list(a) \in Seq(AnyId)
    BY <2>1
  <2>3. IsInjective(list(a))
    <3>1. CASE a = parent /\ ~Contains(actors[a].children, child)
      <4>1. child \notin Range(actors[a].children)
        BY <2>1, <3>1 DEF Range, Contains
      <4>2. IsInjective(Append(actors[a].children, child))
        BY <2>1, <4>1, InjectiveAppend DEF Proper
      <4>3. QED
        BY <3>1, <4>2
    <3>2. CASE ~ (a = parent /\ ~Contains(actors[a].children, child))
      BY <2>1, <3>2 DEF Proper
    <3>3. QED
      BY <3>1, <3>2
  <2> HIDE DEF list
  <2>4. /\ new(a) \in KnownActor /\ new(a).children = list(a)
        /\ new(a).mailbox = actors[a].mailbox
    BY <2>1, <2>2 DEF KnownActor
  <2> HIDE DEF new
  <2>5. QED
    BY <2>1, <2>3, <2>4 DEF Proper
<1>3. actors' = [a \in Id |-> new(a)]
  BY DEF Supervise
<1>4. Made' = Made
  BY DEF Supervise, requests, Made
<1>5. Table(actors', Made)
  <2> HIDE DEF new
  <2>1. PICK t : t = [a \in Id |-> new(a)]
    OBVIOUS
  <2>2. \A a \in Id : t[a] = new(a)
    BY <2>1
  <2>3. t = [a \in Id |-> t[a]]
    BY <2>1, <2>2
  <2>4. Table(t, Made)
    BY <1>1, <1>2, <1>4, <2>2, <2>3, AllActors
  <2>5. QED
    BY <1>3, <2>1, <2>4
<1>6. RequestTypes'
  BY CountedCall DEF Supervise, requests, ActorInv, ActorTypes
<1>7. CallTypes' /\ KillInv'
  BY NoKill DEF Supervise, Idle
<1>8. QED
  BY <1>4, <1>5, <1>6, <1>7 DEF ActorInv, ActorTypes

-----------------------------------------------------------------------------
\* Messages and requests.

LEMMA GetsMessage ==
    ASSUME Table(actors, Made), Made \subseteq Made', NEW id \in Id, NEW message \in Message,
           message.kind = "request" => message.n \in Made', Deliver(id, message)
    PROVE  Table(actors, Made)'
<1> DEFINE new == [actors[id] EXCEPT !.mailbox = Append(@, message)]
<1>1. actors[id] \in KnownActor /\ Proper(actors[id], Made')
  <2>1. Table(actors, Made') /\ id \in 1 .. Len(actors)
    BY MoreRequests DEF Id
  <2>2. QED
    BY <2>1 DEF Table
<1>2. new \in KnownActor /\ Proper(new, Made')
  BY <1>1, Delivered
<1>3. actors' = [actors EXCEPT ![id] = new]
  BY DEF Deliver
<1> HIDE DEF new
<1>4. QED
  BY <1>2, <1>3, OneActor

LEMMA SendStep == ASSUME ActorInv, NEW id \in Id, Send(id) PROVE ActorInv'
<1>1. Plain \in Message /\ Plain.kind = "plain"
  BY DEF Message, Plain
<1>2. Made' = Made /\ Table(actors, Made) /\ Deliver(id, Plain)
  BY DEF Send, Made, ActorInv, ActorTypes
<1>3. Table(actors, Made)'
  BY <1>1, <1>2, GetsMessage
<1>4. RequestTypes'
  BY CountedCall DEF Send, requests, ActorInv, ActorTypes
<1>5. CallTypes' /\ KillInv'
  BY NoKill DEF Send, Idle
<1>6. QED
  BY <1>3, <1>4, <1>5 DEF ActorInv, ActorTypes

LEMMA RecvStep == ASSUME ActorInv, NEW id \in Id, Recv(id) PROVE ActorInv'
<1> DEFINE box == actors[id].mailbox
           new == [actors[id] EXCEPT !.mailbox = Tail(box)]
<1>1. /\ Table(actors, Made) /\ actors[id] \in KnownActor /\ Proper(actors[id], Made)
      /\ box \in Seq(Message) /\ box # <<>>
  BY ActorAt DEF ActorInv, ActorTypes, Recv, KnownActor
<1>2. /\ Len(box) \in Nat /\ 1 \in 1 .. Len(box) /\ Head(box) = box[1]
      /\ Tail(box) \in Seq(Message) /\ Len(Tail(box)) = Len(box) - 1
      /\ \A i \in 1 .. Len(Tail(box)) : Tail(box)[i] = box[i + 1]
  BY <1>1
<1>3. new \in KnownActor /\ Proper(new, Made)
  <2> DEFINE rest == Tail(box)
  <2>1. rest \in Seq(Message)
    BY <1>2
  <2>2. \A i \in 1 .. Len(rest) : i + 1 \in 1 .. Len(box) /\ rest[i] = box[i + 1]
    BY <1>2
  <2> HIDE DEF rest
  <2>3. /\ [actors[id] EXCEPT !.mailbox = rest] \in KnownActor
        /\ [actors[id] EXCEPT !.mailbox = rest].mailbox = rest
        /\ [actors[id] EXCEPT !.mailbox = rest].children = actors[id].children
    BY <1>1, <2>1 DEF KnownActor
  <2>4. Proper([actors[id] EXCEPT !.mailbox = rest], Made)
    BY <1>1, <2>2, <2>3 DEF Proper
  <2>5. QED
    BY <2>3, <2>4 DEF rest
<1>4. Made' = Made
  BY DEF Recv, Made
<1>5. actors' = [actors EXCEPT ![id] = new]
  BY DEF Recv
<1>6. Table(actors, Made)'
  <2> HIDE DEF new
  <2>1. QED
    BY <1>1, <1>3, <1>4, <1>5, OneActor
<1>7. known' \subseteq Made
  <2>1. known' = known \cup (IF Head(box).kind = "request" THEN {Head(box).n} ELSE {})
    BY DEF Recv
  <2>2. Head(box).kind = "request" => Head(box).n \in Made
    BY <1>1, <1>2 DEF Proper
  <2>3. QED
    BY <2>1, <2>2 DEF ActorInv, ActorTypes, RequestTypes
<1>8. RequestTypes'
  BY <1>4, <1>7 DEF Recv, ActorInv, ActorTypes, RequestTypes
<1>9. CallTypes' /\ KillInv'
  BY NoKill DEF Recv, Idle
<1>10. QED
  BY <1>6, <1>8, <1>9 DEF ActorInv, ActorTypes

\* A request is new: none of the responses is for it, and all are dropped.
LEMMA TryAskStep == ASSUME ActorInv, NEW id \in Id, TryAsk(id) PROVE ActorInv'
<1> DEFINE n == next_request_id
<1>1. /\ RequestTypes /\ n \in Nat \ {0} /\ operations \in Nat /\ n <= operations + 1
      /\ operations < MaxOperations
  BY ActorAssumption DEF ActorAssumption, ActorInv, ActorTypes, RequestTypes, TryAsk, Counted
<1>2. Made' = Made \cup {n} /\ n \in 1 .. MaxOperations
  BY <1>1, ActorAssumption DEF ActorAssumption, TryAsk, Made
<1>3. response_queue' = <<>>
  <2>1. ~Contains(response_queue, n)
    BY <1>1 DEF RequestTypes, Contains, Made
  <2>2. QED
    BY <2>1 DEF TryAsk, Unread
<1>4. Request(n) \in Message /\ Request(n).n = n
  BY <1>2 DEF Message, Request
<1>5. Table(actors, Made)'
  <2>1. Table(actors, Made) /\ Deliver(id, Request(n))
    BY DEF ActorInv, ActorTypes, TryAsk
  <2>2. QED
    BY <1>2, <1>4, <2>1, GetsMessage
<1>6. RequestTypes'
  <2>1. operations' = operations + 1 /\ n' = n + 1 /\ known' = known /\ tokens' = tokens
    BY DEF TryAsk, Counted
  <2>2. operations' \in 0 .. MaxOperations /\ n' \in 1 .. operations' + 1
    <3>1. MaxOperations \in Nat
      BY ActorAssumption DEF ActorAssumption
    <3> HIDE DEF n
    <3>2. QED
      BY <1>1, <2>1, <3>1
  <2>3. known' \subseteq Made' /\ response_queue' \in Seq(Made')
    BY <1>1, <1>2, <1>3, <2>1 DEF RequestTypes
  <2>4. QED
    BY <1>1, <2>1, <2>2, <2>3 DEF RequestTypes
<1>7. CallTypes' /\ KillInv'
  BY NoKill DEF TryAsk, Idle
<1>8. QED
  BY <1>5, <1>6, <1>7 DEF ActorInv, ActorTypes

LEMMA ReplyStep == ASSUME ActorInv, NEW n \in known, Reply(n) PROVE ActorInv'
<1>1. Made' = Made /\ Table(actors, Made) /\ RequestTypes
  BY DEF Reply, Made, ActorInv, ActorTypes
<1>2. Table(actors, Made)'
  BY <1>1 DEF Reply
<1>3. response_queue' \in Seq(Made)
  <2>1. n \in Made /\ response_queue \in Seq(Made)
    BY <1>1 DEF RequestTypes
  <2> HIDE DEF Made
  <2>2. QED
    BY <2>1 DEF Reply
<1>4. RequestTypes'
  BY <1>1, <1>3 DEF Reply, RequestTypes
<1>5. CallTypes' /\ KillInv'
  BY NoKill DEF Reply, Idle
<1>6. QED
  BY <1>2, <1>4, <1>5 DEF ActorInv, ActorTypes

LEMMA NotifyStep == ASSUME ActorInv, Notify PROVE ActorInv'
<1>1. Made' = Made /\ Table(actors, Made) /\ RequestTypes /\ calls = <<>>
  BY DEF Notify, Made, ActorInv, ActorTypes, CallTypes
<1>2. Table(actors, Made)'
  BY <1>1 DEF Notify
<1>3. tokens' \in 0 .. NotifierSpace
  BY <1>1, ActorAssumption DEF ActorAssumption, Notify, RequestTypes
<1>4. RequestTypes'
  BY <1>1, <1>3 DEF Notify, RequestTypes
<1>5. CallTypes' /\ KillInv'
  BY <1>1, NoKill DEF Notify
<1>6. QED
  BY <1>2, <1>4, <1>5 DEF ActorInv, ActorTypes

-----------------------------------------------------------------------------
\* The tree of a kill.

LEMMA DoomedTree ==
    ASSUME NEW table, NEW root \in 1 .. Len(table)
    PROVE  /\ root \in Doomed(table, root) /\ Doomed(table, root) \subseteq 1 .. Len(table)
           /\ \A a \in Doomed(table, root) :
                 Ends(table[a]) \cap 1 .. Len(table) \subseteq Doomed(table, root)
           /\ \A S \in SUBSET (1 .. Len(table)) :
                 /\ root \in S
                 /\ \A a \in S : Ends(table[a]) \cap 1 .. Len(table) \subseteq S
                 => Doomed(table, root) \subseteq S
<1> DEFINE ids == 1 .. Len(table)
           Closed(S) == \A a \in S : Ends(table[a]) \cap ids \subseteq S
           D == {a \in ids : \A S \in SUBSET ids : root \in S /\ Closed(S) => a \in S}
<1>1. Doomed(table, root) = D
  BY DEF Doomed
<1>2. root \in D /\ D \subseteq ids
  OBVIOUS
<1>3. ASSUME NEW S \in SUBSET ids, root \in S, Closed(S) PROVE D \subseteq S
  BY <1>3
<1>4. ASSUME NEW a \in D, NEW c \in Ends(table[a]) \cap ids PROVE c \in D
  <2> SUFFICES ASSUME NEW S \in SUBSET ids, root \in S, Closed(S) PROVE c \in S
    BY <1>4
  <2>1. a \in S
    BY <1>4
  <2>2. QED
    BY <1>4, <2>1
<1>5. QED
  BY <1>1, <1>2, <1>3, <1>4

\* What an actor ends are the children its activation goes through.
LEMMA EndsRange ==
    ASSUME NEW actor \in KnownActor
    PROVE  Ends(actor) = IF actor.death_strategy = "Terminate" THEN Range(actor.children) ELSE {}
<1>1. actor.children \in Seq(AnyId)
  BY DEF KnownActor
<1>2. DOMAIN actor.children = 1 .. Len(actor.children)
  BY <1>1
<1>3. QED
  BY <1>2 DEF Ends, Range

LEMMA ToKillRange ==
    ASSUME NEW actor \in KnownActor
    PROVE  ToKill(actor) \in Seq(AnyId) /\ Range(ToKill(actor)) = Ends(actor)
<1>1. actor.children \in Seq(AnyId) /\ <<>> \in Seq(AnyId) /\ DOMAIN <<>> = {}
  BY DEF KnownActor
<1>2. Range(<<>>) = {}
  BY <1>1 DEF Range
<1>3. QED
  BY <1>1, <1>2, EndsRange DEF ToKill

\* A list that lost its head, and a sequence without its last element.
LEMMA TailRange ==
    ASSUME NEW S, NEW s \in Seq(S), s # <<>>
    PROVE  /\ Head(s) \in S /\ Tail(s) \in Seq(S)
           /\ Range(s) = Range(Tail(s)) \cup {Head(s)}
<1> DEFINE n == Len(s)
           t == Tail(s)
<1>1. /\ n \in Nat \ {0} /\ DOMAIN s = 1 .. n /\ Head(s) = s[1]
      /\ t \in Seq(S) /\ DOMAIN t = 1 .. n - 1 /\ \A i \in 1 .. n - 1 : t[i] = s[i + 1]
  OBVIOUS
<1>2. s[1] \in S
  BY <1>1
<1> HIDE DEF n, t
<1>3. \A i \in 1 .. n - 1 : i + 1 \in 1 .. n
  BY <1>1
<1>4. \A i \in 1 .. n : i = 1 \/ (i - 1 \in 1 .. n - 1 /\ (i - 1) + 1 = i)
  BY <1>1
<1>5. \A e \in Range(t) : e \in Range(s)
  BY <1>1, <1>3 DEF Range
<1>6. \A e \in Range(s) : e = s[1] \/ e \in Range(t)
  <2> SUFFICES ASSUME NEW i \in 1 .. n PROVE s[i] = s[1] \/ s[i] \in Range(t)
    BY <1>1 DEF Range
  <2>1. CASE i = 1
    BY <2>1
  <2>2. CASE i # 1
    <3>1. i - 1 \in DOMAIN t /\ t[i - 1] = s[i]
      BY <1>1, <1>4, <2>2
    <3>2. QED
      BY <3>1 DEF Range
  <2>3. QED
    BY <2>1, <2>2
<1>7. s[1] \in Range(s)
  <2>1. 1 \in DOMAIN s
    BY <1>1
  <2>2. QED
    BY <2>1 DEF Range
<1>8. QED
  BY <1>1, <1>2, <1>5, <1>6, <1>7 DEF t

\* One more notice.
LEMMA NotifiedMore ==
    ASSUME NEW table, NEW p, NEW M, NEW id, NEW box \in Seq(Message), NEW more,
           table[p].mailbox \in Seq(Message), Died(id) \in Message,
           Notified(table, p, M, box),
           more = IF /\ table[id].death_strategy = "Escalate"
                     /\ table[id].parent = p /\ table[p].alive
                  THEN Append(box, Died(id)) ELSE box
    PROVE  Notified(table, p, M \cup {id}, more)
<1> DEFINE old == table[p].mailbox
           tells(c) == /\ table[c].parent = p /\ table[c].death_strategy = "Escalate"
                       /\ table[p].alive
           l == Len(old)
           n == Len(box)
<1>1. /\ l \in Nat /\ n \in Nat /\ l <= n /\ \A i \in 1 .. l : box[i] = old[i]
      /\ {box[i] : i \in l + 1 .. n} = {Died(c) : c \in {c \in M : tells(c)}}
  <2>1. l \in Nat /\ n \in Nat
    OBVIOUS
  <2>2. /\ l <= n /\ \A i \in 1 .. l : box[i] = old[i]
        /\ {box[i] : i \in l + 1 .. n} = {Died(c) : c \in {c \in M : tells(c)}}
    BY Zenon DEF Notified
  <2>3. QED
    BY <2>1, <2>2
<1>2. CASE tells(id)
  <2>1. more = Append(box, Died(id))
    BY <1>2
  <2>2. /\ Len(more) = n + 1 /\ more[n + 1] = Died(id)
        /\ \A i \in 1 .. n : more[i] = box[i]
    BY <2>1
  <2>3. {c \in M \cup {id} : tells(c)} = {c \in M : tells(c)} \cup {id}
    BY <1>2
  <2> HIDE DEF l, n, tells
  <2>4. {more[i] : i \in l + 1 .. n + 1} = {box[i] : i \in l + 1 .. n} \cup {Died(id)}
    <3>1. \A i \in l + 1 .. n + 1 : i = n + 1 \/ (i \in l + 1 .. n /\ i \in 1 .. n)
      BY <1>1
    <3>2. \A i \in l + 1 .. n : i \in l + 1 .. n + 1 /\ i \in 1 .. n
      BY <1>1
    <3>3. n + 1 \in l + 1 .. n + 1
      BY <1>1
    <3>4. QED
      BY <2>2, <3>1, <3>2, <3>3
  <2>5. {Died(c) : c \in {c \in M : tells(c)} \cup {id}} =
            {Died(c) : c \in {c \in M : tells(c)}} \cup {Died(id)}
    OBVIOUS
  <2>6. {more[i] : i \in l + 1 .. n + 1} = {Died(c) : c \in {c \in M \cup {id} : tells(c)}}
    BY <1>1, <2>3, <2>4, <2>5
  <2>7. l <= n + 1 /\ \A i \in 1 .. l : more[i] = old[i]
    BY <1>1, <2>2
  <2>8. QED
    BY <2>2, <2>6, <2>7 DEF Notified, l, n, tells
<1>3. CASE ~tells(id)
  <2>1. more = box
    BY <1>3
  <2>2. {c \in M \cup {id} : tells(c)} = {c \in M : tells(c)}
    BY <1>3
  <2>3. /\ l <= n /\ \A i \in 1 .. l : more[i] = old[i]
        /\ {more[i] : i \in l + 1 .. n} = {Died(c) : c \in {c \in M \cup {id} : tells(c)}}
    <3> HIDE DEF l, n, tells
    <3>1. QED
      BY <1>1, <2>1, <2>2
  <2>4. Len(more) = n
    BY <2>1
  <2>5. QED
    BY <2>3, <2>4, Zenon DEF Notified
<1>4. QED
  BY <1>2, <1>3

-----------------------------------------------------------------------------
\* A kill is called, by the program or for a child.

LEMMA EnterTypes ==
    ASSUME Table(actors, Made), Made' = Made, caller = "run", caller' = caller,
           NEW id \in Id, NEW outer \in Seq(Activations), Len(outer) < StackDepth,
           Mark(id), calls' = Append(outer, Activation(id))
    PROVE  /\ Table(actors, Made)' /\ CallTypes' /\ Id' = Id
           /\ Activation(id) \in Activations
           /\ Len(calls') = Len(outer) + 1 /\ calls'[Len(outer) + 1] = Activation(id)
           /\ \A k \in 1 .. Len(outer) : calls'[k] = outer[k]
<1> DEFINE n == Len(outer)
           act == Activation(id)
<1>1. Table(actors, Made)' /\ Len(actors') = Len(actors)
  BY MarkEffect
<1>2. Id' = Id /\ Activations' = Activations
  BY <1>1 DEF Id, Activations
<1>3. act \in Activations
  <2>1. actors[id] \in KnownActor
    BY ActorAt
  <2>2. ToKill(actors[id]) \in Seq(AnyId) /\ actors[id].parent \in AnyId
    BY <2>1, ToKillRange DEF KnownActor
  <2>3. QED
    BY <2>2 DEF Activation, Activations
<1> HIDE DEF act
<1>4. calls' = Append(outer, act)
  BY DEF act
<1>5. /\ calls' \in Seq(Activations) /\ Len(calls') = n + 1 /\ calls'[n + 1] = act
      /\ \A k \in 1 .. n : calls'[k] = outer[k]
  BY <1>3, <1>4
<1>6. Len(calls') <= StackDepth
  <2>1. n \in Nat /\ StackDepth \in Nat
    BY ActorAssumption DEF ActorAssumption
  <2>2. QED
    BY <1>5, <2>1
<1>7. CallTypes'
  BY <1>2, <1>5, <1>6 DEF CallTypes
<1>8. QED
  BY <1>1, <1>2, <1>3, <1>5, <1>7 DEF act

LEMMA KillStep == ASSUME ActorInv, NEW id \in Id, Kill(id) PROVE ActorInv'
<1>1. /\ Table(actors, Made) /\ RequestTypes /\ UNCHANGED requests /\ Counted
      /\ caller = "run" /\ before' = actors
  BY DEF ActorInv, ActorTypes, Kill, Idle
<1>2. RequestTypes' /\ Made' = Made
  BY <1>1, CountedCall DEF Made, requests
<1>3. <<>> \in Seq(Activations) /\ Len(<<>>) = 0
  OBVIOUS
<1>4. CASE ~ (Len(<<>>) < StackDepth)
  <2>1. caller' = "overflow" /\ calls' = <<>> /\ actors' = actors
    BY <1>4 DEF Kill, Enter
  <2>2. CallTypes' /\ KillInv'
    BY <2>1, NoKill
  <2>3. Table(actors, Made)'
    BY <1>1, <1>2, <2>1
  <2>4. QED
    BY <1>2, <2>2, <2>3 DEF ActorInv, ActorTypes
<1>5. CASE Len(<<>>) < StackDepth
  <2>1. Mark(id) /\ calls' = Append(<<>>, Activation(id)) /\ caller' = caller
    BY <1>5 DEF Kill, Enter
  <2>2. /\ Table(actors, Made)' /\ CallTypes' /\ Id' = Id
        /\ Len(calls') = 1 /\ calls'[1] = Activation(id)
    <3>1. PICK outer : outer = <<>>
      OBVIOUS
    <3>2. outer \in Seq(Activations) /\ Len(outer) = 0 /\ Len(outer) < StackDepth
      BY <1>3, <1>5, <3>1
    <3>3. calls' = Append(outer, Activation(id))
      BY <2>1, <3>1
    <3>4. /\ Table(actors, Made)' /\ CallTypes' /\ Id' = Id
          /\ Len(calls') = Len(outer) + 1 /\ calls'[Len(outer) + 1] = Activation(id)
      BY <1>1, <1>2, <2>1, <3>2, <3>3, EnterTypes
    <3>5. QED
      BY <3>2, <3>4
  <2>3. actors \in Seq(KnownActor) /\ id \in 1 .. Len(actors)
    BY <1>1 DEF Table, Id
  <2>4. /\ Len(actors') = Len(actors)
        /\ \A a \in Id :
              /\ actors'[a].parent = actors[a].parent
              /\ actors'[a].death_strategy = actors[a].death_strategy
              /\ actors'[a].children = actors[a].children
              /\ actors'[a].alive = IF a = id THEN actors[a].death_strategy = "Restart"
                                              ELSE actors[a].alive
              /\ a # id =>
                    actors'[a].mailbox =
                        IF /\ actors[id].death_strategy = "Escalate"
                           /\ actors[id].parent = a /\ actors[a].alive
                        THEN Append(actors[a].mailbox, Died(id)) ELSE actors[a].mailbox
    BY <1>1, <2>1, MarkEffect
  <2>5. \A a \in Id : actors[a] \in KnownActor /\ actors[a].children \in Seq(AnyId)
    BY <1>1, ActorAt DEF KnownActor
  <2>6. Marked({})' = {id}
    BY <2>2 DEF Marked, Activation
  <2>7. calls'[1].id = id /\ Victims' = Doomed(actors, id)
    BY <1>1, <2>2 DEF Victims, Activation
  <2>8. id \in Doomed(actors, id)
    BY <2>3, DoomedTree
  <2>9. Finished({})'
    <3>1. \A C \in SUBSET {} : C = {}
      OBVIOUS
    <3>2. QED
      BY <3>1 DEF Finished
  <2>10. Walk({})'
    <3> SUFFICES ASSUME NEW k \in 1 .. 1
                 PROVE  /\ calls'[1].parent = actors[id].parent
                        /\ Range(calls'[1].todo) = Ends(actors[id])
      BY <1>1, <2>2, <2>7 DEF Walk, Visits, Called
    <3>1. QED
      BY <2>2, <2>5, ToKillRange DEF Activation
  <2>11. Edited(actors, {}, {id})'
    <3> SUFFICES ASSUME NEW a \in Id
                 PROVE  /\ actors'[a].parent = actors[a].parent
                        /\ actors'[a].death_strategy = actors[a].death_strategy
                        /\ actors'[a].alive = IF a \in {id}
                                              THEN actors[a].death_strategy = "Restart"
                                              ELSE actors[a].alive
                        /\ actors'[a].children = Kept(actors[a].children, Linked(a, {})')
      BY <1>1, <2>2 DEF Edited
    <3>1. Linked(a, {})' = AnyId
      BY DEF Linked
    <3>2. Range(actors[a].children) \subseteq AnyId
      BY <2>5 DEF Range
    <3>3. Kept(actors[a].children, AnyId) = actors[a].children
      BY <2>5, <3>2, KeptAll
    <3>4. QED
      BY <2>4, <3>1, <3>3
  <2>12. Told(actors, {id})'
    <3> SUFFICES ASSUME NEW p \in Id, p # id
                 PROVE  Notified(actors, p, {id}, actors'[p].mailbox)
      BY <1>1, <2>2, <2>7, <2>8 DEF Told
    <3>1. actors[p].mailbox \in Seq(Message)
      BY <2>5 DEF KnownActor
    <3>2. Notified(actors, p, {}, actors[p].mailbox)
      <4> DEFINE box == actors[p].mailbox
      <4>1. Len(box) \in Nat /\ Len(box) + 1 .. Len(box) = {}
        BY <3>1
      <4>2. {box[i] : i \in Len(box) + 1 .. Len(box)} = {}
        BY <4>1
      <4>3. {Died(c) : c \in {c \in {} : /\ actors[c].parent = p
                                         /\ actors[c].death_strategy = "Escalate"
                                         /\ actors[p].alive}} = {}
        OBVIOUS
      <4>4. Len(box) <= Len(box)
        BY <4>1
      <4> HIDE DEF box
      <4>5. Notified(actors, p, {}, box)
        BY <4>2, <4>3, <4>4, Zenon DEF Notified, box
      <4>6. QED
        BY <4>5 DEF box
    <3>3. Died(id) \in Message
      BY <1>1, ActorAt DEF Message
    <3>4. Notified(actors, p, {} \cup {id}, actors'[p].mailbox)
      BY <2>4, <3>1, <3>2, <3>3, NotifiedMore
    <3>5. {} \cup {id} = {id}
      OBVIOUS
    <3>6. QED
      BY <3>4, <3>5
  <2>13. Killing({})'
    BY <2>6, <2>7, <2>8, <2>9, <2>10, <2>11, <2>12 DEF Killing
  <2>14. KillInv'
    BY <1>1, <2>3, <2>4, <2>13 DEF KillInv
  <2>15. QED
    BY <1>2, <2>2, <2>14 DEF ActorInv, ActorTypes
<1>6. QED
  BY <1>4, <1>5

\* The activations when the current one has taken its next child.
Rest == [calls EXCEPT ![Len(calls)].todo = Tail(@)]

LEMMA RestTypes ==
    ASSUME calls \in Seq(Activations), calls # <<>>, Current.todo # <<>>
    PROVE  LET n == Len(calls)
           IN  /\ n \in Nat \ {0} /\ Current = calls[n] /\ Current \in Activations
               /\ Rest \in Seq(Activations) /\ Len(Rest) = n
               /\ \A k \in 1 .. n : Rest[k].id = calls[k].id /\ Rest[k].parent = calls[k].parent
               /\ \A k \in 1 .. n - 1 : Rest[k].todo = calls[k].todo
               /\ Rest[n].todo = Tail(Current.todo)
               /\ Range(Current.todo) = Range(Rest[n].todo) \cup {Head(Current.todo)}
<1> DEFINE n == Len(calls)
           new == [Current EXCEPT !.todo = Tail(@)]
<1>1. n \in Nat \ {0} /\ Current = calls[n] /\ calls[n] \in Activations
  BY DEF Current
<1>2. Current.todo \in Seq(AnyId)
  BY <1>1 DEF Activations
<1>3. /\ Tail(Current.todo) \in Seq(AnyId)
      /\ Range(Current.todo) = Range(Tail(Current.todo)) \cup {Head(Current.todo)}
  BY <1>2, TailRange
<1>4. /\ new \in Activations /\ new.id = Current.id /\ new.parent = Current.parent
      /\ new.todo = Tail(Current.todo)
  BY <1>1, <1>3 DEF Activations
<1>5. Rest = [calls EXCEPT ![n] = new]
  BY <1>1 DEF Rest
<1> HIDE DEF new
<1>6. /\ Rest \in Seq(Activations) /\ Len(Rest) = n /\ Rest[n] = new
      /\ \A k \in 1 .. n - 1 : Rest[k] = calls[k]
  BY <1>1, <1>4, <1>5
<1>7. \A k \in 1 .. n : k \in 1 .. n - 1 \/ k = n
  BY <1>1
<1>8. QED
  BY <1>1, <1>3, <1>4, <1>6, <1>7

\* What a kill in progress has of its actors.
LEMMA InKill ==
    ASSUME ActorInv, calls # <<>>
    PROVE  /\ Len(calls) \in Nat \ {0} /\ before \in Seq(KnownActor) /\ Len(before) = Len(actors)
           /\ caller = "run" /\ calls[1].id \in Id
           /\ calls[1].id \in Victims /\ Victims \subseteq Id
           /\ \A a \in Victims : Ends(before[a]) \cap Id \subseteq Victims
           /\ \A a \in Id : /\ before[a] \in KnownActor /\ before[a].mailbox \in Seq(Message)
                            /\ before[a].children \in Seq(AnyId) /\ before[a].parent \in AnyId
<1>1. /\ calls \in Seq(Activations) /\ Len(calls) \in Nat \ {0}
      /\ before \in Seq(KnownActor) /\ Len(before) = Len(actors) /\ caller = "run"
  BY DEF ActorInv, ActorTypes, CallTypes, KillInv
<1>2. calls[1].id \in Id
  <2>1. calls[1] \in Activations
    BY <1>1
  <2>2. QED
    BY <2>1 DEF Activations
<1>3. Id = 1 .. Len(before)
  BY <1>1 DEF Id
<1>4. /\ calls[1].id \in Victims /\ Victims \subseteq Id
      /\ \A a \in Victims : Ends(before[a]) \cap Id \subseteq Victims
  BY <1>2, <1>3, DoomedTree DEF Victims
<1>5. ASSUME NEW a \in Id
      PROVE  /\ before[a] \in KnownActor /\ before[a].mailbox \in Seq(Message)
             /\ before[a].children \in Seq(AnyId) /\ before[a].parent \in AnyId
  <2>1. before[a] \in KnownActor
    BY <1>1, <1>3
  <2>2. QED
    BY <2>1 DEF KnownActor
<1>6. QED
  BY <1>1, <1>2, <1>4, <1>5

\* A child without an actor is passed over.
LEMMA PassOver ==
    ASSUME ActorInv, calls # <<>>, Current.todo # <<>>, Head(Current.todo) \notin Id,
           calls' = Rest, UNCHANGED <<actors, caller, requests, operations, before>>
    PROVE  ActorInv'
<1> DEFINE n == Len(calls)
<1>1. calls \in Seq(Activations) /\ n <= StackDepth /\ Table(actors, Made) /\ RequestTypes
  BY DEF ActorInv, ActorTypes, CallTypes
<1>2. /\ n \in Nat \ {0} /\ Current = calls[n]
      /\ calls' \in Seq(Activations) /\ Len(calls') = n
      /\ \A k \in 1 .. n : calls'[k].id = calls[k].id /\ calls'[k].parent = calls[k].parent
      /\ \A k \in 1 .. n - 1 : calls'[k].todo = calls[k].todo
      /\ Range(calls[n].todo) = Range(calls'[n].todo) \cup {Head(Current.todo)}
  BY <1>1, RestTypes
<1>3. Made' = Made /\ Id' = Id /\ Activations' = Activations
  BY DEF Made, Id, Activations, requests
<1>4. Table(actors, Made)' /\ RequestTypes'
  BY <1>1, <1>3 DEF RequestTypes, requests
<1>5. CallTypes'
  BY <1>1, <1>2, <1>3, InKill DEF CallTypes
<1>6. PICK F \in SUBSET Id : Killing(F)
  BY DEF ActorInv, KillInv
<1>7. Marked(F)' = Marked(F)
  BY <1>2 DEF Marked
<1>8. Victims' = Victims
  BY <1>2 DEF Victims
<1>9. Walk(F)'
  <2> SUFFICES ASSUME NEW k \in 1 .. n PROVE Visits(calls[k], Called(k), F)'
    BY <1>2 DEF Walk
  <2>1. Called(k)' = Called(k)
    <3>1. k < n => k + 1 \in 1 .. n
      BY <1>2
    <3>2. QED
      BY <1>2, <3>1 DEF Called
  <2>2. Visits(calls[k], Called(k), F)
    BY <1>6 DEF Killing, Walk
  <2>3. CASE k \in 1 .. n - 1
    BY <1>2, <1>3, <2>1, <2>2, <2>3 DEF Visits
  <2>4. CASE k = n
    <3>1. /\ Range(calls'[n].todo) \subseteq Range(calls[n].todo)
          /\ Range(calls[n].todo) \cap Id \subseteq Range(calls'[n].todo)
      BY <1>2
    <3>2. n \in 1 .. n
      BY <1>2
    <3> HIDE DEF n
    <3>3. QED
      BY <1>2, <1>3, <2>1, <2>2, <2>4, <3>1, <3>2 DEF Visits
  <2>5. QED
    BY <1>2, <2>3, <2>4
<1>10. Finished(F)' /\ Edited(actors, F, Marked(F))' /\ Told(actors, Marked(F))'
  <2>1. Finished(F)'
    BY <1>3, <1>6 DEF Killing, Finished
  <2>2. Edited(actors, F, Marked(F))'
    <3>1. \A a \in Id : Linked(a, F)' = Linked(a, F)
      BY DEF Linked
    <3>2. QED
      BY <1>3, <1>6, <1>7, <3>1 DEF Killing, Edited
  <2>3. Told(actors, Marked(F))'
    BY <1>3, <1>6, <1>7, <1>8 DEF Killing, Told
  <2>4. QED
    BY <2>1, <2>2, <2>3
<1>11. Killing(F)'
  BY <1>6, <1>7, <1>8, <1>9, <1>10 DEF Killing
<1>12. KillInv'
  BY <1>3, <1>11 DEF KillInv, ActorInv
<1>13. QED
  BY <1>4, <1>5, <1>12 DEF ActorInv, ActorTypes

\* The next child is visited.
LEMMA Visit ==
    ASSUME ActorInv, calls # <<>>, Current.todo # <<>>,
           NEW id, id = Head(Current.todo), id \in Id, Len(Rest) < StackDepth,
           Mark(id), calls' = Append(Rest, Activation(id)),
           UNCHANGED <<caller, requests, operations, before>>
    PROVE  ActorInv'
<1> DEFINE n == Len(calls)
<1>1. /\ calls \in Seq(Activations) /\ Table(actors, Made) /\ RequestTypes /\ caller = "run"
  BY InKill DEF ActorInv, ActorTypes, CallTypes
<1>2. /\ n \in Nat \ {0} /\ Current = calls[n]
      /\ Rest \in Seq(Activations) /\ Len(Rest) = n
      /\ \A k \in 1 .. n : Rest[k].id = calls[k].id /\ Rest[k].parent = calls[k].parent
      /\ \A k \in 1 .. n - 1 : Rest[k].todo = calls[k].todo
      /\ Range(calls[n].todo) = Range(Rest[n].todo) \cup {id}
  BY <1>1, RestTypes
<1>3. Made' = Made /\ RequestTypes'
  BY <1>1 DEF Made, requests, RequestTypes
<1>4. /\ Table(actors, Made)' /\ CallTypes' /\ Id' = Id
      /\ Len(calls') = n + 1 /\ calls'[n + 1] = Activation(id)
      /\ \A k \in 1 .. n : calls'[k] = Rest[k]
  <2> HIDE DEF n
  <2>1. /\ Table(actors, Made)' /\ CallTypes' /\ Id' = Id
        /\ Len(calls') = Len(Rest) + 1 /\ calls'[Len(Rest) + 1] = Activation(id)
        /\ \A k \in 1 .. Len(Rest) : calls'[k] = Rest[k]
    BY <1>1, <1>2, <1>3, EnterTypes
  <2>2. QED
    BY <1>2, <2>1
<1>5. /\ \A k \in 1 .. n : calls'[k].id = calls[k].id /\ calls'[k].parent = calls[k].parent
      /\ \A k \in 1 .. n - 1 : calls'[k].todo = calls[k].todo
      /\ Range(calls[n].todo) = Range(calls'[n].todo) \cup {id}
      /\ calls'[n + 1].id = id /\ calls'[n + 1].parent = actors[id].parent
      /\ calls'[n + 1].todo = ToKill(actors[id])
  BY <1>2, <1>4 DEF Activation
<1> HIDE DEF n
<1>6. PICK F \in SUBSET Id : Killing(F)
  BY DEF ActorInv, KillInv
<1>7. /\ before \in Seq(KnownActor) /\ Len(before) = Len(actors)
      /\ Victims \subseteq Id /\ \A a \in Victims : Ends(before[a]) \cap Id \subseteq Victims
      /\ \A a \in Id : /\ before[a] \in KnownActor /\ before[a].mailbox \in Seq(Message)
                       /\ before[a].children \in Seq(AnyId) /\ before[a].parent \in AnyId
  BY InKill
<1>8. Victims' = Victims
  <2>1. 1 \in 1 .. n
    BY <1>2
  <2>2. QED
    BY <1>5, <2>1 DEF Victims
<1>9. Marked(F)' = Marked(F) \cup {id}
  <2>1. \A k \in 1 .. n + 1 : k \in 1 .. n \/ k = n + 1
    BY <1>2
  <2>2. n + 1 \in 1 .. n + 1 /\ \A k \in 1 .. n : k \in 1 .. n + 1
    BY <1>2
  <2> DEFINE was == {calls[k].id : k \in 1 .. n}
             is == {calls'[k].id : k \in 1 .. n + 1}
  <2>3. ASSUME NEW k \in 1 .. n + 1 PROVE calls'[k].id \in was \cup {id}
    <3>1. CASE k \in 1 .. n
      <4>1. calls'[k].id = calls[k].id
        BY <1>5, <3>1
      <4>2. calls[k].id \in was
        BY <3>1
      <4>3. QED
        BY <4>1, <4>2
    <3>2. CASE k = n + 1
      BY <1>5, <3>2
    <3>3. QED
      BY <2>1, <3>1, <3>2
  <2>4. ASSUME NEW k \in 1 .. n PROVE calls[k].id \in is
    <3>1. calls'[k].id = calls[k].id /\ k \in 1 .. n + 1
      BY <1>5, <2>2
    <3>2. calls'[k].id \in is
      BY <3>1
    <3>3. QED
      BY <3>1, <3>2
  <2>5. id \in is
    <3>1. calls'[n + 1].id \in is
      BY <2>2
    <3>2. QED
      BY <1>5, <3>1
  <2>6. is = was \cup {id}
    BY <2>3, <2>4, <2>5
  <2>7. QED
    BY <1>4, <2>6 DEF Marked, n
<1>10. id \in Victims
  <2>1. n \in 1 .. n /\ Visits(calls[n], Called(n), F)
    BY <1>2, <1>6 DEF Killing, Walk, n
  <2>2. id \in Ends(before[calls[n].id])
    BY <1>5, <2>1 DEF Visits
  <2>3. calls[n].id \in Victims
    BY <1>6, <2>1 DEF Killing, Marked, n
  <2>4. QED
    BY <1>7, <2>2, <2>3
<1>11. /\ actors[id].parent = before[id].parent
       /\ actors[id].death_strategy = before[id].death_strategy
       /\ actors[id].children = Kept(before[id].children, Linked(id, F))
  BY <1>6 DEF Killing, Edited
<1>12. Len(actors') = Len(actors)
       /\ \A a \in Id :
              /\ actors'[a].parent = actors[a].parent
              /\ actors'[a].death_strategy = actors[a].death_strategy
              /\ actors'[a].children = actors[a].children
              /\ actors'[a].alive = IF a = id THEN actors[a].death_strategy = "Restart"
                                              ELSE actors[a].alive
              /\ a # id =>
                    actors'[a].mailbox =
                        IF /\ actors[id].death_strategy = "Escalate"
                           /\ actors[id].parent = a /\ actors[a].alive
                        THEN Append(actors[a].mailbox, Died(id)) ELSE actors[a].mailbox
  BY <1>1, MarkEffect
<1>13. Walk(F)'
  <2> SUFFICES ASSUME NEW k \in 1 .. n + 1 PROVE Visits(calls[k], Called(k), F)'
    BY <1>4 DEF Walk
  <2>1. k \in 1 .. n - 1 \/ k = n \/ k = n + 1
    BY <1>2
  <2>2. CASE k \in 1 .. n - 1
    <3>1. k \in 1 .. n /\ k + 1 \in 1 .. n /\ k < n /\ k < n + 1
      BY <1>2, <2>2
    <3>2. Called(k)' = Called(k)
      BY <1>4, <1>5, <3>1 DEF Called, n
    <3>3. Visits(calls[k], Called(k), F)
      BY <1>6, <3>1 DEF Killing, Walk, n
    <3>4. QED
      BY <1>4, <1>5, <2>2, <3>1, <3>2, <3>3 DEF Visits
  <2>3. CASE k = n
    <3>1. n \in 1 .. n /\ n < n + 1 /\ ~ (n < n)
      BY <1>2
    <3>2. Called(k)' = {id} /\ Called(k) = {}
      BY <1>4, <1>5, <2>3, <3>1 DEF Called, n
    <3>3. Visits(calls[k], Called(k), F)
      BY <1>6, <2>3, <3>1 DEF Killing, Walk, n
    <3>4. QED
      BY <1>4, <1>5, <2>3, <3>1, <3>2, <3>3 DEF Visits
  <2>4. CASE k = n + 1
    <3>1. Called(k)' = {}
      BY <1>2, <1>4, <2>4 DEF Called
    <3>2. actors[id] \in KnownActor
      BY <1>1, ActorAt
    <3>3. Range(ToKill(actors[id])) = Ends(actors[id])
      BY <3>2, ToKillRange
    <3>4. Range(actors[id].children) = Range(before[id].children) \cap Linked(id, F)
      BY <1>7, <1>11, KeptRange
    <3>5. Ends(actors[id]) = Ends(before[id]) \cap Linked(id, F)
      BY <1>7, <1>11, <3>2, <3>4, EndsRange
    <3>6. Ends(before[id]) \subseteq AnyId
      BY <1>7, EndsRange DEF Range
    <3>7. Ends(before[id]) \subseteq F \cup Linked(id, F)
      BY <3>6 DEF Linked
    <3>8. QED
      BY <1>4, <1>5, <1>11, <2>4, <3>1, <3>3, <3>5, <3>7 DEF Visits
  <2>5. QED
    BY <2>1, <2>2, <2>3, <2>4
<1>14. Finished(F)'
  BY <1>4, <1>6 DEF Killing, Finished
<1>15. Edited(actors, F, Marked(F))'
  <2> SUFFICES ASSUME NEW a \in Id
               PROVE  /\ actors'[a].parent = before[a].parent
                      /\ actors'[a].death_strategy = before[a].death_strategy
                      /\ actors'[a].alive = IF a \in Marked(F) \cup {id}
                                            THEN before[a].death_strategy = "Restart"
                                            ELSE before[a].alive
                      /\ actors'[a].children = Kept(before[a].children, Linked(a, F))
    <3>1. \A a \in Id : Linked(a, F)' = Linked(a, F)
      BY DEF Linked
    <3>2. QED
      BY <1>4, <1>9, <3>1 DEF Edited
  <2>1. /\ actors[a].parent = before[a].parent
        /\ actors[a].death_strategy = before[a].death_strategy
        /\ actors[a].alive = IF a \in Marked(F) THEN before[a].death_strategy = "Restart"
                                                ELSE before[a].alive
        /\ actors[a].children = Kept(before[a].children, Linked(a, F))
    BY <1>6 DEF Killing, Edited
  <2>2. QED
    BY <1>12, <2>1
<1>16. Told(actors, Marked(F))'
  <2> SUFFICES ASSUME NEW p \in Id \ Victims
               PROVE  Notified(before, p, Marked(F) \cup {id}, actors'[p].mailbox)
    BY <1>4, <1>8, <1>9 DEF Told
  <2>1. p # id /\ p \notin Marked(F)
    BY <1>6, <1>10 DEF Killing
  <2>2. actors[p].alive = before[p].alive /\ Notified(before, p, Marked(F), actors[p].mailbox)
    BY <1>6, <2>1 DEF Killing, Edited, Told
  <2>3. actors'[p].mailbox = IF /\ before[id].death_strategy = "Escalate"
                                /\ before[id].parent = p /\ before[p].alive
                             THEN Append(actors[p].mailbox, Died(id)) ELSE actors[p].mailbox
    BY <1>11, <1>12, <2>1, <2>2
  <2>4. actors[p].mailbox \in Seq(Message) /\ before[p].mailbox \in Seq(Message)
        /\ Died(id) \in Message
    BY <1>1, <1>7, ActorAt DEF KnownActor, Message
  <2>5. QED
    BY <2>2, <2>3, <2>4, NotifiedMore
<1>17. Killing(F)'
  BY <1>6, <1>8, <1>9, <1>10, <1>13, <1>14, <1>15, <1>16 DEF Killing
<1>18. KillInv'
  BY <1>4, <1>7, <1>12, <1>17 DEF KillInv
<1>19. QED
  BY <1>3, <1>4, <1>18 DEF ActorInv, ActorTypes

\* An activation returns: its actor is finished and off its parent's list.
LEMMA FinishEffect ==
    ASSUME ActorInv, Finish, NEW F \in SUBSET Id, Killing(F),
           NEW G, G = F \cup {Current.id}
    PROVE  /\ Table(actors, Made)' /\ Len(actors') = Len(actors)
           /\ G \in SUBSET Id /\ Finished(G)
           /\ Edited(actors', G, Marked(F)) /\ Told(actors', Marked(F))
           /\ Marked(F) = G \cup {calls[k].id : k \in 1 .. Len(calls) - 1}
<1> DEFINE n == Len(calls)
           id == Current.id
           p == Current.parent
<1>1. /\ calls \in Seq(Activations) /\ calls # <<>> /\ Current.todo = <<>>
      /\ Table(actors, Made) /\ n \in Nat \ {0} /\ n \in 1 .. n /\ Current = calls[n]
  BY DEF ActorInv, ActorTypes, CallTypes, Finish, Current
<1>2. id \in Id
  <2>1. calls[n] \in Activations
    BY <1>1
  <2>2. QED
    BY <1>1, <2>1 DEF Activations
<1>3. /\ Len(before) = Len(actors)
      /\ \A a \in Id : before[a].children \in Seq(AnyId) /\ before[a].parent \in AnyId
  BY <1>1, InKill
<1>4. p = before[id].parent /\ Ends(before[id]) \cap Id \subseteq F
  <2>1. Visits(calls[n], Called(n), F) /\ Called(n) = {}
    <3>1. n \in 1 .. Len(calls) /\ ~ (n < n)
      BY <1>1
    <3> HIDE DEF n
    <3>2. \A k \in 1 .. Len(calls) : Visits(calls[k], Called(k), F)
      BY DEF Killing, Walk
    <3>3. Visits(calls[n], Called(n), F)
      BY <3>1, <3>2
    <3>4. Called(n) = {}
      BY <3>1 DEF Called, n
    <3>5. QED
      BY <3>3, <3>4
  <2>2. Range(<<>>) = {}
    <3>1. DOMAIN <<>> = {}
      OBVIOUS
    <3>2. QED
      BY <3>1 DEF Range
  <2>3. QED
    BY <1>1, <2>1, <2>2 DEF Visits
<1>5. G \in SUBSET Id
  BY <1>2
<1>6. Finished(G)
  <2>1. \A a \in G : Ends(before[a]) \cap Id \subseteq G
    BY <1>4 DEF Killing, Finished
  <2>2. ASSUME NEW C \in (SUBSET G) \ {{}} PROVE \E a \in C : Ends(before[a]) \cap C = {}
    <3>1. CASE C \cap F = {}
      <4>1. C = {id} /\ id \notin F
        BY <3>1
      <4>2. Ends(before[id]) \cap C = {}
        BY <1>2, <1>4, <4>1
      <4>3. QED
        BY <4>1, <4>2
    <3>2. CASE C \cap F # {}
      <4>1. C \cap F \in (SUBSET F) \ {{}}
        BY <3>2
      <4>2. PICK a \in C \cap F : Ends(before[a]) \cap (C \cap F) = {}
        BY <4>1 DEF Killing, Finished
      <4>3. Ends(before[a]) \cap Id \subseteq F /\ C \subseteq Id
        BY <1>5, <4>2 DEF Killing, Finished
      <4>4. Ends(before[a]) \cap C = {}
        BY <4>2, <4>3
      <4>5. QED
        BY <4>2, <4>4
    <3>3. QED
      BY <3>1, <3>2
  <2>3. QED
    BY <1>5, <2>1, <2>2 DEF Finished
<1>7. Marked(F) = G \cup {calls[k].id : k \in 1 .. n - 1}
  <2> DEFINE was == {calls[k].id : k \in 1 .. n}
             is == {calls[k].id : k \in 1 .. n - 1}
  <2>1. \A k \in 1 .. n : k \in 1 .. n - 1 \/ k = n
    BY <1>1
  <2>2. \A k \in 1 .. n - 1 : k \in 1 .. n
    BY <1>1
  <2>3. ASSUME NEW k \in 1 .. n PROVE calls[k].id \in is \cup {id}
    <3>1. CASE k \in 1 .. n - 1
      <4>1. calls[k].id \in is
        BY <3>1
      <4>2. QED
        BY <4>1
    <3>2. CASE k = n
      BY <1>1, <3>2
    <3>3. QED
      BY <2>1, <3>1, <3>2
  <2>4. ASSUME NEW k \in 1 .. n - 1 PROVE calls[k].id \in was
    BY <2>2
  <2>5. id \in was
    BY <1>1
  <2>6. was = is \cup {id}
    BY <2>3, <2>4, <2>5
  <2>7. QED
    BY <2>6 DEF Marked
<1>8. ASSUME NEW a \in Id
      PROVE  /\ actors[a].parent = before[a].parent
             /\ actors[a].death_strategy = before[a].death_strategy
             /\ actors[a].alive = IF a \in Marked(F) THEN before[a].death_strategy = "Restart"
                                                     ELSE before[a].alive
             /\ actors[a].children = Kept(before[a].children, Linked(a, F))
  BY DEF Killing, Edited
<1>9. Linked(p, G) = Linked(p, F) \cap (AnyId \ {id})
  BY <1>4 DEF Linked
<1>10. \A a \in Id : a # p => Linked(a, G) = Linked(a, F)
  BY <1>4 DEF Linked
<1>11. Made' = Made
  BY DEF Finish, requests, Made
<1> HIDE DEF n, id, p
<1>12. CASE p \notin Id
  <2>1. actors' = actors
    BY <1>12 DEF Finish, p
  <2>2. Edited(actors, G, Marked(F))
    <3>1. \A a \in Id : a # p
      BY <1>12
    <3>2. QED
      BY <1>8, <1>10, <3>1 DEF Edited
  <2>3. QED
    BY <1>1, <1>5, <1>6, <1>7, <1>11, <2>1, <2>2 DEF Killing, n
<1>13. CASE p \in Id
  <2> DEFINE list == Without(actors[p].children, id)
             new == [actors[p] EXCEPT !.children = list]
  <2>1. /\ actors[p] \in KnownActor /\ Proper(actors[p], Made) /\ DOMAIN actors = Id
        /\ actors[p].children \in Seq(AnyId)
    BY <1>1, <1>13, ActorAt DEF KnownActor
  <2>2. list \in Seq(AnyId) /\ IsInjective(list)
    BY <2>1, KeptRange, KeptInjective DEF Without, Proper
  <2>3. list = Kept(before[p].children, Linked(p, G))
    <3>1. list = Kept(Kept(before[p].children, Linked(p, F)), AnyId \ {id})
      BY <1>8, <1>13 DEF Without
    <3>2. before[p].children \in Seq(AnyId)
      BY <1>3, <1>13
    <3>3. Kept(Kept(before[p].children, Linked(p, F)), AnyId \ {id}) =
              Kept(before[p].children, Linked(p, F) \cap (AnyId \ {id}))
      BY <3>2, KeptTwice
    <3>4. QED
      BY <1>9, <3>1, <3>3
  <2> HIDE DEF list
  <2>4. /\ new \in KnownActor /\ new.children = list /\ new.mailbox = actors[p].mailbox
        /\ new.parent = actors[p].parent /\ new.death_strategy = actors[p].death_strategy
        /\ new.alive = actors[p].alive
    BY <2>1, <2>2 DEF KnownActor
  <2>5. actors' = [actors EXCEPT ![p] = new]
    BY <1>13 DEF Finish, p, id, list
  <2> HIDE DEF new
  <2>6. Proper(new, Made)
    BY <2>1, <2>2, <2>4 DEF Proper
  <2>7. Table(actors, Made)'
    BY <1>1, <1>11, <1>13, <2>4, <2>5, <2>6, OneActor
  <2>8. /\ Len(actors') = Len(actors) /\ actors'[p] = new
        /\ \A a \in Id : a # p => actors'[a] = actors[a]
    BY <1>1, <1>13, <2>1, <2>4, <2>5 DEF Table, Id
  <2>9. Edited(actors', G, Marked(F))
    <3> SUFFICES ASSUME NEW a \in Id
                 PROVE  /\ actors'[a].parent = before[a].parent
                        /\ actors'[a].death_strategy = before[a].death_strategy
                        /\ actors'[a].alive = IF a \in Marked(F)
                                              THEN before[a].death_strategy = "Restart"
                                              ELSE before[a].alive
                        /\ actors'[a].children = Kept(before[a].children, Linked(a, G))
      BY DEF Edited
    <3>1. CASE a = p
      BY <1>8, <2>3, <2>4, <2>8, <3>1
    <3>2. CASE a # p
      BY <1>8, <1>10, <2>8, <3>2
    <3>3. QED
      BY <3>1, <3>2
  <2>10. Told(actors', Marked(F))
    <3>1. \A a \in Id : actors'[a].mailbox = actors[a].mailbox
      BY <2>4, <2>8
    <3>2. QED
      BY <3>1 DEF Killing, Told
  <2>11. QED
    BY <1>5, <1>6, <1>7, <2>7, <2>8, <2>9, <2>10 DEF n
<1>14. QED
  BY <1>12, <1>13

LEMMA FinishStep == ASSUME ActorInv, Finish PROVE ActorInv'
<1> DEFINE n == Len(calls)
<1>1. /\ calls # <<>> /\ RequestTypes /\ caller = "run" /\ caller' = "run"
      /\ calls \in Seq(Activations) /\ n \in Nat \ {0} /\ n <= StackDepth
      /\ Current = calls[n]
  BY InKill DEF ActorInv, ActorTypes, CallTypes, Finish, Current
<1>2. PICK F \in SUBSET Id : Killing(F)
  BY <1>1 DEF ActorInv, KillInv
<1>3. PICK G : G = F \cup {Current.id}
  OBVIOUS
<1>4. /\ Table(actors, Made)' /\ Len(actors') = Len(actors)
      /\ G \in SUBSET Id /\ Finished(G)
      /\ Edited(actors', G, Marked(F)) /\ Told(actors', Marked(F))
      /\ Marked(F) = G \cup {calls[k].id : k \in 1 .. n - 1}
  BY <1>2, <1>3, FinishEffect
<1>5. RequestTypes'
  BY <1>1 DEF Finish, requests, RequestTypes, Made
<1>6. CASE n = 1
  <2>1. calls' = <<>>
    BY <1>1, <1>6 DEF Finish
  <2>2. CallTypes' /\ KillInv'
    BY <1>1, <2>1, NoKill
  <2>3. QED
    BY <1>4, <1>5, <2>2 DEF ActorInv, ActorTypes
<1>7. CASE n # 1
  <2> DEFINE m == n - 1
  <2>1. m \in Nat \ {0} /\ m + 1 = n
    BY <1>1, <1>7
  <2>2. calls' = SubSeq(calls, 1, m) /\ before' = before
    BY <1>7 DEF Finish
  <2>3. /\ calls' \in Seq(Activations) /\ Len(calls') = m
        /\ \A k \in 1 .. m : calls'[k] = calls[k]
    BY <1>1, <2>1, <2>2
  <2> HIDE DEF n, m
  <2>4. Id' = Id /\ Activations' = Activations
    BY <1>4 DEF Id, Activations
  <2>5. CallTypes'
    <3>1. m <= StackDepth
      BY <1>1, <2>1, ActorAssumption DEF ActorAssumption
    <3>2. QED
      BY <1>1, <2>3, <2>4, <3>1 DEF CallTypes
  <2>6. Marked(G)' = Marked(F)
    <3>1. {calls'[k].id : k \in 1 .. m} = {calls[k].id : k \in 1 .. m}
      BY <2>3
    <3>2. Marked(F) = G \cup {calls[k].id : k \in 1 .. m}
      BY <1>4 DEF m
    <3>3. QED
      BY <2>3, <3>1, <3>2 DEF Marked
  <2>7. Victims' = Victims
    <3>1. 1 \in 1 .. m
      BY <2>1
    <3>2. QED
      BY <2>2, <2>3, <3>1 DEF Victims
  <2>8. Walk(G)'
    <3> SUFFICES ASSUME NEW k \in 1 .. m PROVE Visits(calls[k], Called(k), G)'
      BY <2>3 DEF Walk
    <3>1. k \in 1 .. n /\ k < n /\ (k < m \/ k = m)
      BY <2>1
    <3>2. Visits(calls[k], Called(k), F) /\ F \subseteq G
      BY <1>2, <1>3, <3>1 DEF Killing, Walk, n
    <3>3. CASE k < m
      <4>1. k + 1 \in 1 .. m
        BY <2>1, <3>3
      <4>2. Called(k)' = Called(k)
        BY <2>3, <3>1, <3>3, <4>1 DEF Called, n
      <4>3. QED
        BY <2>2, <2>3, <2>4, <3>2, <4>2 DEF Visits
    <3>4. CASE k = m
      <4>1. Called(k)' = {}
        BY <2>1, <2>3, <3>4 DEF Called
      <4>2. Called(k) = {Current.id}
        BY <1>1, <2>1, <3>1, <3>4 DEF Called, n
      <4>3. QED
        BY <1>3, <2>2, <2>3, <2>4, <3>2, <4>1, <4>2 DEF Visits
    <3>5. QED
      BY <3>1, <3>3, <3>4
  <2>9. Finished(G)'
    BY <1>4, <2>2, <2>4 DEF Finished
  <2>10. Edited(actors, G, Marked(G))'
    <3>1. \A a \in Id : Linked(a, G)' = Linked(a, G)
      BY <2>2 DEF Linked
    <3>2. QED
      BY <1>4, <2>2, <2>4, <2>6, <3>1 DEF Edited
  <2>11. Told(actors, Marked(G))'
    BY <1>4, <2>2, <2>4, <2>6, <2>7 DEF Told
  <2>12. Killing(G)'
    BY <1>2, <2>6, <2>7, <2>8, <2>9, <2>10, <2>11 DEF Killing
  <2>13. KillInv'
    <3>1. before \in Seq(KnownActor) /\ Len(before) = Len(actors)
      BY <1>1 DEF ActorInv, KillInv
    <3>2. QED
      BY <1>4, <2>2, <2>4, <2>12, <3>1 DEF KillInv
  <2>14. QED
    BY <1>4, <1>5, <2>5, <2>13 DEF ActorInv, ActorTypes
<1>8. QED
  BY <1>6, <1>7

-----------------------------------------------------------------------------
LEMMA DescendStep == ASSUME ActorInv, Descend PROVE ActorInv'
<1> DEFINE id == Head(Current.todo)
<1>1. /\ calls # <<>> /\ Current.todo # <<>>
      /\ UNCHANGED <<requests, operations, before>>
      /\ IF id \in Id THEN Enter(id, Rest) ELSE calls' = Rest /\ UNCHANGED <<actors, caller>>
  BY DEF Descend, Rest
<1> HIDE DEF id
<1>2. CASE id \notin Id
  BY <1>1, <1>2, PassOver DEF id
<1>3. CASE id \in Id /\ Len(Rest) < StackDepth
  <2>1. Mark(id) /\ calls' = Append(Rest, Activation(id)) /\ caller' = caller
    BY <1>1, <1>3 DEF Enter
  <2>2. PICK c : c = id
    OBVIOUS
  <2>3. QED
    BY <1>1, <1>3, <2>1, <2>2, Visit DEF id
<1>4. CASE id \in Id /\ ~ (Len(Rest) < StackDepth)
  <2>1. caller' = "overflow" /\ calls' = <<>> /\ actors' = actors
    BY <1>1, <1>4 DEF Enter
  <2>2. CallTypes' /\ KillInv'
    BY <2>1, NoKill
  <2>3. Table(actors, Made)' /\ RequestTypes'
    BY <1>1, <2>1 DEF ActorInv, ActorTypes, RequestTypes, requests, Made
  <2>4. QED
    BY <2>2, <2>3 DEF ActorInv, ActorTypes
<1>5. QED
  BY <1>2, <1>3, <1>4

LEMMA NothingHappens == ASSUME ActorInv, UNCHANGED vars PROVE ActorInv'
<1>1. Made' = Made /\ Id' = Id /\ Activations' = Activations /\ Victims' = Victims
  BY DEF vars, Made, Id, Activations, Victims
<1>2. ActorTypes'
  BY <1>1 DEF vars, ActorInv, ActorTypes, RequestTypes, CallTypes
<1>3. ASSUME NEW F \in SUBSET Id, Killing(F) PROVE Killing(F)'
  <2>1. Marked(F)' = Marked(F) /\ \A a : Linked(a, F)' = Linked(a, F)
    BY DEF vars, Marked, Linked
  <2>2. Finished(F)'
    BY <1>1, <1>3 DEF vars, Killing, Finished
  <2>3. Edited(actors, F, Marked(F))'
    BY <1>1, <1>3, <2>1 DEF vars, Killing, Edited
  <2>4. Told(actors, Marked(F))'
    BY <1>1, <1>3, <2>1 DEF vars, Killing, Told
  <2>5. Walk(F)'
    <3>1. \A k : Called(k)' = Called(k)
      BY DEF vars, Called
    <3>2. QED
      BY <1>1, <1>3, <3>1 DEF vars, Killing, Walk, Visits
  <2>6. QED
    BY <1>1, <1>3, <2>1, <2>2, <2>3, <2>4, <2>5 DEF Killing
<1>4. KillInv'
  BY <1>1, <1>3 DEF vars, ActorInv, KillInv
<1>5. QED
  BY <1>2, <1>4 DEF ActorInv

LEMMA InvStep == ASSUME ActorInv, [Next]_vars PROVE ActorInv'
<1>1. CASE Spawn
  BY <1>1, SpawnStep
<1>2. ASSUME NEW id \in Id, NEW strategy \in Strategy, SetStrategy(id, strategy)
      PROVE  ActorInv'
  BY <1>2, SetStrategyStep
<1>3. ASSUME NEW parent \in AnyId, NEW child \in AnyId, Supervise(parent, child)
      PROVE  ActorInv'
  BY <1>3, SuperviseStep
<1>4. ASSUME NEW id \in Id, Send(id) \/ Recv(id) \/ TryAsk(id) \/ Kill(id)
      PROVE  ActorInv'
  BY <1>4, SendStep, RecvStep, TryAskStep, KillStep
<1>5. ASSUME NEW n \in known, Reply(n) PROVE ActorInv'
  BY <1>5, ReplyStep
<1>6. CASE Notify
  BY <1>6, NotifyStep
<1>7. CASE Descend
  BY <1>7, DescendStep
<1>8. CASE Finish
  BY <1>8, FinishStep
<1>9. CASE UNCHANGED vars
  BY <1>9, NothingHappens
<1>10. QED
  BY <1>1, <1>2, <1>3, <1>4, <1>5, <1>6, <1>7, <1>8, <1>9 DEF Next

LEMMA InvAlways == Spec => []ActorInv
<1>1. Init => ActorInv
  BY InvInit
<1>2. ActorInv /\ [Next]_vars => ActorInv'
  BY InvStep
<1>3. QED
  BY <1>1, <1>2, PTL DEF Spec

-----------------------------------------------------------------------------
\* Only the return of the activation for the actor killed ends a kill, and it
\* has finished with the whole tree then.
LEMMA Returned ==
    ASSUME ActorInv, [Next]_vars, Over
    PROVE  /\ Finished(Victims) /\ Edited(actors', Victims, Victims)
           /\ Told(actors', Victims)
           /\ \A a \in Id : actors'[a].mailbox \in Seq(Message)
<1>1. /\ calls # <<>> /\ Len(calls) = 1 /\ calls' = <<>> /\ caller = "run" /\ caller' = "run"
  <2>1. calls # <<>>
    BY DEF Over
  <2>2. QED
    BY <2>1, InKill DEF Over
<1>2. ~Descend
  <2> SUFFICES ASSUME Descend PROVE FALSE
    OBVIOUS
  <2>1. calls \in Seq(Activations) /\ Current.todo # <<>>
    BY DEF ActorInv, ActorTypes, CallTypes, Descend
  <2>2. Rest \in Seq(Activations) /\ Len(Rest) = 1
    BY <1>1, <2>1, RestTypes
  <2>3. ASSUME NEW c PROVE Append(Rest, c) # <<>>
    BY <2>2
  <2>4. Rest # <<>>
    BY <2>2
  <2>5. CASE Head(Current.todo) \in Id
    BY <1>1, <2>3, <2>5 DEF Descend, Rest, Enter
  <2>6. CASE Head(Current.todo) \notin Id
    BY <1>1, <2>4, <2>6 DEF Descend, Rest
  <2>7. QED
    BY <2>5, <2>6
<1>3. Finish
  <2>1. ~Idle /\ ~Notify /\ ~UNCHANGED vars
    BY <1>1 DEF Idle, Notify, vars
  <2>2. QED
    BY <1>2, <2>1 DEF Next, Spawn, SetStrategy, Supervise, Send, Recv, TryAsk, Kill, Reply
<1>4. PICK F \in SUBSET Id : Killing(F)
  BY <1>1 DEF ActorInv, KillInv
<1>5. PICK G : G = F \cup {Current.id}
  OBVIOUS
<1>6. Current = calls[1] /\ calls[1].id \in Id /\ Id = 1 .. Len(before)
  BY <1>1, InKill DEF Current, Id
<1>7. /\ G \in SUBSET Id /\ Finished(G) /\ Edited(actors', G, Marked(F))
      /\ Told(actors', Marked(F))
      /\ Marked(F) = G \cup {calls[k].id : k \in 1 .. Len(calls) - 1}
  BY <1>3, <1>4, <1>5, FinishEffect
<1>8. Marked(F) = G
  <2>1. 1 .. Len(calls) - 1 = {}
    BY <1>1
  <2>2. QED
    BY <1>7, <2>1
<1>9. G \subseteq Victims
  BY <1>4, <1>8 DEF Killing
<1>10. Victims \subseteq G
  <2>1. calls[1].id \in G /\ \A a \in G : Ends(before[a]) \cap 1 .. Len(before) \subseteq G
    BY <1>5, <1>6, <1>7 DEF Finished
  <2>2. G \in SUBSET (1 .. Len(before)) /\ calls[1].id \in 1 .. Len(before)
    BY <1>6, <1>7
  <2>3. QED
    BY <2>1, <2>2, DoomedTree DEF Victims
<1>11. G = Victims
  BY <1>9, <1>10
<1>12. ASSUME NEW a \in Id PROVE actors'[a].mailbox \in Seq(Message)
  <2>1. actors' \in Seq(KnownActor) /\ a \in 1 .. Len(actors')
    BY <1>3, <1>4, <1>5, FinishEffect DEF Table, Id
  <2>2. actors'[a] \in KnownActor
    BY <2>1
  <2>3. QED
    BY <2>2 DEF KnownActor
<1>13. QED
  BY <1>7, <1>8, <1>11, <1>12

\* The mailboxes, the children and the requests have their types throughout,
\* no actor lists a child twice, and the activations fit on the stack.
THEOREM TypeCorrect == Spec => []TypeOK
<1>1. ActorInv => TypeOK
  <2> SUFFICES ASSUME ActorInv PROVE TypeOK
    OBVIOUS
  <2>1. Table(actors, Made) /\ RequestTypes /\ CallTypes
    BY DEF ActorInv, ActorTypes
  <2>2. ASSUME NEW id \in Id
        PROVE  /\ actors[id].mailbox \in Seq(Message)
               /\ actors[id].alive \in BOOLEAN
               /\ actors[id].parent \in AnyId
               /\ actors[id].children \in Seq(AnyId) /\ IsInjective(actors[id].children)
               /\ actors[id].death_strategy \in Strategy
    BY <2>1, ActorAt DEF KnownActor, Proper
  <2>3. ASSUME NEW i \in 1 .. Len(calls) PROVE calls[i].id \in Id
    <3>1. calls[i] \in Activations
      BY <2>1 DEF CallTypes
    <3>2. QED
      BY <3>1 DEF Activations
  <2>4. next_request_id \in 1 .. MaxOperations + 1 /\ Made \subseteq 1 .. MaxOperations
    BY <2>1, ActorAssumption DEF ActorAssumption, RequestTypes, Made
  <2>5. response_queue \in Seq(1 .. MaxOperations)
    <3>1. response_queue \in Seq(Made)
      BY <2>1 DEF RequestTypes
    <3> HIDE DEF Made
    <3>2. QED
      BY <2>4, <3>1, SeqMonotonic
  <2>6. QED
    BY <2>1, <2>2, <2>3, <2>4, <2>5 DEF TypeOK, Table, RequestTypes, CallTypes
<1>2. QED
  BY <1>1, InvAlways, PTL

\* Whatever circles supervision runs in, and however often the recursion
\* meets an actor: when kill_with_reason returns, exactly the tree of the
\* actor killed has died, and is out of its parents' children.
THEOREM TreeEnds == Spec => KillEndsTree
<1>1. ASSUME ActorInv, [Next]_vars
      PROVE  [Over => \A a \in Id :
         /\ actors'[a].alive = IF a \in Victims THEN before[a].death_strategy = "Restart"
                                                ELSE before[a].alive
         /\ actors'[a].children = Kept(before[a].children,
                {c \in AnyId : ~(c \in Victims /\ before[c].parent = a)})]_vars
  BY <1>1, Returned DEF Edited, Linked
<1>2. QED
  BY <1>1, InvAlways, PTL DEF Spec, KillEndsTree

\* A parent that survives has kept its mail, and has been told of the death
\* of each child that escalates, and of no other.
THEOREM ParentsTold == Spec => KillTellsParents
<1>1. ASSUME ActorInv, [Next]_vars
      PROVE  [Over => \A p \in Id \ Victims :
         LET old == before[p].mailbox
             new == actors'[p].mailbox
             notices == {new[i] : i \in Len(old) + 1 .. Len(new)}
         IN  /\ SubSeq(new, 1, Len(old)) = old
             /\ notices = {Died(c) : c \in {c \in Victims :
                               /\ before[c].parent = p
                               /\ before[c].death_strategy = "Escalate"
                               /\ before[p].alive}}]_vars
  <2> SUFFICES ASSUME Over, NEW p \in Id \ Victims
               PROVE  LET old == before[p].mailbox
                          new == actors'[p].mailbox
                          notices == {new[i] : i \in Len(old) + 1 .. Len(new)}
                      IN  /\ SubSeq(new, 1, Len(old)) = old
                          /\ notices = {Died(c) : c \in {c \in Victims :
                                            /\ before[c].parent = p
                                            /\ before[c].death_strategy = "Escalate"
                                            /\ before[p].alive}}
    OBVIOUS
  <2> DEFINE old == before[p].mailbox
             new == actors'[p].mailbox
  <2>1. Notified(before, p, Victims, new) /\ new \in Seq(Message)
    BY <1>1, Returned DEF Told
  <2>2. old \in Seq(Message)
    <3>1. calls # <<>>
      BY DEF Over
    <3>2. QED
      BY <1>1, <3>1, InKill
  <2>3. Len(old) <= Len(new) /\ \A i \in 1 .. Len(old) : new[i] = old[i]
    BY <2>1, Zenon DEF Notified
  <2>4. SubSeq(new, 1, Len(old)) = old
    <3> HIDE DEF new, old
    <3>1. /\ SubSeq(new, 1, Len(old)) \in Seq(Message)
          /\ Len(SubSeq(new, 1, Len(old))) = Len(old)
          /\ \A i \in 1 .. Len(old) : SubSeq(new, 1, Len(old))[i] = new[i]
      BY <2>1, <2>2, <2>3
    <3>2. QED
      BY <2>2, <2>3, <3>1, SeqEqual
  <2>5. {new[i] : i \in Len(old) + 1 .. Len(new)} =
            {Died(c) : c \in {c \in Victims : /\ before[c].parent = p
                                              /\ before[c].death_strategy = "Escalate"
                                              /\ before[p].alive}}
    BY <2>1, Zenon DEF Notified
  <2>6. QED
    BY <2>4, <2>5
<1>2. QED
  BY <1>1, InvAlways, PTL DEF Spec, KillTellsParents

LEMMA Interval ==
    ASSUME NEW l \in Nat PROVE IsFiniteSet(1 .. l) /\ Cardinality(1 .. l) = l
<1>1. 1 \in Int /\ l \in Int
  OBVIOUS
<1>2. IsFiniteSet(1 .. l) /\ Cardinality(1 .. l) = IF 1 > l THEN 0 ELSE l - 1 + 1
  BY <1>1, FS_Interval
<1>3. (IF 1 > l THEN 0 ELSE l - 1 + 1) = l
  OBVIOUS
<1>4. QED
  BY <1>2, <1>3

\* As many activations as actors, and a child to visit: some actor is met
\* twice, and ends itself by way of those between.
LEMMA FullStack ==
    ASSUME ActorInv, calls # <<>>, Current.todo # <<>>, Head(Current.todo) \in Id,
           ~ (Len(calls) < StackDepth)
    PROVE  Circular(before, calls[1].id)
<1> DEFINE n == Len(calls)
           head == Head(Current.todo)
<1>1. /\ calls \in Seq(Activations) /\ n \in Nat \ {0} /\ Current = calls[n]
      /\ Len(actors) \in Nat /\ Len(actors) <= n
  <2>1. calls \in Seq(Activations) /\ Table(actors, Made)
    BY DEF ActorInv, ActorTypes, CallTypes
  <2>2. Len(actors) \in Nat /\ Len(actors) <= MaxActors
    BY <2>1 DEF Table
  <2>3. n \in Nat \ {0} /\ ~ (n < StackDepth)
    BY <2>1
  <2>4. Len(actors) <= n
    BY <2>2, <2>3, ActorAssumption DEF ActorAssumption
  <2>5. QED
    BY <2>1, <2>2, <2>3, <2>4 DEF Current
<1> DEFINE walk == [k \in 1 .. n + 1 |-> IF k = n + 1 THEN head ELSE calls[k].id]
<1>2. \A k \in 1 .. n : calls[k].id \in Id
  <2>1. \A k \in 1 .. n : calls[k] \in Activations
    BY <1>1
  <2>2. QED
    BY <2>1 DEF Activations
<1>3. PICK F \in SUBSET Id : Killing(F)
  BY DEF ActorInv, KillInv
<1>4. ASSUME NEW k \in 1 .. n
      PROVE  walk[k] \in Victims /\ walk[k + 1] \in Ends(before[walk[k]])
  <2>1. walk[k] = calls[k].id /\ k + 1 \in 1 .. n + 1
    BY <1>1
  <2>2. Visits(calls[k], Called(k), F)
    BY <1>3 DEF Killing, Walk
  <2>3. walk[k] \in Victims
    BY <1>3, <2>1 DEF Killing, Marked
  <2>4. CASE k < n
    <3>1. walk[k + 1] = calls[k + 1].id
      BY <1>1, <2>1, <2>4
    <3>2. walk[k + 1] \in Called(k)
      BY <2>4, <3>1 DEF Called
    <3>3. QED
      BY <2>1, <2>2, <2>3, <3>2 DEF Visits
  <2>5. CASE k = n
    <3>1. walk[k + 1] = head
      BY <1>1, <2>1, <2>5
    <3>2. head \in Range(calls[n].todo)
      BY <1>1, RestTypes
    <3>3. QED
      BY <2>1, <2>2, <2>3, <2>5, <3>1, <3>2 DEF Visits
  <2>6. QED
    BY <1>1, <2>4, <2>5
<1>5. PICK x, y \in 1 .. n + 1 : x # y /\ walk[x] = walk[y]
  <2>1. IsFiniteSet(1 .. n + 1) /\ Cardinality(1 .. n + 1) = n + 1
    <3>1. n + 1 \in Nat
      BY <1>1
    <3>2. QED
      BY <3>1, Interval
  <2>2. IsFiniteSet(Id) /\ Cardinality(Id) = Len(actors)
    BY <1>1, Interval DEF Id
  <2>3. Cardinality(Id) < Cardinality(1 .. n + 1)
    BY <1>1, <2>1, <2>2
  <2>4. walk \in [1 .. n + 1 -> Id]
    <3>1. \A k \in 1 .. n + 1 : k # n + 1 => k \in 1 .. n
      BY <1>1
    <3>2. QED
      BY <1>2, <3>1
  <2> HIDE DEF walk
  <2>5. QED
    BY <2>1, <2>2, <2>3, <2>4, FS_PigeonHole
<1>6. PICK i, j \in 1 .. n + 1 : i < j /\ walk[i] = walk[j]
  BY <1>1, <1>5
<1> DEFINE C == {walk[k] : k \in i .. j - 1}
<1> HIDE DEF walk, head, n
<1>7. i \in i .. j - 1 /\ \A k \in i .. j - 1 : k \in 1 .. n
  BY <1>1, <1>6
<1>8. C \subseteq Victims /\ C # {}
  BY <1>4, <1>7
<1>9. ASSUME NEW a \in C PROVE Ends(before[a]) \cap C # {}
  <2>1. PICK k \in i .. j - 1 : a = walk[k]
    OBVIOUS
  <2>2. walk[k + 1] \in Ends(before[a])
    BY <1>4, <1>7, <2>1
  <2>3. walk[k + 1] \in C
    <3>1. k + 1 \in i .. j - 1 \/ k + 1 = j
      BY <1>1, <1>6, <2>1
    <3>2. walk[i] \in C
      BY <1>7
    <3>3. CASE k + 1 \in i .. j - 1
      BY <3>3
    <3>4. QED
      BY <1>6, <3>1, <3>2, <3>3
  <2>4. QED
    BY <2>2, <2>3
<1>10. C \in (SUBSET Doomed(before, calls[1].id)) \ {{}}
  BY <1>8 DEF Victims
<1>11. QED
  <2> HIDE DEF C
  <2>1. QED
    BY <1>9, <1>10 DEF Circular

\* The recursion runs out of stack in circles only, and a kill that returns
\* met none: below any limit that holds an activation for each actor.
THEOREM OverflowIsCircular == Spec => OverflowOnlyInCircles
<1>1. ASSUME ActorInv, [Next]_vars
      PROVE  [/\ caller' = "overflow" /\ calls # <<>> => Circular(before, calls[1].id)
              /\ Over => ~Circular(before, calls[1].id)]_vars
  <2>1. ASSUME caller' = "overflow", calls # <<>> PROVE Circular(before, calls[1].id)
    <3>1. caller = "run"
      BY <1>1, <2>1, InKill
    <3>2. ~Idle /\ ~Notify /\ ~Finish /\ ~UNCHANGED vars
      BY <2>1, <3>1 DEF Idle, Notify, Finish, vars
    <3>3. Descend
      BY <1>1, <3>2
         DEF Next, Spawn, SetStrategy, Supervise, Send, Recv, TryAsk, Kill, Reply
    <3>4. /\ Current.todo # <<>> /\ Head(Current.todo) \in Id
          /\ ~ (Len(Rest) < StackDepth)
      BY <2>1, <3>1, <3>3 DEF Descend, Rest, Enter
    <3>5. Len(Rest) = Len(calls)
      <4>1. calls \in Seq(Activations)
        BY <1>1 DEF ActorInv, ActorTypes, CallTypes
      <4>2. QED
        BY <2>1, <3>4, <4>1, RestTypes
    <3>6. QED
      BY <1>1, <2>1, <3>4, <3>5, FullStack
  <2>2. ASSUME Over PROVE ~Circular(before, calls[1].id)
    <3>1. \A C \in (SUBSET Victims) \ {{}} : \E a \in C : Ends(before[a]) \cap C = {}
      BY <1>1, <2>2, Returned DEF Finished
    <3>2. QED
      BY <3>1 DEF Circular, Victims
  <2>3. QED
    BY <2>1, <2>2
<1>2. QED
  BY <1>1, InvAlways, PTL DEF Spec, OverflowOnlyInCircles
=============================================================================
