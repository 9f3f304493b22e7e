----------------------------- MODULE MCCompiler -----------------------------
(***************************************************************************)
(* What the tools make of a program: its try statements, on the VM; the    *)
(* register and slot of each of its values, in the Photon backend; and its *)
(* dependencies.  Which one is chosen at the start.                        *)
(*                                                                         *)
(* The streams are all those of three basic blocks with up to MaxBody      *)
(* instructions in the first two, over two values and a call.  The first   *)
(* block is left for the second, after a jump to its own start or past the *)
(* second; the second for the third, after a jump to the start of either.  *)
(* The third returns.  No stream reads a value that some path to the read  *)
(* has not defined.                                                        *)
(***************************************************************************)
EXTENDS MCExceptions, Emitter, Packages

CONSTANTS rbx, MaxBody, json

VARIABLE part

MCColours == <<rbx>>

MCLabel == {"bb1", "bb2", "bb3"}

Instruction(op, out, in, label) == [op |-> op, out |-> out, in |-> in, label |-> label]

Straight ==
    {Instruction("set", n, <<>>, NoLabel) : n \in 1 .. 2} \cup
    UNION {{Instruction(op, n, <<m>>, NoLabel) : m \in 1 .. 3 \ {n}} :
             op \in {"mov", "alu"}, n \in 1 .. 2} \cup
    {Instruction("cmp", NoNode, in, NoLabel) : in \in {<<1>>, <<2>>, <<1, 2>>}} \cup
    {Instruction("call", 3, in, NoLabel) : in \in {<<>>, <<1>>, <<1, 2>>}}

\* A stream being written: its instructions, the nodes defined on every path
\* to its end, those defined on every path that leaves the first block, and the
\* number of instructions left.
Grow(s, i) ==
    [s EXCEPT !.instrs = Append(@, i), !.def = @ \cup ({i.out} \ {NoNode}), !.left = @ - 1]

\* No value is read too early, and no call is made twice.
Extended(s) ==
    IF s.left = 0 THEN {}
    ELSE {Grow(s, i) : i \in {j \in Straight : /\ Reads(j) \subseteq s.def
                                               /\ j.op = "call" => j.out \notin s.def}}

Blocks(S) ==
    LET Grown[k \in 0 .. MaxBody] ==
          IF k = 0 THEN S ELSE S \cup UNION {Extended(s) : s \in Grown[k - 1]}
    IN Grown[MaxBody]

\* The block ends with a jump to `next`, after one to `side` if it has one.
EndBlock(s, side, next) ==
    [s EXCEPT !.instrs = @ \o (IF side = NoLabel THEN <<>>
                               ELSE <<Instruction("jcc", NoNode, <<>>, side)>>)
                           \o <<Instruction("jmp", NoNode, <<>>, next),
                                Instruction("label", NoNode, <<>>, next)>>,
              !.skip = IF side = "bb3" THEN s.def ELSE @]

First ==
    Blocks({[instrs |-> <<Instruction("label", NoNode, <<>>, "bb1")>>,
             def |-> {}, skip |-> 1 .. 3, left |-> MaxBody]})

Second ==
    Blocks({EndBlock(s, side, "bb2") : s \in First, side \in {NoLabel, "bb1", "bb3"}})

Returns(s) ==
    {Append(s.instrs, Instruction("ret", NoNode, in, NoLabel)) :
        in \in {<<>>} \cup {<<n>> : n \in s.def \cap s.skip}}

MCStreams ==
    LET third == {EndBlock(s, side, "bb3") : s \in Second, side \in {NoLabel, "bb1", "bb2"}}
    IN UNION {Returns(s) : s \in third}

\* No jump back takes anything away from what is known at its label, so one look
\* at what comes before an instruction is enough.
MCKnown ==
    [s \in MCStreams |->
       LET Upto[j \in DOMAIN s] ==
             IF j = 1 THEN <<{}>>
             ELSE LET F == Upto[j - 1] IN
                  Append(F, {n \in Node : \A i \in 1 .. j - 1 :
                                             Follows(s, i, j) => n \in F[i] \cup Makes(s[i])})
       IN Upto[Len(s)]]

-----------------------------------------------------------------------------
\* A package from its repository, from the author's own directory, or from
\* both.
MCManifest == <<[name |-> json, source |-> "git"]>>
MCPath == <<[name |-> json, source |-> "path"]>>
MCRequests == {MCManifest, MCPath, MCPath \o MCManifest}

\* The two projects are alike: nothing tells one from the other.
MCSymmetry == Permutations(Project)

-----------------------------------------------------------------------------
\* The one stream that goes with the other parts, which leave it alone.
Idle == CHOOSE s \in MCStreams : TRUE

MCInit ==
    /\ part \in {"exceptions", "photon", "packages"}
    /\ Init /\ PhotonInit /\ PackagesInit
    /\ part # "photon" => stream = Idle

MCNext ==
    /\ UNCHANGED part
    /\ \/ part = "exceptions" /\ Next /\ UNCHANGED <<photonVars, packageVars>>
       \/ part = "photon" /\ PhotonNext /\ UNCHANGED <<vars, packageVars>>
       \/ part = "packages" /\ PackagesNext /\ UNCHANGED <<vars, photonVars>>

mcVars == <<part, vars, photonVars, packageVars>>

\* The Photon backend alone.
MCPhotonSpec == MCInit /\ part = "photon" /\ [][MCNext]_mcVars

MCSpec == MCInit /\ [][MCNext]_mcVars

\* The state of the part in use has its types.
CompilerTypeOK ==
    CASE part = "exceptions" -> TypeOK
      [] part = "photon"     -> AllocatorTypeOK /\ EmitterTypeOK
      [] part = "packages"   -> PackagesTypeOK
=============================================================================
