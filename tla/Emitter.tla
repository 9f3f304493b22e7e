------------------------------- MODULE Emitter -------------------------------
(***************************************************************************)
(* The emitter of the Photon backend, photon/X86Emitter.aura, and the run  *)
(* of what it emits.                                                       *)
(*                                                                         *)
(* Each instruction of the stream becomes a few of the processor, which    *)
(* work in the register of a coloured node and bring the others from their *)
(* slots into r10 or r11 and back.  A load that directly follows the store *)
(* of the same register into the same slot is not emitted, and the store   *)
(* is taken back.                                                          *)
(*                                                                         *)
(* The run does not compute: it keeps, for every register and slot, of     *)
(* which nodes it holds the value, so that a read can be asked whether it  *)
(* finds the value of the node it is meant to read.                        *)
(***************************************************************************)
EXTENDS Allocator

Slot(n) == <<"slot", n>>
Reg(r) == <<"reg", r>>

\* The registers a call leaves with other values: the two scratch registers and
\* that of the result.
Volatile == {Reg("r10"), Reg("r11"), Reg("rax")}

Location == Volatile \cup {Reg(c) : c \in Range(Colours)} \cup {Slot(n) : n \in Node}

-----------------------------------------------------------------------------
(***************************************************************************)
(* What the instruction selection (selectBlock) makes sure of: a block is  *)
(* a label, the block's values and a terminator; all labels are there; the *)
(* last block does not go on; and no value is read that some way to the    *)
(* read has not made, since the values come from a program in SSA form.    *)
(***************************************************************************)
CONSTANT Known      \* of each stream, what has a value before each instruction

Makes(instr) == {instr.out} \ {NoNode}

\* The nodes whose value an instruction reads.
Reads(instr) == Range(instr.in) \cup IF instr.op = "alu" THEN {instr.out} ELSE {}

Jumps == {"jmp", "jcc"}

\* Instruction j may come right after instruction i.
Follows(s, i, j) ==
    \/ j = i + 1 /\ s[i].op \notin {"jmp", "ret"}
    \/ s[i].op \in Jumps /\ s[j].op = "label" /\ s[j].label = s[i].label

WellFormed(s) ==
    /\ \A i \in DOMAIN s :
          /\ s[i].op \in {"set", "mov", "alu", "call"} <=> s[i].out \in Node
          /\ s[i].op = "call" => s[i].out \in CallNode
          /\ s[i].op \in {"set", "label"} \cup Jumps => s[i].in = <<>>
          /\ s[i].op \in {"mov", "alu"} => Len(s[i].in) = 1
          /\ s[i].op = "cmp" => Len(s[i].in) \in 1 .. 2
          /\ s[i].op = "ret" => Len(s[i].in) <= 1
          /\ s[i].op \in Jumps =>
                \E j \in DOMAIN s : s[j].op = "label" /\ s[j].label = s[i].label
          /\ s[i].op = "label" /\ i > 1 => s[i - 1].op \in Terminator
    /\ s # <<>> => Last(s).op \in {"jmp", "ret"}

\* F has the nodes that were made on every way to each instruction.
NeverTooEarly(s, F) ==
    /\ DOMAIN F = DOMAIN s
    /\ s # <<>> => F[1] = {}
    /\ \A i \in DOMAIN s : Reads(s[i]) \subseteq F[i]
    /\ \A i, j \in DOMAIN s : Follows(s, i, j) => F[j] \subseteq F[i] \cup Makes(s[i])

Scratch == {"r10", "r11", "rax"}

ASSUME EmitterAssumption ==
    /\ Range(Colours) \cap Scratch = {}
    /\ \A s \in Streams : WellFormed(s) /\ NeverTooEarly(s, Known[s])

-----------------------------------------------------------------------------
VARIABLES
    emitted,        \* how many instructions of the stream have been emitted
    code,           \* X86Encoder's buffer, with its labels, one item for each
    stored,         \* lastStLen, lastStOff, lastStReg
    pc,             \* the item that runs next; 0 when nothing runs
    holds,          \* for each location, the nodes whose value it holds
    elided          \* history: the nodes whose value was not stored

emitterVars == <<emitted, code, stored, pc, holds, elided>>

photonVars == <<allocatorVars, emitterVars>>

\* No store is remembered.
NoStore == [at |-> 0, slot |-> NoNode, reg |-> NoColour]

EmitterInit ==
    /\ emitted = 0 /\ code = <<>> /\ stored = NoStore
    /\ pc = 0 /\ holds = [l \in Location |-> {}] /\ elided = {}

-----------------------------------------------------------------------------
(***************************************************************************)
(* The items of the code.  Moves and what leads control are instructions *)
(* of the processor; Use, Define and Alias say what an instruction does    *)
(* with the values of nodes, and Elided that the store of one is missing.  *)
(***************************************************************************)
Item(do, n, to, from, label) ==
    [do |-> do, node |-> n, to |-> to, from |-> from, label |-> label]

Copy(to, from) == Item("move", NoNode, Reg(to), Reg(from), NoLabel)
Load(reg, n) == Item("move", NoNode, Reg(reg), Slot(n), NoLabel)
Keep(n, reg) == Item("move", NoNode, Slot(n), Reg(reg), NoLabel)
Use(n, reg) == Item("use", n, Reg(reg), Reg(reg), NoLabel)
Define(n, reg) == Item("define", n, Reg(reg), Reg(reg), NoLabel)    \* a new value of n, in reg
Alias(n, reg) == Item("alias", n, Reg(reg), Reg(reg), NoLabel)      \* the value in reg is n's as well
Elided(n) == Item("elided", n, Slot(n), Slot(n), NoLabel)
Clobber == Item("call", NoNode, Reg("rax"), Reg("rax"), NoLabel)
Control(do, label) == Item(do, NoNode, Reg(NoColour), Reg(NoColour), label)

\* regOfNode finds a register.
InRegister(n) == n \notin CallNode /\ colour[n] # NoColour

\* The emitter between two items: the code, and what is known of its last store.
Emitted(items, e) == [code |-> e.code \o items, stored |-> e.stored]

\* Slip: the register is not compared
JustStoredFromAny(e, n, tmp) == e.stored.at = Len(e.code) /\ e.stored.slot = n

\* loadDstReg, its check that the last item is the store of this register.
\* The length of the code stands for the four counts of the encoder.
JustStored(e, n, tmp) == e.stored = [at |-> Len(e.code), slot |-> n, reg |-> tmp]

\* resolveToReg: the value of a node, where an instruction can read it.
Home(n, tmp) == IF InRegister(n) THEN colour[n] ELSE tmp

ResolveToReg(e, n, tmp) ==
    IF InRegister(n) THEN Emitted(<<Use(n, colour[n])>>, e)
    ELSE IF JustStored(e, n, tmp)
    THEN [code |-> Front(e.code) \o <<Use(n, tmp), Elided(n)>>, stored |-> NoStore]
    ELSE [code |-> e.code \o <<Load(tmp, n), Use(n, tmp)>>, stored |-> NoStore]

\* storeDstReg into a slot
Store(e, n, reg) ==
    [code |-> Append(e.code, Keep(n, reg)),
     stored |-> [at |-> Len(e.code) + 1, slot |-> n, reg |-> reg]]

-----------------------------------------------------------------------------
\* emitMovImm, emitSetcc, emitLea: a value out of nothing.
EmitSet(e, n) ==
    IF InRegister(n) THEN Emitted(<<Define(n, colour[n])>>, e)
    ELSE Store(Emitted(<<Define(n, "r10")>>, e), n, "r10")

\* emitMovRR
EmitMovRR(e, dst, src) ==
    LET read == Emitted(<<Alias(dst, Home(src, "r10"))>>, ResolveToReg(e, src, "r10")) IN
    IF InRegister(dst)
    THEN [Emitted(<<Copy(colour[dst], Home(src, "r10"))>>, read) EXCEPT !.stored = NoStore]
    ELSE Store(read, dst, Home(src, "r10"))

\* emitAluBinary, which loads and stores a slot of its own.
EmitAluBinary(e, dst, src) ==
    LET read == ResolveToReg(e, src, "r10") IN
    IF InRegister(dst)
    THEN Emitted(<<Use(dst, colour[dst]), Define(dst, colour[dst])>>, read)
    ELSE Emitted(<<Load("r11", dst), Use(dst, "r11"), Define(dst, "r11"),
                   Keep(dst, "r11")>>, read)

\* emitCmpImm and emitCmpRR
EmitCmp(e, in) ==
    LET first == ResolveToReg(e, in[1], "r10") IN
    IF Len(in) = 1 THEN first ELSE ResolveToReg(first, in[2], "r11")

\* emitCall: every argument goes through r11 into a place of its own, and from
\* there into its register; the result goes into the slot of the call.
EmitCall(e, n, args) ==
    LET Upto[k \in 0 .. Len(args)] ==
          IF k = 0 THEN e ELSE ResolveToReg(Upto[k - 1], args[k], "r11")
    IN Emitted(<<Clobber, Define(n, "rax"), Keep(n, "rax")>>, Upto[Len(args)])

\* emitRet, which loads a slot itself.
EmitRet(e, in) ==
    LET result == IF in = <<>> THEN <<>>
                  ELSE IF InRegister(in[1]) THEN <<Use(in[1], colour[in[1]])>>
                  ELSE <<Load("rax", in[1]), Use(in[1], "rax")>>
    IN Emitted(Append(result, Control("ret", NoLabel)), e)

\* emitInstr
EmitInstr(e, instr) ==
    CASE instr.op = "set" -> EmitSet(e, instr.out)
      [] instr.op = "mov" -> EmitMovRR(e, instr.out, instr.in[1])
      [] instr.op = "alu" -> EmitAluBinary(e, instr.out, instr.in[1])
      [] instr.op = "cmp" -> EmitCmp(e, instr.in)
      [] instr.op = "call" -> EmitCall(e, instr.out, instr.in)
      [] instr.op = "ret" -> EmitRet(e, instr.in)
      [] OTHER -> Emitted(<<Control(instr.op, instr.label)>>, e)

EmitNext ==
    /\ Allocated /\ emitted < Len(stream)
    /\ LET e == EmitInstr([code |-> code, stored |-> stored], stream[emitted + 1]) IN
       /\ code' = e.code
       /\ stored' = e.stored
    /\ emitted' = emitted + 1
    /\ pc' = IF emitted' = Len(stream) THEN 1 ELSE 0
    /\ UNCHANGED <<allocatorVars, holds, elided>>

-----------------------------------------------------------------------------
\* The place in the code that a jump goes to.
Target(label) == CHOOSE i \in DOMAIN code : code[i] = Control("label", label)

\* The item at pc is of this sort, and pc goes on to the next.
Running(do) ==
    /\ pc \in DOMAIN code /\ code[pc].do = do
    /\ pc' = pc + 1
    /\ UNCHANGED <<allocatorVars, emitted, code, stored>>

RunMove ==
    /\ Running("move")
    /\ holds' = [holds EXCEPT ![code[pc].to] = holds[code[pc].from]]
    /\ UNCHANGED elided

RunUse == Running("use") /\ UNCHANGED <<holds, elided>>

RunDefine ==
    /\ Running("define")
    /\ holds' = [l \in Location |-> IF l = code[pc].to THEN {code[pc].node}
                                    ELSE holds[l] \ {code[pc].node}]
    /\ elided' = elided \ {code[pc].node}

\* Whatever has the value of a node that the register has the value of.
RunAlias ==
    /\ Running("alias")
    /\ holds' = [l \in Location |->
                   IF l = code[pc].to \/ holds[l] \cap holds[code[pc].to] # {}
                   THEN holds[l] \cup {code[pc].node} ELSE holds[l] \ {code[pc].node}]
    /\ elided' = elided \ {code[pc].node}

RunElided ==
    /\ Running("elided")
    /\ elided' = elided \cup {code[pc].node}
    /\ UNCHANGED holds

\* A call keeps the colours, which are registers that the callee saves.
RunCall ==
    /\ Running("call")
    /\ holds' = [l \in Location |-> IF l \in Volatile THEN {} ELSE holds[l]]
    /\ UNCHANGED elided

RunLabel == Running("label") /\ UNCHANGED <<holds, elided>>

Goto(do, next) ==
    /\ pc \in DOMAIN code /\ code[pc].do = do
    /\ pc' = next
    /\ UNCHANGED <<allocatorVars, emitted, code, stored, holds, elided>>

RunJmp == Goto("jmp", Target(code[pc].label))

RunJcc == Goto("jcc", Target(code[pc].label)) \/ Goto("jcc", pc + 1)

RunRet == Goto("ret", 0)

Run == RunMove \/ RunUse \/ RunDefine \/ RunAlias \/ RunElided \/ RunCall
       \/ RunLabel \/ RunJmp \/ RunJcc \/ RunRet

PhotonInit == AllocatorInit /\ EmitterInit

PhotonNext == (Allocate /\ UNCHANGED emitterVars) \/ EmitNext \/ Run

PhotonSpec == PhotonInit /\ [][PhotonNext]_photonVars

EmitterTypeOK ==
    /\ emitted \in 0 .. Len(stream)
    /\ pc \in 0 .. Len(code)
    /\ holds \in [Location -> SUBSET Node]
    /\ elided \subseteq Node

-----------------------------------------------------------------------------
\* The read that runs next, if it is one, and whether it finds its value.
Reading == pc \in DOMAIN code /\ code[pc].do = "use"
Finds == code[pc].node \in holds[code[pc].from]

\* A value that has a register is there whenever it is read: whatever was put
\* into the register after it, in its block or around a loop, was dead.
RegistersKeep == Reading /\ InRegister(code[pc].node) => Finds

\* A value that has a slot is there whenever it is read, unless its store was
\* taken back, which only the load that follows it is meant not to notice.
SlotsKeep ==
    Reading /\ ~ InRegister(code[pc].node) /\ code[pc].node \notin elided => Finds

\* Deleting a store and the load that follows it has no effect on the
\* registers and the memory: whatever is read later finds its value.
PairHasNoEffect == Reading => Finds
=============================================================================
