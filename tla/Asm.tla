-------------------------------- MODULE Asm --------------------------------
(***************************************************************************)
(* The assembler of src/src/asm.rs.  A client allocates labels, appends    *)
(* ops, and calls finish(), which walks the ops twice: the first pass      *)
(* emits into a scratch pad only to learn the pc of every label, the       *)
(* second emits the bytecode with the labels resolved.  Each iteration of  *)
(* each loop is one step.                                                  *)
(***************************************************************************)
EXTENDS Integers, Sequences

CONSTANTS
  Vocabulary,   \* the ops a client may append
  PcRange,      \* 2^16 in the program: number of targets a PUSH2 can hold
  MaxOps,       \* bound on the length of the op list
  MaxLabels     \* bound on the labels allocated (u32 in the program)

Byte == 0 .. 255

----------------------------------------------------------------------------
(* enum Op.  A simple op is its byte, which is never that of a JUMPDEST or *)
(* of a PUSH1 .. PUSH32 (define_ops! lists none); the labels are numbers.  *)

Op ==
  [op : {"Push"}, bytes : {s \in Seq(Byte) : Len(s) <= 32}]
    \cup [op : {"Dup", "Swap"}, n : 1 .. 16]
    \cup [op : {"Log"}, n : 0 .. 4]
    \cup [op : {"Simple"}, byte : Byte \ ({91} \cup 96 .. 127)]
    \cup [op : {"Jump", "JumpI", "JumpDest"}, label : Nat]

IsJump(o) == o.op \in {"Jump", "JumpI"}
IsDest(o) == o.op = "JumpDest"
LabelsOf(o) == IF IsJump(o) \/ IsDest(o) THEN {o.label} ELSE {}

ASSUME AsmAssumption ==
  /\ Vocabulary \subseteq Op
  /\ PcRange \in Nat \ {0} /\ PcRange <= 65536
  /\ MaxOps \in Nat /\ MaxLabels \in Nat

\* The target a jump carries: 0 for a label the table does not hold (yet).
LookUp(table, l) == IF l \in DOMAIN table THEN table[l] ELSE 0

\* Mutant: PUSH1 whatever the number of bytes.
PushOne(n) == 96

\* The opcode that pushes n bytes, PUSH0 .. PUSH32.
PushCode(n) == 95 + n

\* *pc as u16
AsU16(pc) == pc % PcRange

\* Mutant: the operand is written low byte first.
JumpCodeLittleEndian(pc, jump) == <<97, AsU16(pc) % 256, AsU16(pc) \div 256, jump>>

\* Mutant: the operand is the offset before the label's.
JumpCodeBefore(pc, jump) == <<97, (pc - 1) \div 256, (pc - 1) % 256, jump>>

\* Mutant: a target that is 0, so that of every label the first pass has not
\* met yet, is pushed by a PUSH0.
JumpCodeShortest(pc, jump) ==
  IF pc = 0 THEN <<95, jump>> ELSE <<97, AsU16(pc) \div 256, AsU16(pc) % 256, jump>>

\* PUSH2 with the target's bytes, high byte first; JUMP or JUMPI.
JumpCode(pc, jump) == <<97, AsU16(pc) \div 256, AsU16(pc) % 256, jump>>

\* The byte of an op that is neither a Push nor a jump.
OpCode == [Dup |-> 127, Swap |-> 143, Log |-> 160]
Single(o) ==
  IF o.op = "Simple" THEN o.byte
  ELSE IF o.op = "JumpDest" THEN 91 ELSE OpCode[o.op] + o.n

\* Op::emit: the bytes an op appends, given the labels known so far.
Emit(o, table) ==
  IF o.op = "Push" THEN <<PushCode(Len(o.bytes))>> \o o.bytes
  ELSE IF IsJump(o) THEN JumpCode(LookUp(table, o.label), IF o.op = "Jump" THEN 86 ELSE 87)
  ELSE <<Single(o)>>

\* How many bytes that is; it does not depend on the table.
Size(o) == IF o.op = "Push" THEN 1 + Len(o.bytes) ELSE IF IsJump(o) THEN 4 ELSE 1

----------------------------------------------------------------------------
VARIABLES
  profile,      \* "debug" | "release": are the debug_assert!s compiled in
  ops,          \* Asm.ops
  next_label,   \* Asm.next_label
  phase,        \* "build" | "pass1" | "pass2" | "done" | "panicked"
  i,            \* the op the running pass is at
  table,        \* label -> pc
  scratch_pad,  \* what the first pass emits
  out,          \* what the second pass emits
  pcs1, pcs2    \* history: the pc at which each pass reached op 1, 2, ...

vars == <<profile, ops, next_label, phase, i, table, scratch_pad, out, pcs1, pcs2>>

Init ==
  /\ profile \in {"debug", "release"}
  /\ ops = <<>>
  /\ next_label = 0
  /\ phase = "build"
  /\ i = 0
  /\ table = <<>>
  /\ scratch_pad = <<>>
  /\ out = <<>>
  /\ pcs1 = <<>>
  /\ pcs2 = <<>>

\* Asm::fresh_label
FreshLabel ==
  /\ phase = "build"
  /\ next_label < MaxLabels
  /\ next_label' = next_label + 1
  /\ UNCHANGED <<profile, ops, phase, i, table, scratch_pad, out, pcs1, pcs2>>

\* Asm::add_op.  Clients only name labels they were given.
AddOp(o) ==
  /\ phase = "build"
  /\ Len(ops) < MaxOps
  /\ \A l \in LabelsOf(o) : l < next_label
  /\ ops' = Append(ops, o)
  /\ UNCHANGED <<profile, next_label, phase, i, table, scratch_pad, out, pcs1, pcs2>>

\* finish() calls build_label_table() first.
Finish ==
  /\ phase = "build"
  /\ phase' = "pass1"
  /\ i' = 1
  /\ pcs1' = <<0>>
  /\ UNCHANGED <<profile, ops, next_label, table, scratch_pad, out, pcs2>>

Insert(f, k, v) == [x \in DOMAIN f \cup {k} |-> IF x = k THEN v ELSE f[x]]

\* Mutant: table.entry(*label).or_insert(..): the first placement wins.
RecordedFirst(tab, o, pc) ==
  IF IsDest(o) /\ o.label \notin DOMAIN tab THEN Insert(tab, o.label, pc) ELSE tab

\* table.insert(*label, scratch_pad.len()): a later placement wins.
Recorded(tab, o, pc) == IF IsDest(o) THEN Insert(tab, o.label, pc) ELSE tab

\* debug_assert!(*pc <= 0xFFFF)
Overflows(o, tab) == IsJump(o) /\ LookUp(tab, o.label) >= PcRange
Asserts(o, tab) == profile = "debug" /\ Overflows(o, tab)

\* One iteration of the loop of build_label_table().
FirstPass ==
  /\ phase = "pass1" /\ i <= Len(ops)
  /\ table' = Recorded(table, ops[i], Len(scratch_pad))
  /\ ~Asserts(ops[i], table')
  /\ scratch_pad' = scratch_pad \o Emit(ops[i], table')
  /\ pcs1' = Append(pcs1, Len(scratch_pad'))
  /\ i' = i + 1
  /\ UNCHANGED <<profile, ops, next_label, phase, out, pcs2>>

TableBuilt ==
  /\ phase = "pass1" /\ i = Len(ops) + 1
  /\ phase' = "pass2"
  /\ i' = 1
  /\ pcs2' = <<0>>
  /\ UNCHANGED <<profile, ops, next_label, table, scratch_pad, out, pcs1>>

\* One iteration of the loop of finish().
SecondPass ==
  /\ phase = "pass2" /\ i <= Len(ops)
  /\ ~Asserts(ops[i], table)
  /\ out' = out \o Emit(ops[i], table)
  /\ pcs2' = Append(pcs2, Len(out'))
  /\ i' = i + 1
  /\ UNCHANGED <<profile, ops, next_label, phase, table, scratch_pad, pcs1>>

Assembled ==
  /\ phase = "pass2" /\ i = Len(ops) + 1
  /\ phase' = "done"
  /\ UNCHANGED <<profile, ops, next_label, i, table, scratch_pad, out, pcs1, pcs2>>

\* A debug build stops at the first jump whose target does not fit.
Panic ==
  /\ phase \in {"pass1", "pass2"} /\ i <= Len(ops)
  /\ Asserts(ops[i], table)
  /\ phase' = "panicked"
  /\ UNCHANGED <<profile, ops, next_label, i, table, scratch_pad, out, pcs1, pcs2>>

Next ==
  \/ FreshLabel
  \/ \E o \in Vocabulary : AddOp(o)
  \/ Finish
  \/ FirstPass
  \/ TableBuilt
  \/ SecondPass
  \/ Assembled
  \/ Panic

Spec == Init /\ [][Next]_vars

----------------------------------------------------------------------------
Phase == {"build", "pass1", "pass2", "done", "panicked"}

\* The type of the assembler's state (struct Asm and the locals of finish()).
TypeOK ==
  /\ profile \in {"debug", "release"}
  /\ ops \in Seq(Op)
  /\ next_label \in Nat
  /\ phase \in Phase
  /\ i \in Nat
  /\ DOMAIN table \subseteq Nat /\ \A l \in DOMAIN table : table[l] \in Nat
  /\ scratch_pad \in Seq(Byte)
  /\ out \in Seq(Byte)
  /\ pcs1 \in Seq(Nat)
  /\ pcs2 \in Seq(Nat)

Placed == {ops[j].label : j \in {k \in 1 .. Len(ops) : IsDest(ops[k])}}

\* "the jump is fixed-width (4 bytes), so PCs don't depend on it" (asm.rs:89):
\* every op starts at the same pc in both passes, forward references included.
PassesAgree ==
  phase \in {"pass2", "done"} => \A j \in 1 .. i : pcs2[j] = pcs1[j]

\* What the assembled code at offset p would jump to.
TargetAt(p) == 256 * out[p + 2] + out[p + 3]

\* The contract of finish(): when it returns, the operand of every jump to a
\* label that is placed somewhere is the offset at which a JUMPDEST of that
\* very label starts, and the byte there is JUMPDEST.  A release build gives
\* this only to code whose offsets fit PUSH2; a debug build stops otherwise.
JumpsLand ==
  phase = "done" /\ (profile = "debug" \/ Len(out) <= PcRange) =>
    \A j \in 1 .. Len(ops) :
      IsJump(ops[j]) /\ ops[j].label \in Placed =>
        LET dest == TargetAt(pcs2[j])
        IN /\ dest < Len(out) /\ out[dest + 1] = 91
           /\ \E k \in 1 .. Len(ops) :
                /\ IsDest(ops[k]) /\ ops[k].label = ops[j].label
                /\ pcs2[k] = dest

\* The EVM's own reading of the code: from offset 0, instruction by
\* instruction, skipping the operand bytes of PUSH1 .. PUSH32.
InstrLen(b) == IF b \in 96 .. 127 THEN b - 94 ELSE 1
IsInstr[p \in Nat] ==
  p = 0 \/ \E q \in 0 .. p - 1 : IsInstr[q] /\ q + InstrLen(out[q + 1]) = p

\* An EVM accepts a jump only to a JUMPDEST that is an instruction, not to a
\* 0x5b inside an operand.  The offsets it accepts are exactly the offsets of
\* the placed labels: no pushed constant opens or hides a jump target.
DestinationsAgree ==
  phase = "done" =>
    {p \in 0 .. Len(out) - 1 : out[p + 1] = 91 /\ IsInstr[p]}
      = {pcs2[k] : k \in {j \in 1 .. Len(ops) : IsDest(ops[j])}}

----------------------------------------------------------------------------
\* An op, as a linker sees it.
ItemOf(o) ==
  [kind |-> IF IsJump(o) THEN "jump" ELSE IF IsDest(o) THEN "dest" ELSE "other",
   label |-> IF IsJump(o) \/ IsDest(o) THEN o.label ELSE 0,
   size |-> Size(o)]

Promise == INSTANCE Linker WITH
  Items <- {ItemOf(o) : o \in Vocabulary},
  Range <- PcRange,
  checked <- profile = "debug",
  items <- [j \in 1 .. Len(ops) |-> ItemOf(ops[j])],
  status <- IF phase = "done" THEN "linked" ELSE IF phase = "panicked" THEN "refused" ELSE "open",
  at <- IF phase = "done" THEN pcs2 ELSE IF phase = "panicked" THEN pcs1 ELSE <<>>,
  to <- IF phase = "done"
        THEN [j \in {k \in 1 .. Len(ops) : IsJump(ops[k])} |-> TargetAt(pcs2[j])]
        ELSE <<>>

\* finish() implements a linker: two passes over the ops, and a table that is
\* filled by the first, are one step that places every op and sends each jump
\* to where its label is placed last, wherever that is.  A debug build panics
\* only, and always, if an offset does not fit.
Linking == Promise!Spec
============================================================================
