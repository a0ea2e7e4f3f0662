----------------------------- MODULE AsmProofs -----------------------------
(***************************************************************************)
(* The assembler is correct for every vocabulary and every op list: its    *)
(* state is well typed, both passes agree on the pc of every op, and every *)
(* jump of the emitted code lands on the label it names.                   *)
(***************************************************************************)
EXTENDS Asm, Induction, SequenceTheorems, TLAPS

TableType(tab) == DOMAIN tab \subseteq Nat /\ \A l \in DOMAIN tab : tab[l] \in Nat

LEMMA ByteRange == \A b : b \in Byte <=> b \in Nat /\ b < 256
BY DEF Byte

(* A label's number is a Nat, and its target too, known or not.            *)
LEMMA LookUpType ==
  ASSUME NEW tab, TableType(tab), NEW l
  PROVE  LookUp(tab, l) \in Nat
BY DEF LookUp, TableType

(* The remainder by a constant, which the arithmetic of the provers does   *)
(* not settle on its own.                                                  *)
LEMMA Remainder ==
  ASSUME NEW n \in Nat \ {0}, NEW x \in Nat
  PROVE  x % n \in 0 .. n - 1 /\ (x < n => x % n = x)
<1>1. x = n * (x \div n) + (x % n)
  OBVIOUS
<1>2. x % n \in 0 .. n - 1
  OBVIOUS
<1>3. x \div n \in Nat
  OBVIOUS
<1>4. x < n => x \div n = 0
  BY <1>1, <1>2, <1>3
<1> QED
  BY <1>1, <1>2, <1>4

(* What the proofs assume of the constants.                                *)
LEMMA Parameters == Vocabulary \subseteq Op /\ PcRange \in Nat \ {0} /\ PcRange <= 65536
BY AsmAssumption DEF AsmAssumption

(* The truncation to u16 leaves a target in range alone, and fits 2 bytes. *)
LEMMA U16 ==
  ASSUME NEW pc \in Nat
  PROVE  AsU16(pc) \in Nat /\ AsU16(pc) < 65536 /\ (pc < PcRange => AsU16(pc) = pc)
<1>0. PcRange \in Nat \ {0}
  BY Parameters
<1>1. PcRange \in Nat /\ PcRange <= 65536
  BY Parameters
<1>2. pc % PcRange \in 0 .. PcRange - 1 /\ (pc < PcRange => pc % PcRange = pc)
  BY <1>0, Remainder, Zenon
<1>3. AsU16(pc) \in 0 .. PcRange - 1 /\ (pc < PcRange => AsU16(pc) = pc)
  BY <1>2, Zenon DEF AsU16
<1> QED
  BY <1>1, <1>3

(* A jump is four bytes whatever its target; its second and third bytes    *)
(* are its operand, and decode to the target, or what is left of it.       *)
LEMMA JumpType ==
  ASSUME NEW pc \in Nat, NEW b \in Byte
  PROVE  /\ JumpCode(pc, b) \in Seq(Byte) /\ Len(JumpCode(pc, b)) = 4
         /\ 256 * JumpCode(pc, b)[2] + JumpCode(pc, b)[3] = AsU16(pc)
         /\ pc < PcRange => AsU16(pc) = pc
<1>1. AsU16(pc) \in Nat /\ AsU16(pc) < 65536 /\ (pc < PcRange => AsU16(pc) = pc)
  BY U16
<1>2. PICK hi, lo \in Nat : /\ hi = AsU16(pc) \div 256 /\ lo = AsU16(pc) % 256
                            /\ hi < 256 /\ lo < 256 /\ 256 * hi + lo = AsU16(pc)
  BY <1>1
<1>3. 97 \in Byte /\ hi \in Byte /\ lo \in Byte
  BY <1>2, ByteRange
<1>4. JumpCode(pc, b) = <<97, hi, lo, b>>
  BY <1>2 DEF JumpCode
<1> QED
  BY <1>1, <1>2, <1>3, <1>4

(* The operand of a Push.                                                  *)
LEMMA PushType ==
  ASSUME NEW o \in Op, o.op = "Push"
  PROVE  o.bytes \in Seq(Byte) /\ Len(o.bytes) \in Nat /\ Len(o.bytes) <= 32
<1>1. o \in [op : {"Push"}, bytes : {s \in Seq(Byte) : Len(s) <= 32}]
  BY DEF Op
<1>2. o.bytes \in {s \in Seq(Byte) : Len(s) <= 32}
  BY <1>1
<1> QED
  BY <1>2, LenProperties

(* Every other op that is not a jump is one byte.                          *)
LEMMA SingleType ==
  ASSUME NEW o \in Op, o.op # "Push", ~IsJump(o)
  PROVE  Single(o) \in Byte
<1>1. CASE o.op = "Simple"
  <2>1. o \in [op : {"Simple"}, byte : Byte \ ({91} \cup 96 .. 127)]
    BY <1>1 DEF Op
  <2> QED
    BY <1>1, <2>1 DEF Single
<1>2. CASE o.op = "JumpDest"
  BY <1>2, ByteRange DEF Single
<1>3. CASE o.op \in {"Dup", "Swap"}
  <2>1. o \in [op : {"Dup", "Swap"}, n : 1 .. 16]
    BY <1>3 DEF Op
  <2> QED
    BY <1>3, <2>1, ByteRange DEF Single, OpCode
<1>4. CASE o.op = "Log"
  <2>1. o \in [op : {"Log"}, n : 0 .. 4]
    BY <1>4 DEF Op
  <2> QED
    BY <1>4, <2>1, ByteRange DEF Single, OpCode
<1> QED
  BY <1>1, <1>2, <1>3, <1>4 DEF Op, IsJump

(* Op::emit appends Size(o) bytes, whatever the table.                     *)
LEMMA EmitType ==
  ASSUME NEW o \in Op, NEW tab, TableType(tab)
  PROVE  Emit(o, tab) \in Seq(Byte) /\ Len(Emit(o, tab)) = Size(o) /\ Size(o) \in Nat \ {0}
<1>1. CASE o.op = "Push"
  <2>1. o.bytes \in Seq(Byte) /\ Len(o.bytes) \in Nat /\ Len(o.bytes) <= 32
    BY <1>1, PushType
  <2>2. \A n \in Nat : n <= 32 => PushCode(n) \in Byte
    BY ByteRange DEF PushCode
  <2> DEFINE head == <<PushCode(Len(o.bytes))>>
  <2>3. head \in Seq(Byte) /\ Len(head) = 1
    BY <2>1, <2>2
  <2>4. Emit(o, tab) = head \o o.bytes /\ Size(o) = 1 + Len(o.bytes)
    BY <1>1 DEF Emit, Size
  <2> HIDE DEF head
  <2> QED
    BY <2>1, <2>3, <2>4, ConcatProperties
<1>2. CASE IsJump(o)
  <2>1. LookUp(tab, o.label) \in Nat
    BY LookUpType
  <2>2. o.op # "Push" /\ 86 \in Byte /\ 87 \in Byte
    BY <1>2, ByteRange DEF IsJump
  <2>3. Size(o) = 4
    BY <1>2, <2>2 DEF Size
  <2>4. PICK b \in Byte : Emit(o, tab) = JumpCode(LookUp(tab, o.label), b)
    BY <1>2, <2>2 DEF Emit
  <2> QED
    BY <2>1, <2>3, <2>4, JumpType
<1>3. CASE o.op # "Push" /\ ~IsJump(o)
  <2>1. Emit(o, tab) = <<Single(o)>> /\ Size(o) = 1
    BY <1>3 DEF Emit, Size
  <2> QED
    BY <1>3, <2>1, SingleType
<1> QED
  BY <1>1, <1>2, <1>3

(* The operand of a jump decodes to its target, when that is in range.     *)
LEMMA JumpBytes ==
  ASSUME NEW o \in Op, IsJump(o), NEW tab, TableType(tab)
  PROVE  /\ 256 * Emit(o, tab)[2] + Emit(o, tab)[3] = AsU16(LookUp(tab, o.label))
         /\ LookUp(tab, o.label) < PcRange => AsU16(LookUp(tab, o.label)) = LookUp(tab, o.label)
<1>1. LookUp(tab, o.label) \in Nat
  BY LookUpType
<1>2. o.op # "Push" /\ 86 \in Byte /\ 87 \in Byte
  BY ByteRange DEF IsJump
<1>3. PICK b \in Byte : Emit(o, tab) = JumpCode(LookUp(tab, o.label), b)
  BY <1>2 DEF Emit
<1>4. PICK pc \in Nat : pc = LookUp(tab, o.label)
  BY <1>1
<1>5. /\ 256 * JumpCode(pc, b)[2] + JumpCode(pc, b)[3] = AsU16(pc)
      /\ pc < PcRange => AsU16(pc) = pc
  BY JumpType
<1> QED
  BY <1>3, <1>4, <1>5, Zenon

----------------------------------------------------------------------------
(* Appending code and positions.                                           *)

LEMMA Extend ==
  ASSUME NEW x \in Seq(Byte), NEW e \in Seq(Byte)
  PROVE  /\ x \o e \in Seq(Byte) /\ Len(x \o e) = Len(x) + Len(e)
         /\ \A k \in 1 .. Len(x) : (x \o e)[k] = x[k]
         /\ \A k \in 1 .. Len(e) : (x \o e)[Len(x) + k] = e[k]
OBVIOUS

LEMMA AppendPc ==
  ASSUME NEW pcs \in Seq(Nat), NEW n \in Nat
  PROVE  /\ Append(pcs, n) \in Seq(Nat) /\ Len(Append(pcs, n)) = Len(pcs) + 1
         /\ \A j \in 1 .. Len(pcs) : Append(pcs, n)[j] = pcs[j]
         /\ Append(pcs, n)[Len(pcs) + 1] = n
BY AppendProperties

----------------------------------------------------------------------------
(* The inductive invariant.  A pass that is at op n has recorded a chain   *)
(* of n positions, each op Size(op) after the one before it.               *)
Chain(pcs, code, n) ==
  /\ Len(pcs) = n /\ pcs[1] = 0 /\ pcs[n] = Len(code)
  /\ \A j \in 1 .. n - 1 : pcs[j + 1] = pcs[j] + Size(ops[j])

(* After the first pass has walked the ops before n, the table holds their *)
(* labels and nothing else, each at the position of the last op to place   *)
(* it.                                                                     *)
Known(n) ==
  /\ \A l \in DOMAIN table :
       \E j \in 1 .. n - 1 :
         /\ IsDest(ops[j]) /\ ops[j].label = l /\ table[l] = pcs1[j]
         /\ \A m \in j + 1 .. n - 1 : ~(IsDest(ops[m]) /\ ops[m].label = l)
  /\ \A j \in 1 .. n - 1 : IsDest(ops[j]) => ops[j].label \in DOMAIN table

(* After the second pass has walked the ops before n, their code is out at *)
(* the positions the first pass had found.                                 *)
Resolved(n) ==
  /\ \A j \in 1 .. n : pcs2[j] = pcs1[j]
  /\ \A j \in 1 .. n - 1 :
       /\ pcs2[j] + Size(ops[j]) <= Len(out)
       /\ \A k \in 1 .. Size(ops[j]) : out[pcs2[j] + k] = Emit(ops[j], table)[k]
       /\ ~Asserts(ops[j], table)

IInv ==
  /\ TypeOK
  /\ phase = "build" => table = <<>> /\ scratch_pad = <<>> /\ out = <<>>
  /\ phase = "pass1" =>
       /\ i \in 1 .. Len(ops) + 1 /\ out = <<>>
       /\ Chain(pcs1, scratch_pad, i) /\ Known(i)
  /\ phase \in {"pass2", "done"} =>
       /\ i \in 1 .. Len(ops) + 1
       /\ Chain(pcs1, scratch_pad, Len(ops) + 1) /\ Known(Len(ops) + 1)
       /\ Chain(pcs2, out, i) /\ Resolved(i)
  /\ phase = "done" => i = Len(ops) + 1

----------------------------------------------------------------------------
(* The table after op o at pc: it gains o's label if o places one.         *)
Placing(after, tab, o, pc) ==
  /\ TableType(after)
  /\ ~IsDest(o) => after = tab
  /\ IsDest(o) => /\ DOMAIN after = DOMAIN tab \cup {o.label}
                  /\ after[o.label] = pc
                  /\ \A l \in DOMAIN tab \ {o.label} : after[l] = tab[l]

LEMMA RecordedType ==
  ASSUME NEW o \in Op, NEW tab, TableType(tab), NEW pc \in Nat
  PROVE  Placing(Recorded(tab, o, pc), tab, o, pc)
<1>1. CASE IsDest(o)
  <2>1. o.label \in Nat
    <3>1. o \in [op : {"Jump", "JumpI", "JumpDest"}, label : Nat]
      BY <1>1 DEF Op, IsDest
    <3> QED
      BY <3>1
  <2>2. Recorded(tab, o, pc) =
          [x \in DOMAIN tab \cup {o.label} |-> IF x = o.label THEN pc ELSE tab[x]]
    BY <1>1 DEF Recorded, Insert
  <2> QED
    BY <1>1, <2>1, <2>2 DEF Placing, TableType
<1>2. CASE ~IsDest(o)
  BY <1>2 DEF Placing, Recorded
<1> QED
  BY <1>1, <1>2

(* One more op: the chain of positions pcs of n ops grows by one.          *)
Longer(p, c, pcs, n) ==
  /\ c \in Seq(Byte) /\ p \in Seq(Nat) /\ Chain(p, c, n + 1)
  /\ \A j \in 1 .. n : p[j] = pcs[j]
  /\ p[n + 1] = pcs[n] + Size(ops[n])

LEMMA ChainStep ==
  ASSUME NEW pcs \in Seq(Nat), NEW code \in Seq(Byte), NEW n \in Nat, 1 <= n,
         Chain(pcs, code, n), NEW e \in Seq(Byte), Len(e) = Size(ops[n]),
         NEW c, c = code \o e, NEW p, p = Append(pcs, Len(c))
  PROVE  Longer(p, c, pcs, n)
<1>1. c \in Seq(Byte) /\ Len(c) = Len(code) + Len(e) /\ Len(code) \in Nat /\ Len(e) \in Nat
  BY Extend, LenProperties
<1>2. Len(pcs) = n
  BY DEF Chain
<1>3. /\ p \in Seq(Nat) /\ Len(p) = n + 1 /\ \A j \in 1 .. n : p[j] = pcs[j]
      /\ p[n + 1] = Len(c)
  BY <1>1, <1>2, AppendPc
<1>4. p[1] = 0 /\ p[n + 1] = pcs[n] + Size(ops[n])
  BY <1>1, <1>3 DEF Chain
<1>5. ASSUME NEW j \in 1 .. n
      PROVE  p[j + 1] = p[j] + Size(ops[j])
  <2>1. CASE j = n
    BY <1>3, <1>4, <2>1
  <2>2. CASE j # n
    BY <1>3, <2>2 DEF Chain
  <2> QED
    BY <2>1, <2>2
<1>6. Chain(p, c, n + 1)
  BY <1>3, <1>4, <1>5 DEF Chain
<1> QED
  BY <1>1, <1>3, <1>4, <1>6 DEF Longer

LEMMA InitInv == Init => IInv
BY EmptySeq DEF Init, IInv, TypeOK, Phase

(* What IInv says of the state in which a pass walks op i.                 *)
LEMMA Walking ==
  ASSUME IInv, phase \in {"pass1", "pass2"}, i <= Len(ops)
  PROVE  /\ i \in Nat /\ 1 <= i /\ i \in 1 .. Len(ops) /\ ops[i] \in Op
         /\ ops \in Seq(Op) /\ Len(ops) \in Nat /\ TableType(table)
BY ElementOfSeq, LenProperties DEF IInv, TypeOK, TableType

LEMMA FirstPassInv == IInv /\ FirstPass => IInv'
<1> SUFFICES ASSUME IInv, FirstPass PROVE IInv'
  OBVIOUS
<1>1. /\ phase = "pass1" /\ i <= Len(ops) /\ phase' = "pass1" /\ i' = i + 1 /\ ops' = ops
      /\ out' = out
  BY DEF FirstPass
<1>2. /\ i \in Nat /\ 1 <= i /\ i \in 1 .. Len(ops) /\ ops[i] \in Op
      /\ ops \in Seq(Op) /\ Len(ops) \in Nat /\ TableType(table)
  BY <1>1, Walking
<1>3. /\ scratch_pad \in Seq(Byte) /\ pcs1 \in Seq(Nat) /\ out = <<>>
      /\ Chain(pcs1, scratch_pad, i) /\ Known(i)
  BY <1>1 DEF IInv, TypeOK
<1>4. Len(scratch_pad) \in Nat /\ pcs1[i] = Len(scratch_pad)
  BY <1>3, LenProperties DEF Chain
<1>5. /\ table' = Recorded(table, ops[i], Len(scratch_pad))
      /\ scratch_pad' = scratch_pad \o Emit(ops[i], table')
      /\ pcs1' = Append(pcs1, Len(scratch_pad'))
  BY DEF FirstPass
<1>6. Placing(table', table, ops[i], Len(scratch_pad))
  BY <1>2, <1>4, <1>5, RecordedType
<1>7. Emit(ops[i], table') \in Seq(Byte) /\ Len(Emit(ops[i], table')) = Size(ops[i])
  <2>1. TableType(table')
    BY <1>6 DEF Placing
  <2> QED
    BY <1>2, <2>1, EmitType
<1>8. Longer(pcs1', scratch_pad', pcs1, i)
  BY <1>2, <1>3, <1>5, <1>7, ChainStep
<1>9. \A j \in 1 .. i : pcs1'[j] = pcs1[j]
  BY <1>8 DEF Longer
<1>10. Chain(pcs1, scratch_pad, i)'
  BY <1>1, <1>8 DEF Longer, Chain
<1>11. ASSUME NEW l \in DOMAIN table'
       PROVE  \E j \in 1 .. i :
                /\ IsDest(ops[j]) /\ ops[j].label = l /\ table'[l] = pcs1'[j]
                /\ \A m \in j + 1 .. i : ~(IsDest(ops[m]) /\ ops[m].label = l)
  <2>1. CASE IsDest(ops[i]) /\ l = ops[i].label
    <3>1. table'[l] = pcs1[i]
      BY <1>4, <1>6, <2>1 DEF Placing
    <3>2. i + 1 .. i = {} /\ i \in 1 .. i
      BY <1>2
    <3>3. table'[l] = pcs1'[i]
      BY <1>9, <3>1, <3>2
    <3> QED
      BY <2>1, <3>2, <3>3
  <2>2. CASE ~(IsDest(ops[i]) /\ l = ops[i].label)
    <3>1. l \in DOMAIN table /\ table'[l] = table[l]
      BY <1>6, <1>11, <2>2 DEF Placing
    <3>2. PICK j \in 1 .. i - 1 :
            /\ IsDest(ops[j]) /\ ops[j].label = l /\ table[l] = pcs1[j]
            /\ \A m \in j + 1 .. i - 1 : ~(IsDest(ops[m]) /\ ops[m].label = l)
      BY <1>3, <3>1 DEF Known
    <3>3. j \in 1 .. i /\ pcs1'[j] = pcs1[j]
      BY <1>2, <1>9
    <3>4. \A m \in j + 1 .. i : m \in j + 1 .. i - 1 \/ m = i
      BY <1>2
    <3>5. \A m \in j + 1 .. i : ~(IsDest(ops[m]) /\ ops[m].label = l)
      BY <2>2, <3>2, <3>4
    <3> QED
      BY <3>1, <3>2, <3>3, <3>5
  <2> QED
    BY <2>1, <2>2
<1>12. ASSUME NEW j \in 1 .. i, IsDest(ops[j])
       PROVE  ops[j].label \in DOMAIN table'
  <2>1. CASE j = i
    BY <1>6, <1>12, <2>1 DEF Placing
  <2>2. CASE j # i
    <3>1. j \in 1 .. i - 1
      BY <1>2, <2>2
    <3>2. ops[j].label \in DOMAIN table
      BY <1>3, <1>12, <3>1 DEF Known
    <3> QED
      BY <1>6, <3>2 DEF Placing
  <2> QED
    BY <2>1, <2>2
<1>13. Known(i)'
  <2>1. i' - 1 = i
    BY <1>1, <1>2
  <2>2. \A l \in DOMAIN table' :
          \E j \in 1 .. i' - 1 :
            /\ IsDest(ops'[j]) /\ ops'[j].label = l /\ table'[l] = pcs1'[j]
            /\ \A m \in j + 1 .. i' - 1 : ~(IsDest(ops'[m]) /\ ops'[m].label = l)
    <3> TAKE l \in DOMAIN table'
    <3>1. PICK j \in 1 .. i :
            /\ IsDest(ops[j]) /\ ops[j].label = l /\ table'[l] = pcs1'[j]
            /\ \A m \in j + 1 .. i : ~(IsDest(ops[m]) /\ ops[m].label = l)
      BY <1>11
    <3>2. \A m \in j + 1 .. i' - 1 : ~(IsDest(ops'[m]) /\ ops'[m].label = l)
      BY <1>1, <2>1, <3>1
    <3>3. j \in 1 .. i' - 1 /\ IsDest(ops'[j]) /\ ops'[j].label = l
      BY <1>1, <2>1, <3>1
    <3> QED
      BY <3>1, <3>2, <3>3
  <2>3. \A j \in 1 .. i' - 1 : IsDest(ops'[j]) => ops'[j].label \in DOMAIN table'
    BY <1>1, <1>12, <2>1, Zenon
  <2> QED
    BY <2>2, <2>3 DEF Known
<1>14. TypeOK'
  BY <1>1, <1>2, <1>6, <1>8 DEF IInv, TypeOK, TableType, Placing, Longer, FirstPass
<1> QED
  BY <1>1, <1>2, <1>3, <1>10, <1>13, <1>14 DEF IInv

LEMMA SecondPassInv == IInv /\ SecondPass => IInv'
<1> SUFFICES ASSUME IInv, SecondPass PROVE IInv'
  OBVIOUS
<1>1. /\ phase = "pass2" /\ i <= Len(ops) /\ phase' = "pass2" /\ i' = i + 1 /\ ops' = ops
      /\ table' = table /\ scratch_pad' = scratch_pad /\ pcs1' = pcs1 /\ profile' = profile
  BY DEF SecondPass
<1>2. /\ i \in Nat /\ 1 <= i /\ i \in 1 .. Len(ops) /\ ops[i] \in Op
      /\ ops \in Seq(Op) /\ Len(ops) \in Nat /\ TableType(table)
  BY <1>1, Walking
<1>3. /\ out \in Seq(Byte) /\ pcs2 \in Seq(Nat) /\ Chain(pcs2, out, i) /\ Resolved(i)
      /\ Chain(pcs1, scratch_pad, Len(ops) + 1) /\ Known(Len(ops) + 1)
  BY <1>1 DEF IInv, TypeOK
<1>4. /\ ~Asserts(ops[i], table)
      /\ out' = out \o Emit(ops[i], table)
      /\ pcs2' = Append(pcs2, Len(out'))
  BY DEF SecondPass
<1>5. /\ Emit(ops[i], table) \in Seq(Byte) /\ Len(Emit(ops[i], table)) = Size(ops[i])
      /\ Size(ops[i]) \in Nat
  BY <1>2, EmitType
<1>6. Longer(pcs2', out', pcs2, i)
  BY <1>2, <1>3, <1>4, <1>5, ChainStep
<1>7. Chain(pcs2, out, i)'
  BY <1>1, <1>6 DEF Longer, Chain
<1>8. \A j \in 1 .. i + 1 : pcs2'[j] = pcs1[j]
  <2>1. \A j \in 1 .. i : pcs2'[j] = pcs1[j]
    BY <1>3, <1>6 DEF Longer, Resolved
  <2>2. pcs2'[i + 1] = pcs2[i] + Size(ops[i]) /\ pcs2[i] = pcs1[i]
    BY <1>2, <1>3, <1>6 DEF Longer, Resolved
  <2>3. pcs1[i + 1] = pcs1[i] + Size(ops[i])
    BY <1>2, <1>3 DEF Chain
  <2> QED
    BY <1>2, <2>1, <2>2, <2>3
<1>9. /\ Len(out) \in Nat /\ Len(out') = Len(out) + Size(ops[i])
      /\ \A k \in 1 .. Len(out) : out'[k] = out[k]
      /\ \A k \in 1 .. Size(ops[i]) : out'[Len(out) + k] = Emit(ops[i], table)[k]
  <2>1. PICK e \in Seq(Byte) : e = Emit(ops[i], table) /\ Len(e) = Size(ops[i]) /\ out' = out \o e
    BY <1>4, <1>5
  <2> QED
    BY <1>3, <2>1, Extend, LenProperties
<1>10. ASSUME NEW j \in 1 .. i
       PROVE  /\ pcs2'[j] + Size(ops[j]) <= Len(out')
              /\ \A k \in 1 .. Size(ops[j]) : out'[pcs2'[j] + k] = Emit(ops[j], table)[k]
              /\ ~Asserts(ops[j], table)
  <2>1. pcs2'[j] = pcs2[j]
    BY <1>6 DEF Longer
  <2>2. CASE j = i
    <3>1. pcs2[i] = Len(out)
      BY <1>3 DEF Chain
    <3>2. pcs2'[i] = Len(out)
      BY <2>1, <2>2, <3>1
    <3>3. pcs2'[i] + Size(ops[i]) <= Len(out')
      BY <1>5, <1>9, <3>2
    <3>4. \A k \in 1 .. Size(ops[i]) : out'[pcs2'[i] + k] = Emit(ops[i], table)[k]
      BY <1>9, <3>2, Zenon
    <3> QED
      BY <1>4, <2>2, <3>3, <3>4, Zenon
  <2>3. CASE j # i
    <3>1. j \in 1 .. i - 1
      BY <1>2, <2>3
    <3>2. /\ pcs2[j] + Size(ops[j]) <= Len(out)
          /\ \A k \in 1 .. Size(ops[j]) : out[pcs2[j] + k] = Emit(ops[j], table)[k]
          /\ ~Asserts(ops[j], table)
      BY <1>3, <3>1 DEF Resolved
    <3>3. pcs2[j] \in Nat /\ Size(ops[j]) \in Nat
      <4>1. ops[j] \in Op /\ j \in 1 .. Len(pcs2)
        BY <1>2, <1>3, ElementOfSeq DEF Chain
      <4> QED
        BY <1>2, <1>3, <4>1, EmitType, ElementOfSeq
    <3>4. ASSUME NEW k \in 1 .. Size(ops[j])
          PROVE  pcs2[j] + k \in 1 .. Len(out)
      BY <1>9, <3>2, <3>3
    <3>5. pcs2[j] + Size(ops[j]) <= Len(out')
      BY <1>5, <1>9, <3>2, <3>3
    <3> QED
      BY <1>9, <2>1, <3>2, <3>4, <3>5
  <2> QED
    BY <2>2, <2>3
<1>11. Resolved(i)'
  <2>1. i' - 1 = i
    BY <1>1, <1>2
  <2>2. \A j \in 1 .. i' : pcs2'[j] = pcs1'[j]
    BY <1>1, <1>8
  <2>3. \A j \in 1 .. i' - 1 :
          /\ pcs2'[j] + Size(ops'[j]) <= Len(out')
          /\ \A k \in 1 .. Size(ops'[j]) : out'[pcs2'[j] + k] = Emit(ops'[j], table')[k]
          /\ ~Asserts(ops[j], table)'
    BY <1>1, <1>10, <2>1 DEF Asserts
  <2> QED
    BY <2>2, <2>3 DEF Resolved
<1>12. Known(Len(ops) + 1)' /\ Chain(pcs1, scratch_pad, Len(ops) + 1)'
  BY <1>1, <1>3 DEF Known, Chain
<1>13. TypeOK'
  BY <1>1, <1>2, <1>6 DEF IInv, TypeOK, Longer, SecondPass
<1> QED
  BY <1>1, <1>2, <1>7, <1>11, <1>12, <1>13 DEF IInv

LEMMA NextInv == IInv /\ [Next]_vars => IInv'
<1> SUFFICES ASSUME IInv, [Next]_vars PROVE IInv'
  OBVIOUS
<1> USE DEF IInv, TypeOK
<1>1. CASE FreshLabel
  BY <1>1 DEF FreshLabel
<1>2. CASE \E o \in Vocabulary : AddOp(o)
  <2>1. PICK o \in Vocabulary : AddOp(o)
    BY <1>2
  <2>2. o \in Op
    BY Parameters
  <2>3. Append(ops, o) \in Seq(Op)
    BY <2>2
  <2> QED
    BY <2>1, <2>3 DEF AddOp
<1>3. CASE Finish
  <2>1. Len(ops) \in Nat /\ Len(ops') = Len(ops) /\ i' = 1 /\ i' \in 1 .. Len(ops) + 1
    BY <1>3, LenProperties DEF Finish
  <2>2. pcs1' = <<0>> /\ pcs1' \in Seq(Nat) /\ scratch_pad' = <<>> /\ table' = <<>> /\ out' = <<>>
    BY <1>3 DEF Finish
  <2>3. Chain(pcs1, scratch_pad, i)'
    BY <2>1, <2>2 DEF Chain
  <2>4. Known(i)'
    BY <2>1, <2>2 DEF Known
  <2>5. TypeOK'
    BY <1>3, <2>1, <2>2 DEF Finish, Phase
  <2>6. phase' = "pass1"
    BY <1>3 DEF Finish
  <2> HIDE DEF TypeOK
  <2> QED
    BY <2>1, <2>2, <2>3, <2>4, <2>5, <2>6
<1>4. CASE FirstPass
  BY <1>4, FirstPassInv
<1>5. CASE TableBuilt
  <2>1. /\ Len(ops) \in Nat /\ ops' = ops /\ i' = 1 /\ i' \in 1 .. Len(ops) + 1
        /\ i = Len(ops) + 1 /\ phase = "pass1" /\ phase' = "pass2"
        /\ pcs1' = pcs1 /\ scratch_pad' = scratch_pad /\ table' = table
    BY <1>5, LenProperties DEF TableBuilt
  <2>2. pcs2' = <<0>> /\ pcs2' \in Seq(Nat) /\ out' = <<>>
    BY <1>5 DEF TableBuilt
  <2>3. Chain(pcs2, out, i)'
    BY <2>1, <2>2 DEF Chain
  <2>4. pcs1[1] = 0
    BY <2>1 DEF Chain
  <2>5. Resolved(i)'
    BY <2>1, <2>2, <2>4 DEF Resolved
  <2>6. Chain(pcs1, scratch_pad, Len(ops) + 1)' /\ Known(Len(ops) + 1)'
    BY <2>1 DEF Chain, Known
  <2>7. TypeOK'
    BY <1>5, <2>1, <2>2 DEF TableBuilt, Phase
  <2> HIDE DEF TypeOK
  <2> QED
    BY <2>1, <2>3, <2>5, <2>6, <2>7
<1>6. CASE SecondPass
  BY <1>6, SecondPassInv
<1>7. CASE Assembled
  BY <1>7 DEF Assembled, Phase, Chain, Known, Resolved, Asserts
<1>8. CASE Panic
  BY <1>8 DEF Panic, Phase
<1>9. CASE UNCHANGED vars
  BY <1>9 DEF vars, Chain, Known, Resolved, Asserts
<1> QED
  BY <1>1, <1>2, <1>3, <1>4, <1>5, <1>6, <1>7, <1>8, <1>9 DEF Next

LEMMA Invariance == Spec => []IInv
<1>1. Init => IInv
  BY InitInv
<1>2. IInv /\ [Next]_vars => IInv'
  BY NextInv
<1> QED
  BY <1>1, <1>2, PTL DEF Spec

----------------------------------------------------------------------------
(* The assembler's state stays well typed: in particular no op it can be   *)
(* given makes it emit anything but bytes.                                 *)
THEOREM Typing == Spec => []TypeOK
<1>1. IInv => TypeOK
  BY DEF IInv
<1> QED
  BY <1>1, Invariance, PTL

(* "the jump is fixed-width (4 bytes), so PCs don't depend on it"          *)
(* (asm.rs:89): whatever the ops, the second pass meets every op at the pc *)
(* the first pass had met it at.                                           *)
THEOREM Agreement == Spec => []PassesAgree
<1>1. IInv => PassesAgree
  BY DEF IInv, PassesAgree, Resolved
<1> QED
  BY <1>1, Invariance, PTL

(* Whatever the ops, each jump of the code finish() returns goes to the    *)
(* offset of a JUMPDEST of the label it names, if that label is placed and *)
(* the offsets fit PUSH2 (or the build checks that they do).               *)
THEOREM Landing == Spec => []JumpsLand
<1>1. ASSUME IInv
      PROVE  JumpsLand
  <2> SUFFICES ASSUME phase = "done", profile = "debug" \/ Len(out) <= PcRange,
                      NEW j \in 1 .. Len(ops), IsJump(ops[j]), ops[j].label \in Placed
               PROVE  LET dest == TargetAt(pcs2[j])
                      IN  /\ dest < Len(out) /\ out[dest + 1] = 91
                          /\ \E k \in 1 .. Len(ops) :
                               /\ IsDest(ops[k]) /\ ops[k].label = ops[j].label
                               /\ pcs2[k] = dest
    BY DEF JumpsLand
  <2> DEFINE l == ops[j].label
  <2>1. /\ ops \in Seq(Op) /\ Len(ops) \in Nat /\ i = Len(ops) + 1 /\ TableType(table)
        /\ Known(Len(ops) + 1) /\ Chain(pcs2, out, Len(ops) + 1) /\ Resolved(Len(ops) + 1)
        /\ pcs2 \in Seq(Nat) /\ out \in Seq(Byte)
    BY <1>1, LenProperties DEF IInv, TypeOK, TableType
  <2>2. l \in DOMAIN table
    BY <2>1, SMTT(30) DEF Known, Placed
  <2>3. PICK k \in 1 .. Len(ops) : IsDest(ops[k]) /\ ops[k].label = l /\ table[l] = pcs1[k]
    <3>1. (Len(ops) + 1) - 1 = Len(ops)
      BY <2>1
    <3>2. \E k \in 1 .. (Len(ops) + 1) - 1 : IsDest(ops[k]) /\ ops[k].label = l /\ table[l] = pcs1[k]
      BY <2>1, <2>2, Zenon DEF Known
    <3> HIDE DEF l
    <3> QED
      BY <3>1, <3>2
  <2>4. LookUp(table, l) = pcs2[k]
    BY <2>1, <2>2, <2>3 DEF LookUp, Resolved
  <2>5. Size(ops[k]) = 1 /\ Emit(ops[k], table)[1] = 91 /\ Size(ops[j]) = 4
    BY <2>3 DEF Size, Emit, Single, IsDest, IsJump
  <2>6. pcs2[k] \in Nat /\ pcs2[j] \in Nat
    BY <2>1, ElementOfSeq DEF Chain
  <2>7. pcs2[k] + 1 <= Len(out) /\ out[pcs2[k] + 1] = 91
    <3>1. k \in 1 .. (Len(ops) + 1) - 1
      BY <2>1
    <3>2. /\ pcs2[k] + Size(ops[k]) <= Len(out)
          /\ \A b \in 1 .. Size(ops[k]) : out[pcs2[k] + b] = Emit(ops[k], table)[b]
      BY ONLY <2>1, <3>1 DEF Resolved
    <3>3. 1 \in 1 .. Size(ops[k])
      BY <2>5
    <3>4. out[pcs2[k] + 1] = Emit(ops[k], table)[1]
      BY <3>2, <3>3
    <3> QED
      BY ONLY <2>5, <3>2, <3>4
  <2>8. Len(out) \in Nat
    BY <2>1, LenProperties
  <2>9. LookUp(table, l) < PcRange
    <3>1. PcRange \in Nat
      BY Parameters
    <3>2. CASE profile = "debug"
      BY <2>1, <2>4, <2>6, <3>1, <3>2 DEF Resolved, Asserts, Overflows
    <3>3. CASE Len(out) <= PcRange
      BY <2>4, <2>6, <2>7, <2>8, <3>1, <3>3
    <3> QED
      BY <3>2, <3>3
  <2>10. \A b \in 1 .. 4 : out[pcs2[j] + b] = Emit(ops[j], table)[b]
    BY <2>1, <2>5 DEF Resolved
  <2>11. 256 * Emit(ops[j], table)[2] + Emit(ops[j], table)[3] = LookUp(table, l)
    <3>1. ops[j] \in Op
      BY <2>1, ElementOfSeq
    <3> QED
      BY <2>1, <2>9, <3>1, JumpBytes
  <2>12. TargetAt(pcs2[j]) = pcs2[k]
    BY <2>4, <2>10, <2>11 DEF TargetAt
  <2> QED
    BY <2>3, <2>6, <2>7, <2>8, <2>12
<1> QED
  BY <1>1, Invariance, PTL

----------------------------------------------------------------------------
(* The assembler as a linker.                                              *)

(* The linker's view of the ops.                                           *)
LEMMA Mapped ==
  ASSUME ops \in Seq(Op)
  PROVE  /\ Promise!Jumps = {j \in 1 .. Len(ops) : IsJump(ops[j])}
         /\ \A l : Promise!Places(l) = {k \in 1 .. Len(ops) : IsDest(ops[k]) /\ ops[k].label = l}
         /\ \A j \in 1 .. Len(ops) : IsJump(ops[j]) => ItemOf(ops[j]).label = ops[j].label
         /\ \A s, n : n \in 0 .. Len(ops) /\ Len(s) = n + 1 /\ s[1] = 0
                        /\ (\A k \in 1 .. n : s[k + 1] = s[k] + Size(ops[k])) => Promise!Laid(s, n)
<1> DEFINE items == [j \in 1 .. Len(ops) |-> ItemOf(ops[j])]
<1>1. Len(ops) \in Nat /\ Len(items) = Len(ops)
  BY LenProperties
<1>2. \A j \in 1 .. Len(ops) :
        /\ items[j].kind = "jump" <=> IsJump(ops[j])
        /\ items[j].kind = "dest" <=> IsDest(ops[j])
        /\ IsJump(ops[j]) \/ IsDest(ops[j]) => items[j].label = ops[j].label
        /\ items[j].size = Size(ops[j])
  BY DEF ItemOf, IsJump, IsDest
<1>3. Promise!Jumps = {j \in 1 .. Len(ops) : IsJump(ops[j])}
  BY <1>1, <1>2 DEF Promise!Jumps
<1>4. \A l : Promise!Places(l) = {k \in 1 .. Len(ops) : IsDest(ops[k]) /\ ops[k].label = l}
  BY <1>1, <1>2 DEF Promise!Places
<1>5. \A j \in 1 .. Len(ops) : IsJump(ops[j]) => ItemOf(ops[j]).label = ops[j].label
  BY DEF ItemOf
<1>6. ASSUME NEW s, NEW n \in 0 .. Len(ops), Len(s) = n + 1, s[1] = 0,
             \A k \in 1 .. n : s[k + 1] = s[k] + Size(ops[k])
      PROVE  Promise!Laid(s, n)
  <2>1. \A k \in 1 .. n : s[k + 1] = s[k] + items[k].size
    BY <1>1, <1>2, <1>6
  <2> QED
    BY <1>6, <2>1 DEF Promise!Laid
<1> QED
  BY <1>3, <1>4, <1>5, <1>6

(* What a jump's label stands for, once the ops before n are in the table. *)
LEMMA Stands ==
  ASSUME IInv, NEW n \in 1 .. Len(ops) + 1, Known(n), NEW l, ops \in Seq(Op)
  PROVE  \/ /\ LookUp(table, l) = 0
            /\ \A k \in 1 .. n - 1 : ~(IsDest(ops[k]) /\ ops[k].label = l)
         \/ \E k \in 1 .. n - 1 :
              /\ IsDest(ops[k]) /\ ops[k].label = l /\ LookUp(table, l) = pcs1[k]
              /\ \A m \in 1 .. n - 1 : IsDest(ops[m]) /\ ops[m].label = l => m <= k
<1>1. CASE l \in DOMAIN table
  <2>1. PICK k \in 1 .. n - 1 :
          /\ IsDest(ops[k]) /\ ops[k].label = l /\ table[l] = pcs1[k]
          /\ \A m \in k + 1 .. n - 1 : ~(IsDest(ops[m]) /\ ops[m].label = l)
    BY <1>1 DEF Known
  <2>2. \A m \in 1 .. n - 1 : m <= k \/ m \in k + 1 .. n - 1
    BY LenProperties
  <2>3. \A m \in 1 .. n - 1 : IsDest(ops[m]) /\ ops[m].label = l => m <= k
    BY <2>1, <2>2
  <2> QED
    BY <1>1, <2>1, <2>3 DEF LookUp
<1>2. CASE l \notin DOMAIN table
  BY <1>2 DEF Known, LookUp
<1> QED
  BY <1>1, <1>2

(* Where a finished jump goes.                                             *)
LEMMA Operands ==
  ASSUME IInv, phase = "pass2", i = Len(ops) + 1, NEW j \in 1 .. Len(ops), IsJump(ops[j])
  PROVE  /\ TargetAt(pcs2[j]) = LookUp(table, ops[j].label) % PcRange
         /\ profile = "debug" => LookUp(table, ops[j].label) < PcRange
<1>1. /\ ops \in Seq(Op) /\ Len(ops) \in Nat /\ TableType(table) /\ Resolved(Len(ops) + 1)
  BY LenProperties DEF IInv, TypeOK, TableType
<1>2. Size(ops[j]) = 4 /\ ops[j] \in Op
  BY <1>1, ElementOfSeq DEF Size, IsJump
<1>3. /\ \A b \in 1 .. Size(ops[j]) : out[pcs2[j] + b] = Emit(ops[j], table)[b]
      /\ ~Asserts(ops[j], table)
  BY <1>1 DEF Resolved
<1>4. TargetAt(pcs2[j]) = 256 * Emit(ops[j], table)[2] + Emit(ops[j], table)[3]
  BY <1>2, <1>3 DEF TargetAt
<1>5. TargetAt(pcs2[j]) = LookUp(table, ops[j].label) % PcRange
  BY <1>1, <1>2, <1>4, JumpBytes DEF AsU16
<1>6. LookUp(table, ops[j].label) \in Nat /\ PcRange \in Nat
  BY <1>1, LookUpType, Parameters
<1>7. profile = "debug" => LookUp(table, ops[j].label) < PcRange
  BY <1>3, <1>6 DEF Asserts, Overflows
<1> QED
  BY <1>5, <1>7

(* An op that is added is an item that is given.                           *)
LEMMA AddingGives ==
  ASSUME IInv, NEW o \in Vocabulary, AddOp(o)
  PROVE  \E x \in {ItemOf(v) : v \in Vocabulary} : Promise!Give(x)
<1>1. o \in Op /\ ops \in Seq(Op) /\ ops' = Append(ops, o) /\ phase = "build" /\ phase' = phase
  BY Parameters DEF IInv, TypeOK, AddOp
<1>2. /\ Len(ops) \in Nat /\ Len(ops') = Len(ops) + 1 /\ ops'[Len(ops) + 1] = o
      /\ \A j \in 1 .. Len(ops) : ops'[j] = ops[j]
  BY <1>1, AppendProperties, LenProperties
<1> DEFINE items == [j \in 1 .. Len(ops) |-> ItemOf(ops[j])]
<1>3. items' = Append(items, ItemOf(o))
  <2>1. PICK S : S = {ItemOf(v) : v \in Op}
    OBVIOUS
  <2>2. \A j \in 1 .. Len(ops) : ItemOf(ops[j]) \in S
    BY <1>1, <2>1, ElementOfSeq
  <2>3. items \in Seq(S) /\ Len(items) = Len(ops) /\ ItemOf(o) \in S
    BY <1>1, <1>2, <2>1, <2>2
  <2>4. \A j \in 1 .. Len(ops) + 1 : j \in 1 .. Len(ops) \/ j = Len(ops) + 1
    BY <1>2
  <2>5. items' = [j \in 1 .. Len(ops) + 1 |-> IF j \in 1 .. Len(ops) THEN ItemOf(ops[j]) ELSE ItemOf(o)]
    BY <1>2, <2>4
  <2>6. \A j \in 1 .. Len(ops) + 1 : items'[j] \in S
    BY <2>2, <2>3, <2>5
  <2>7. items' \in Seq(S) /\ Len(items') = Len(ops) + 1
    BY <1>2, <2>5, <2>6
  <2>8. /\ Append(items, ItemOf(o)) \in Seq(S) /\ Len(Append(items, ItemOf(o))) = Len(ops) + 1
        /\ \A j \in 1 .. Len(ops) : Append(items, ItemOf(o))[j] = items[j]
        /\ Append(items, ItemOf(o))[Len(ops) + 1] = ItemOf(o)
    BY <2>3, AppendProperties
  <2>9. \A j \in 1 .. Len(ops) + 1 : items'[j] = Append(items, ItemOf(o))[j]
    BY <1>2, <2>4, <2>5, <2>8
  <2> HIDE DEF items
  <2> QED
    BY <2>7, <2>8, <2>9, SeqEqual
<1>4. Promise!Give(ItemOf(o))
  BY <1>1, <1>3 DEF Promise!Give, AddOp
<1> QED
  BY <1>4

(* The end of the second pass is the linker's step.                        *)
LEMMA AssemblingLinks ==
  ASSUME IInv, Assembled
  PROVE  Promise!Link
<1>1. /\ phase = "pass2" /\ phase' = "done" /\ i = Len(ops) + 1 /\ ops' = ops /\ pcs2' = pcs2
      /\ out' = out /\ profile' = profile
  BY DEF Assembled
<1>2. /\ ops \in Seq(Op) /\ Len(ops) \in Nat /\ Known(Len(ops) + 1) /\ Chain(pcs2, out, Len(ops) + 1)
      /\ Resolved(Len(ops) + 1)
  BY <1>1, LenProperties DEF IInv, TypeOK
<1>3. /\ Promise!Jumps = {j \in 1 .. Len(ops) : IsJump(ops[j])}
      /\ \A l : Promise!Places(l) = {k \in 1 .. Len(ops) : IsDest(ops[k]) /\ ops[k].label = l}
      /\ \A j \in 1 .. Len(ops) : IsJump(ops[j]) => ItemOf(ops[j]).label = ops[j].label
  BY <1>2, Mapped
<1>4. Promise!Laid(pcs2, Len(ops))
  <2>1. /\ Len(ops) \in 0 .. Len(ops) /\ Len(pcs2) = Len(ops) + 1 /\ pcs2[1] = 0
        /\ \A k \in 1 .. Len(ops) : pcs2[k + 1] = pcs2[k] + Size(ops[k])
    BY <1>2 DEF Chain
  <2> QED
    BY <1>2, <2>1, Mapped
<1> DEFINE to == [j \in {k \in 1 .. Len(ops) : IsJump(ops[k])} |-> TargetAt(pcs2[j])]
<1>5. ASSUME NEW j \in Promise!Jumps, NEW l, l = ops[j].label
      PROVE  /\ Promise!Places(l) = {} => to[j] = 0
             /\ Promise!Places(l) # {} =>
                  \E k \in Promise!Final(l) :
                    to[j] = pcs2[k] % PcRange /\ (profile = "debug" => pcs2[k] < PcRange)
  <2>1. j \in 1 .. Len(ops) /\ IsJump(ops[j])
    BY <1>3
  <2>2. /\ to[j] = LookUp(table, l) % PcRange
        /\ profile = "debug" => LookUp(table, l) < PcRange
    BY <1>1, <1>5, <2>1, Operands
  <2>3. Len(ops) + 1 \in 1 .. Len(ops) + 1 /\ Len(ops) + 1 - 1 = Len(ops)
    BY <1>2
  <2>4. \/ /\ LookUp(table, l) = 0
           /\ \A k \in 1 .. Len(ops) : ~(IsDest(ops[k]) /\ ops[k].label = l)
        \/ \E k \in 1 .. Len(ops) :
             /\ IsDest(ops[k]) /\ ops[k].label = l /\ LookUp(table, l) = pcs1[k]
             /\ \A m \in 1 .. Len(ops) : IsDest(ops[m]) /\ ops[m].label = l => m <= k
    <3>1. PICK n : n = Len(ops) + 1
      OBVIOUS
    <3>2. n \in 1 .. Len(ops) + 1 /\ Known(n) /\ n - 1 = Len(ops)
      BY <1>2, <2>3, <3>1
    <3> HIDE DEF Known, IInv
    <3> QED
      BY <1>2, <3>2, Stands
  <2>5. CASE /\ LookUp(table, l) = 0
             /\ \A k \in 1 .. Len(ops) : ~(IsDest(ops[k]) /\ ops[k].label = l)
    <3>1. Promise!Places(l) = {}
      BY <1>3, <2>5
    <3>2. to[j] = 0
      <4>1. PcRange \in Nat \ {0}
        BY Parameters
      <4>2. 0 % PcRange = 0
        <5>1. 0 \in Nat /\ 0 < PcRange
          BY <4>1
        <5> QED
          BY <4>1, <5>1, Remainder
      <4> QED
        BY <2>2, <2>5, <4>2
    <3> QED
      BY <3>1, <3>2
  <2>6. CASE \E k \in 1 .. Len(ops) :
               /\ IsDest(ops[k]) /\ ops[k].label = l /\ LookUp(table, l) = pcs1[k]
               /\ \A m \in 1 .. Len(ops) : IsDest(ops[m]) /\ ops[m].label = l => m <= k
    <3>1. PICK k \in 1 .. Len(ops) :
            /\ IsDest(ops[k]) /\ ops[k].label = l /\ LookUp(table, l) = pcs1[k]
            /\ \A m \in 1 .. Len(ops) : IsDest(ops[m]) /\ ops[m].label = l => m <= k
      BY <2>6
    <3>2. pcs1[k] = pcs2[k]
      BY <1>2 DEF Resolved
    <3>3. k \in Promise!Places(l) /\ \A m \in Promise!Places(l) : m <= k
      BY <1>3, <3>1
    <3>4. k \in Promise!Final(l)
      BY <3>3 DEF Promise!Final
    <3> QED
      BY <2>2, <3>1, <3>2, <3>3, <3>4
  <2> QED
    BY <2>4, <2>5, <2>6
<1> DEFINE items == [j \in 1 .. Len(ops) |-> ItemOf(ops[j])]
           at == IF phase = "done" THEN pcs2 ELSE IF phase = "panicked" THEN pcs1 ELSE <<>>
           goes == IF phase = "done" THEN to ELSE <<>>
<1>6. at' = pcs2 /\ goes' = to /\ items' = items /\ Len(items) = Len(ops)
  BY <1>1, <1>2 DEF TargetAt
<1>7. \A j \in Promise!Jumps : items[j].label = ops[j].label
  BY <1>3
<1>8. Promise!Laid(at', Len(items))
  BY <1>4, <1>6
<1>9. DOMAIN goes' = Promise!Jumps
  BY <1>3, <1>6
<1>10. \A j \in Promise!Jumps :
         /\ Promise!Places(items[j].label) = {} => goes'[j] = 0
         /\ Promise!Places(items[j].label) # {} =>
              \E k \in Promise!Final(items[j].label) :
                goes'[j] = at'[k] % PcRange /\ (profile = "debug" => at'[k] < PcRange)
  <2> HIDE DEF items, at, goes, to
  <2> QED
    BY <1>5, <1>6, <1>7
<1>11. UNCHANGED <<(profile = "debug"), items>>
  BY <1>1, <1>6
<1> QED
  BY <1>1, <1>8, <1>9, <1>10, <1>11 DEF Promise!Link

(* A debug build panics only where a linker refuses.                       *)
LEMMA PanickingRefuses ==
  ASSUME IInv, Panic
  PROVE  Promise!Refuse
<1>1. /\ phase \in {"pass1", "pass2"} /\ phase' = "panicked" /\ i <= Len(ops) /\ ops' = ops
      /\ pcs1' = pcs1 /\ profile' = profile /\ Asserts(ops[i], table)
  BY DEF Panic
<1>2. /\ i \in Nat /\ 1 <= i /\ i \in 1 .. Len(ops) /\ ops[i] \in Op
      /\ ops \in Seq(Op) /\ Len(ops) \in Nat /\ TableType(table)
  BY <1>1, Walking
<1>3. /\ Promise!Jumps = {j \in 1 .. Len(ops) : IsJump(ops[j])}
      /\ \A l : Promise!Places(l) = {k \in 1 .. Len(ops) : IsDest(ops[k]) /\ ops[k].label = l}
      /\ \A j \in 1 .. Len(ops) : IsJump(ops[j]) => ItemOf(ops[j]).label = ops[j].label
  BY <1>2, Mapped
<1>4. PICK l : l = ops[i].label
  OBVIOUS
<1>5. /\ profile = "debug" /\ IsJump(ops[i]) /\ LookUp(table, l) >= PcRange
      /\ PcRange \in Nat \ {0} /\ LookUp(table, l) \in Nat
  BY <1>1, <1>2, <1>4, LookUpType, Parameters DEF Asserts, Overflows
<1>6. PICK n \in 1 .. Len(ops) + 1 :
        Known(n) /\ Len(pcs1) = n /\ pcs1[1] = 0 /\ \A j \in 1 .. n - 1 : pcs1[j + 1] = pcs1[j] + Size(ops[j])
  <2>1. CASE phase = "pass1"
    <3>1. i \in 1 .. Len(ops) + 1 /\ Chain(pcs1, scratch_pad, i) /\ Known(i)
      BY <2>1 DEF IInv
    <3> HIDE DEF Known
    <3> QED
      BY <3>1 DEF Chain
  <2>2. CASE phase = "pass2"
    <3>1. Len(ops) + 1 \in 1 .. Len(ops) + 1 /\ Chain(pcs1, scratch_pad, Len(ops) + 1) /\ Known(Len(ops) + 1)
      BY <1>2, <2>2 DEF IInv
    <3> HIDE DEF Known
    <3> QED
      BY <3>1 DEF Chain
  <2> QED
    BY <1>1, <2>1, <2>2
<1>7. PICK k \in 1 .. n - 1 : IsDest(ops[k]) /\ ops[k].label = l /\ LookUp(table, l) = pcs1[k]
  <2>1. LookUp(table, l) # 0
    BY <1>5
  <2> QED
    BY <1>2, <1>6, <2>1, Stands
<1>8. n - 1 \in 0 .. Len(ops) /\ k <= n - 1 /\ k \in Promise!Places(l) /\ i \in Promise!Jumps
  BY <1>2, <1>3, <1>5, <1>6, <1>7
<1>9. Promise!Laid(pcs1, n - 1)
  <2>1. PICK m : m = n - 1
    OBVIOUS
  <2>2. m \in 0 .. Len(ops) /\ Len(pcs1) = m + 1 /\ \A j \in 1 .. m : pcs1[j + 1] = pcs1[j] + Size(ops[j])
    BY <1>6, <1>8, <2>1
  <2>3. Promise!Laid(pcs1, m)
    BY <1>2, <1>6, <2>2, Mapped
  <2> QED
    BY <2>1, <2>3
<1> DEFINE items == [j \in 1 .. Len(ops) |-> ItemOf(ops[j])]
           at == IF phase = "done" THEN pcs2 ELSE IF phase = "panicked" THEN pcs1 ELSE <<>>
           goes == IF phase = "done"
                   THEN [j \in {m \in 1 .. Len(ops) : IsJump(ops[m])} |-> TargetAt(pcs2[j])]
                   ELSE <<>>
<1>10. at' = pcs1 /\ goes' = goes /\ items' = items /\ Len(items) = Len(ops)
  BY <1>1, <1>2
<1>11. items[i].label = l
  BY <1>2, <1>3, <1>4, <1>5
<1>12. \E m \in 0 .. Len(items) :
         /\ Promise!Laid(at', m)
         /\ \E j \in Promise!Jumps : \E p \in Promise!Places(items[j].label) : p <= m /\ at'[p] >= PcRange
  <2> HIDE DEF items, at, goes
  <2> QED
    BY <1>5, <1>7, <1>8, <1>9, <1>10, <1>11
<1>13. UNCHANGED <<(profile = "debug"), items, goes>>
  BY <1>1, <1>10
<1> QED
  BY <1>1, <1>5, <1>12, <1>13 DEF Promise!Refuse

(* Whatever the ops, finish() is a linker: in the code it returns, each op *)
(* is behind the one before it, and each jump goes to where its label was  *)
(* placed last; and it panics if and only if that cannot be.               *)
THEOREM Linked == Spec => Linking
<1>1. Init => Promise!Init
  BY DEF Init, Promise!Init
<1>2. ASSUME IInv, [Next]_vars
      PROVE  [Promise!Next]_(Promise!vars)
  <2>1. CASE \E o \in Vocabulary : AddOp(o)
    BY <1>2, <2>1, AddingGives DEF Promise!Next
  <2>2. CASE Assembled
    BY <1>2, <2>2, AssemblingLinks DEF Promise!Next
  <2>3. CASE Panic
    BY <1>2, <2>3, PanickingRefuses DEF Promise!Next
  <2>4. CASE FreshLabel \/ Finish \/ FirstPass \/ TableBuilt \/ SecondPass \/ UNCHANGED vars
    <3>1. /\ ops' = ops /\ profile' = profile
          /\ \/ phase \notin {"done", "panicked"} /\ phase' \notin {"done", "panicked"}
             \/ UNCHANGED vars
      BY <2>4 DEF FreshLabel, Finish, FirstPass, TableBuilt, SecondPass, vars
    <3>2. CASE phase \notin {"done", "panicked"} /\ phase' \notin {"done", "panicked"}
      BY <3>1, <3>2 DEF Promise!vars
    <3>3. CASE UNCHANGED vars
      BY <3>3 DEF vars, Promise!vars, TargetAt
    <3> QED
      BY <3>1, <3>2, <3>3
  <2> QED
    BY <1>2, <2>1, <2>2, <2>3, <2>4 DEF Next
<1> QED
  BY <1>1, <1>2, Invariance, PTL DEF Spec, Linking, Promise!Spec

----------------------------------------------------------------------------
(* The EVM's reading of the code.                                          *)

LEMMA InstrLenType == \A b : InstrLen(b) \in Nat /\ InstrLen(b) > 0
BY DEF InstrLen

(* IsInstr is a recursive function: there is one that satisfies its        *)
(* equation, so IsInstr does.                                              *)
LEMMA IsInstrEquation ==
  \A p \in Nat :
    IsInstr[p] <=> p = 0 \/ \E q \in 0 .. p - 1 : IsInstr[q] /\ q + InstrLen(out[q + 1]) = p
<1> DEFINE Reads(f, p) == p = 0 \/ \E q \in 0 .. p - 1 : f[q] /\ q + InstrLen(out[q + 1]) = p
           Good(f) == f = [p \in Nat |-> Reads(f, p)]
           step == [q \in Nat |-> q + InstrLen(out[q + 1])]
<1>1. step \in [Nat -> Nat] /\ \A q \in Nat : q < step[q]
  BY InstrLenType
<1>2. \A q \in Nat : step[q] = q + InstrLen(out[q + 1])
  OBVIOUS
<1> HIDE DEF step
<1>3. PICK S \in SUBSET Nat :
        \A p \in Nat : p \in S <=> p = 0 \/ \E q \in 0 .. p - 1 : q \in S /\ step[q] = p
  BY <1>1, Reachable
<1> DEFINE g == [p \in Nat |-> p \in S]
<1>4. \A p \in Nat : g[p] = Reads(g, p)
  <2> SUFFICES ASSUME NEW p \in Nat
               PROVE  g[p] = Reads(g, p)
    OBVIOUS
  <2>1. \A q \in 0 .. p - 1 : (g[q] <=> q \in S) /\ step[q] = q + InstrLen(out[q + 1])
    <3>1. \A q \in 0 .. p - 1 : q \in Nat
      OBVIOUS
    <3>2. \A q \in Nat : g[q] = (q \in S)
      OBVIOUS
    <3> HIDE DEF g
    <3> QED
      BY <1>2, <3>1, <3>2, Zenon
  <2>2. g[p] = (p \in S)
    OBVIOUS
  <2>3. p \in S <=> p = 0 \/ \E q \in 0 .. p - 1 : q \in S /\ step[q] = p
    BY <1>3
  <2> HIDE DEF g
  <2>4. (p \in S) <=> Reads(g, p)
    BY <2>1, <2>3
  <2> QED
    BY <2>2, <2>4
<1>5. Good(g)
  <2>1. g = [p \in Nat |-> g[p]]
    OBVIOUS
  <2> HIDE DEF g
  <2> QED
    BY <1>4, <2>1
<1>6. IsInstr = CHOOSE f : Good(f)
  BY DEF IsInstr
<1> HIDE DEF Good
<1>7. Good(IsInstr)
  BY <1>5, <1>6
<1> QED
  <2>1. IsInstr = [p \in Nat |-> Reads(IsInstr, p)]
    BY <1>7 DEF Good
  <2> QED
    BY <2>1

(* What the first byte of an op tells an EVM: its length, or that it is a  *)
(* PUSH2 whose JUMP comes after it.  Only a JumpDest begins with JUMPDEST. *)
LEMMA FirstByte ==
  ASSUME NEW o \in Op, NEW tab, TableType(tab)
  PROVE  /\ Emit(o, tab)[1] = 91 <=> IsDest(o)
         /\ ~IsJump(o) => InstrLen(Emit(o, tab)[1]) = Size(o)
         /\ IsJump(o) => /\ InstrLen(Emit(o, tab)[1]) = 3 /\ Size(o) = 4
                         /\ Emit(o, tab)[4] # 91 /\ InstrLen(Emit(o, tab)[4]) = 1
<1>1. CASE o.op = "Push"
  <2>1. o.bytes \in Seq(Byte) /\ Len(o.bytes) \in Nat /\ Len(o.bytes) <= 32
    BY <1>1, PushType
  <2>2. Emit(o, tab)[1] = 95 + Len(o.bytes) /\ Size(o) = 1 + Len(o.bytes)
    BY <1>1, <2>1 DEF Emit, Size, PushCode
  <2>3. \A n \in Nat : n <= 32 => InstrLen(95 + n) = 1 + n
    BY DEF InstrLen
  <2>4. ~IsJump(o) /\ ~IsDest(o) /\ 95 + Len(o.bytes) # 91
    BY <1>1, <2>1 DEF IsJump, IsDest
  <2> QED
    BY <2>1, <2>2, <2>3, <2>4
<1>2. CASE IsJump(o)
  <2>1. PICK b \in {86, 87} : Emit(o, tab) = JumpCode(LookUp(tab, o.label), b)
    BY <1>2 DEF Emit, IsJump
  <2>2. Emit(o, tab)[1] = 97 /\ Emit(o, tab)[4] = b
    BY <2>1 DEF JumpCode
  <2>3. InstrLen(97) = 3 /\ InstrLen(b) = 1
    BY <2>1 DEF InstrLen
  <2>4. Size(o) = 4 /\ ~IsDest(o)
    BY <1>2 DEF Size, IsJump, IsDest
  <2> QED
    BY <1>2, <2>1, <2>2, <2>3, <2>4
<1>3. CASE o.op # "Push" /\ ~IsJump(o)
  <2>1. Emit(o, tab)[1] = Single(o) /\ Size(o) = 1
    BY <1>3 DEF Emit, Size
  <2>2. Single(o) = 91 <=> IsDest(o)
    <3>1. CASE o.op = "Simple"
      <4>1. o \in [op : {"Simple"}, byte : Byte \ ({91} \cup 96 .. 127)]
        BY <3>1 DEF Op
      <4> QED
        BY <3>1, <4>1 DEF Single, IsDest
    <3>2. CASE o.op \in {"Dup", "Swap"}
      <4>1. o \in [op : {"Dup", "Swap"}, n : 1 .. 16]
        BY <3>2 DEF Op
      <4> QED
        BY <3>2, <4>1 DEF Single, OpCode, IsDest
    <3>3. CASE o.op = "Log"
      <4>1. o \in [op : {"Log"}, n : 0 .. 4]
        BY <3>3 DEF Op
      <4> QED
        BY <3>3, <4>1 DEF Single, OpCode, IsDest
    <3>4. CASE IsDest(o)
      BY <3>4 DEF Single, IsDest
    <3> QED
      BY <1>3, <3>1, <3>2, <3>3, <3>4 DEF Op, IsJump, IsDest
  <2>3. Single(o) \notin 96 .. 127
    <3>1. CASE o.op = "Simple"
      <4>1. o \in [op : {"Simple"}, byte : Byte \ ({91} \cup 96 .. 127)]
        BY <3>1 DEF Op
      <4> QED
        BY <3>1, <4>1 DEF Single
    <3>2. CASE o.op \in {"Dup", "Swap"}
      <4>1. o \in [op : {"Dup", "Swap"}, n : 1 .. 16]
        BY <3>2 DEF Op
      <4> QED
        BY <3>2, <4>1 DEF Single, OpCode
    <3>3. CASE o.op = "Log"
      <4>1. o \in [op : {"Log"}, n : 0 .. 4]
        BY <3>3 DEF Op
      <4> QED
        BY <3>3, <4>1 DEF Single, OpCode
    <3>4. CASE IsDest(o)
      BY <3>4 DEF Single, IsDest
    <3> QED
      BY <1>3, <3>1, <3>2, <3>3, <3>4 DEF Op, IsJump, IsDest
  <2> QED
    BY <1>3, <2>1, <2>2, <2>3 DEF InstrLen
<1> QED
  BY <1>1, <1>2, <1>3

(* Where the ops of the assembled code start, and where the JUMPs that end *)
(* the jump ops do.                                                        *)
OpAt(p) == \E k \in 1 .. Len(ops) + 1 : p = pcs2[k]
JumpAt(p) == \E k \in 1 .. Len(ops) : IsJump(ops[k]) /\ p = pcs2[k] + 3

(* What the invariant says of op k of the assembled code.                  *)
LEMMA Assembly ==
  ASSUME IInv, phase = "done", NEW k \in 1 .. Len(ops)
  PROVE  /\ ops[k] \in Op /\ Size(ops[k]) \in Nat \ {0}
         /\ pcs2[k] \in Nat /\ pcs2[k + 1] \in Nat /\ Len(out) \in Nat
         /\ pcs2[k + 1] = pcs2[k] + Size(ops[k]) /\ pcs2[k + 1] <= Len(out)
         /\ (out[pcs2[k] + 1] = 91 <=> IsDest(ops[k]))
         /\ ~IsJump(ops[k]) => InstrLen(out[pcs2[k] + 1]) = Size(ops[k])
         /\ IsJump(ops[k]) => /\ InstrLen(out[pcs2[k] + 1]) = 3 /\ Size(ops[k]) = 4
                              /\ out[pcs2[k] + 4] # 91 /\ InstrLen(out[pcs2[k] + 4]) = 1
<1>1. /\ ops \in Seq(Op) /\ Len(ops) \in Nat /\ i = Len(ops) + 1 /\ TableType(table)
      /\ Chain(pcs2, out, Len(ops) + 1) /\ Resolved(Len(ops) + 1)
      /\ pcs2 \in Seq(Nat) /\ out \in Seq(Byte)
  BY LenProperties DEF IInv, TypeOK, TableType
<1>2. ops[k] \in Op /\ k \in 1 .. Len(pcs2) /\ k + 1 \in 1 .. Len(pcs2)
  BY <1>1, ElementOfSeq DEF Chain
<1>3. Size(ops[k]) \in Nat \ {0}
  BY <1>1, <1>2, EmitType
<1>4. pcs2[k] \in Nat /\ pcs2[k + 1] \in Nat /\ Len(out) \in Nat
  BY <1>1, <1>2, ElementOfSeq, LenProperties
<1>5. k \in 1 .. (Len(ops) + 1) - 1
  BY <1>1
<1>6. pcs2[k + 1] = pcs2[k] + Size(ops[k])
  BY ONLY <1>1, <1>5 DEF Chain
<1>7. /\ pcs2[k] + Size(ops[k]) <= Len(out)
      /\ \A b \in 1 .. Size(ops[k]) : out[pcs2[k] + b] = Emit(ops[k], table)[b]
  BY ONLY <1>1, <1>5 DEF Resolved
<1>8. /\ Emit(ops[k], table)[1] = 91 <=> IsDest(ops[k])
      /\ ~IsJump(ops[k]) => InstrLen(Emit(ops[k], table)[1]) = Size(ops[k])
      /\ IsJump(ops[k]) => /\ InstrLen(Emit(ops[k], table)[1]) = 3 /\ Size(ops[k]) = 4
                           /\ Emit(ops[k], table)[4] # 91
                           /\ InstrLen(Emit(ops[k], table)[4]) = 1
  BY <1>1, <1>2, FirstByte
<1>9. out[pcs2[k] + 1] = Emit(ops[k], table)[1]
  BY <1>3, <1>7
<1>10. IsJump(ops[k]) => out[pcs2[k] + 4] = Emit(ops[k], table)[4]
  BY <1>7, <1>8
<1> QED
  BY <1>2, <1>3, <1>4, <1>6, <1>7, <1>8, <1>9, <1>10, ZenonT(60)

(* Every op of the assembled code starts an instruction: an EVM that reads *)
(* from offset 0 comes past each of them.                                  *)
LEMMA OpsAreRead ==
  ASSUME IInv, phase = "done", NEW k \in 1 .. Len(ops) + 1
  PROVE  IsInstr[pcs2[k]]
<1> DEFINE Missed == {j \in 1 .. Len(ops) + 1 : ~IsInstr[pcs2[j]]}
<1> SUFFICES ASSUME Missed # {} PROVE FALSE
  OBVIOUS
<1>1. Len(ops) \in Nat /\ pcs2[1] = 0
  BY LenProperties DEF IInv, TypeOK, Chain
<1>2. PICK j \in Missed : \A n \in Missed : j <= n
  <2>1. Missed \subseteq Nat
    BY <1>1
  <2> HIDE DEF Missed
  <2> QED
    BY <2>1, Least
<1>3. IsInstr[0]
  BY IsInstrEquation
<1>4. j # 1
  BY <1>1, <1>2, <1>3
<1>5. j - 1 \in 1 .. Len(ops) /\ (j - 1) + 1 = j /\ IsInstr[pcs2[j - 1]]
  BY <1>1, <1>2, <1>4
<1> DEFINE m == j - 1
<1>6. m \in 1 .. Len(ops) /\ m + 1 = j /\ IsInstr[pcs2[m]] /\ ~IsInstr[pcs2[m + 1]]
  BY <1>2, <1>5
<1> HIDE DEF m
<1>7. /\ Size(ops[m]) \in Nat \ {0}
      /\ pcs2[m] \in Nat /\ pcs2[m + 1] \in Nat /\ Len(out) \in Nat
      /\ pcs2[m + 1] = pcs2[m] + Size(ops[m])
      /\ ~IsJump(ops[m]) => InstrLen(out[pcs2[m] + 1]) = Size(ops[m])
      /\ IsJump(ops[m]) => /\ InstrLen(out[pcs2[m] + 1]) = 3 /\ Size(ops[m]) = 4
                           /\ InstrLen(out[pcs2[m] + 4]) = 1
  BY <1>6, Assembly
<1>8. \A q \in Nat : IsInstr[q] => IsInstr[q + InstrLen(out[q + 1])]
  BY IsInstrEquation, InstrLenType
<1>9. CASE IsJump(ops[m])
  <2>1. IsInstr[pcs2[m] + 3]
    BY <1>6, <1>7, <1>8, <1>9
  <2>2. IsInstr[(pcs2[m] + 3) + InstrLen(out[(pcs2[m] + 3) + 1])]
    <3>1. PICK q : q = pcs2[m] + 3
      OBVIOUS
    <3>2. q \in Nat /\ IsInstr[q]
      BY <1>7, <2>1, <3>1
    <3>3. IsInstr[q + InstrLen(out[q + 1])]
      BY <1>8, <3>2, Zenon
    <3> QED
      BY <3>1, <3>3, Zenon
  <2>3. (pcs2[m] + 3) + 1 = pcs2[m] + 4 /\ (pcs2[m] + 3) + 1 = pcs2[m + 1]
    BY <1>7, <1>9
  <2>4. InstrLen(out[pcs2[m] + 4]) = 1
    BY <1>7, <1>9
  <2>5. IsInstr[(pcs2[m] + 3) + 1]
    BY <2>2, <2>3, <2>4
  <2> QED
    BY <1>6, <2>3, <2>5
<1>10. CASE ~IsJump(ops[m])
  BY <1>6, <1>7, <1>8, <1>10
<1> QED
  BY <1>9, <1>10

(* And nothing else does: an instruction starts an op or ends a jump.      *)
LEMMA OnlyOpsAreRead ==
  ASSUME IInv, phase = "done", NEW p \in 0 .. Len(out), IsInstr[p]
  PROVE  OpAt(p) \/ JumpAt(p)
<1> DEFINE Stray == {x \in 0 .. Len(out) : IsInstr[x] /\ ~OpAt(x) /\ ~JumpAt(x)}
<1> SUFFICES ASSUME Stray # {} PROVE FALSE
  OBVIOUS
<1>1. /\ Len(ops) \in Nat /\ Len(out) \in Nat /\ pcs2[1] = 0
      /\ pcs2[Len(ops) + 1] = Len(out)
  BY LenProperties DEF IInv, TypeOK, Chain
<1>2. PICK x \in Stray : \A y \in Stray : x <= y
  <2>1. Stray \subseteq Nat
    BY <1>1
  <2> HIDE DEF Stray
  <2> QED
    BY <2>1, Least
<1>3. x \in Nat /\ x <= Len(out) /\ IsInstr[x] /\ ~OpAt(x) /\ ~JumpAt(x)
  BY <1>1, <1>2
<1>4. x # 0
  <2>1. OpAt(0)
    BY <1>1 DEF OpAt
  <2> QED
    BY <1>3, <2>1
<1>5. PICK q \in 0 .. x - 1 : IsInstr[q] /\ q + InstrLen(out[q + 1]) = x
  BY <1>3, <1>4, IsInstrEquation
<1>6. q \in Nat /\ q < x /\ q < Len(out) /\ q \in 0 .. Len(out)
  BY <1>1, <1>3, <1>5
<1>7. OpAt(q) \/ JumpAt(q)
  BY <1>2, <1>3, <1>5, <1>6
<1> HIDE DEF Stray
<1>8. CASE OpAt(q)
  <2>1. PICK k \in 1 .. Len(ops) + 1 : q = pcs2[k]
    BY <1>8 DEF OpAt
  <2>2. k \in 1 .. Len(ops) /\ k + 1 \in 1 .. Len(ops) + 1
    BY <1>1, <1>6, <2>1
  <2>3. /\ pcs2[k] \in Nat /\ pcs2[k + 1] = pcs2[k] + Size(ops[k])
        /\ ~IsJump(ops[k]) => InstrLen(out[pcs2[k] + 1]) = Size(ops[k])
        /\ IsJump(ops[k]) => InstrLen(out[pcs2[k] + 1]) = 3
    BY <2>2, Assembly
  <2>4. CASE IsJump(ops[k])
    BY <1>3, <1>5, <2>1, <2>2, <2>3, <2>4 DEF JumpAt
  <2>5. CASE ~IsJump(ops[k])
    BY <1>3, <1>5, <2>1, <2>2, <2>3, <2>5 DEF OpAt
  <2> QED
    BY <2>4, <2>5
<1>9. CASE JumpAt(q)
  <2>1. PICK k \in 1 .. Len(ops) : IsJump(ops[k]) /\ q = pcs2[k] + 3
    BY <1>9 DEF JumpAt
  <2>2. /\ pcs2[k] \in Nat /\ pcs2[k + 1] = pcs2[k] + 4
        /\ InstrLen(out[pcs2[k] + 4]) = 1 /\ k + 1 \in 1 .. Len(ops) + 1
    BY <1>1, <2>1, Assembly
  <2>3. q + 1 = pcs2[k] + 4
    BY <2>1, <2>2
  <2>4. x = pcs2[k + 1]
    BY <1>5, <2>2, <2>3
  <2> QED
    BY <1>3, <2>2, <2>4 DEF OpAt
<1> QED
  BY <1>7, <1>8, <1>9

(* An EVM that reads the assembled code accepts jumps to the JUMPDESTs of  *)
(* the placed labels and to no other offset, whatever bytes the pushed     *)
(* constants and the jumps' operands hold.                                 *)
THEOREM Destinations == Spec => []DestinationsAgree
<1>1. ASSUME IInv
      PROVE  DestinationsAgree
  <2> SUFFICES ASSUME phase = "done"
               PROVE  {p \in 0 .. Len(out) - 1 : out[p + 1] = 91 /\ IsInstr[p]}
                        = {pcs2[k] : k \in {j \in 1 .. Len(ops) : IsDest(ops[j])}}
    BY DEF DestinationsAgree
  <2>1. /\ Len(ops) \in Nat /\ Len(out) \in Nat /\ pcs2[Len(ops) + 1] = Len(out)
    BY <1>1, LenProperties DEF IInv, TypeOK, Chain
  <2>2. ASSUME NEW p \in 0 .. Len(out) - 1, out[p + 1] = 91, IsInstr[p]
        PROVE  \E k \in 1 .. Len(ops) : IsDest(ops[k]) /\ p = pcs2[k]
    <3>1. p \in 0 .. Len(out) /\ p # Len(out) /\ p \in Nat
      BY <2>1
    <3>2. CASE OpAt(p)
      <4>1. PICK k \in 1 .. Len(ops) + 1 : p = pcs2[k]
        BY <3>2 DEF OpAt
      <4>2. k \in 1 .. Len(ops)
        BY <2>1, <3>1, <4>1
      <4>3. out[pcs2[k] + 1] = 91 <=> IsDest(ops[k])
        BY <1>1, <4>2, Assembly
      <4> QED
        BY <2>2, <4>1, <4>2, <4>3
    <3>3. CASE JumpAt(p)
      <4>1. PICK k \in 1 .. Len(ops) : IsJump(ops[k]) /\ p = pcs2[k] + 3
        BY <3>3 DEF JumpAt
      <4>2. pcs2[k] \in Nat /\ out[pcs2[k] + 4] # 91
        BY <1>1, <4>1, Assembly
      <4>3. p + 1 = pcs2[k] + 4
        BY <4>1, <4>2
      <4> QED
        BY <2>2, <4>2, <4>3
    <3> QED
      BY <1>1, <2>2, <3>1, <3>2, <3>3, OnlyOpsAreRead
  <2>3. ASSUME NEW k \in 1 .. Len(ops), IsDest(ops[k])
        PROVE  pcs2[k] \in 0 .. Len(out) - 1 /\ out[pcs2[k] + 1] = 91 /\ IsInstr[pcs2[k]]
    <3>1. /\ Size(ops[k]) \in Nat \ {0} /\ pcs2[k] \in Nat
          /\ pcs2[k + 1] = pcs2[k] + Size(ops[k]) /\ pcs2[k + 1] <= Len(out)
          /\ out[pcs2[k] + 1] = 91
      BY <1>1, <2>3, Assembly
    <3>2. k \in 1 .. Len(ops) + 1
      BY <2>1
    <3>3. IsInstr[pcs2[k]]
      BY <1>1, <3>2, OpsAreRead
    <3> QED
      BY <2>1, <3>1, <3>3
  <2> QED
    BY <2>2, <2>3
<1> QED
  BY <1>1, Invariance, PTL
============================================================================
