---------------------------- MODULE DeployProofs ----------------------------
(***************************************************************************)
(* The code that is deployed is the runtime, for every constructor         *)
(* signature, every runtime and constructor code and all arguments.        *)
(* ArrivalProofs is about the arguments.                                   *)
(***************************************************************************)
EXTENDS Deploy, SequenceTheorems, FiniteSetTheorems, TLAPS

LEMMA ByteRange == \A b : b \in Byte <=> b \in Nat /\ b < 256
BY DEF Byte

(* What the proofs assume of the constants.                                *)
LEMMA Parameters ==
  /\ Runtimes \subseteq Seq(Byte) /\ Constructors \subseteq Seq(Byte)
  /\ Signatures \subseteq Seq(Kind) /\ Values \subseteq Nat /\ CodeWord \in Nat
  /\ PcRange \in Nat \ {0} /\ PcRange <= 65536
  /\ \A t \in Texts : /\ t.len \in Nat /\ t.data \in Seq(Nat)
                      /\ Len(t.data) = (t.len + 31) \div 32
BY DeployAssumption DEF DeployAssumption, Text

(* How many of the first n parameters are strings, one more at a time.     *)
LEMMA StringsType ==
  ASSUME NEW p, NEW n \in Nat
  PROVE  /\ IsFiniteSet({j \in 1 .. n : p[j] = "string"})
         /\ StringsIn(p, n) \in Nat
<1>1. IsFiniteSet(1 .. n)
  BY FS_Interval
<1>2. IsFiniteSet({j \in 1 .. n : p[j] = "string"})
  BY <1>1, FS_Subset, {j \in 1 .. n : p[j] = "string"} \in SUBSET (1 .. n)
<1> QED
  BY <1>2, FS_CardinalityType DEF StringsIn

LEMMA StringsZero == \A p : StringsIn(p, 0) = 0
<1> SUFFICES ASSUME NEW p PROVE StringsIn(p, 0) = 0
  OBVIOUS
<1>1. {j \in 1 .. 0 : p[j] = "string"} = {}
  OBVIOUS
<1> QED
  BY <1>1, FS_EmptySet DEF StringsIn

LEMMA StringsStep ==
  ASSUME NEW p, NEW n \in Nat
  PROVE  StringsIn(p, n + 1) = IF p[n + 1] = "string" THEN StringsIn(p, n) + 1
                                                      ELSE StringsIn(p, n)
<1> DEFINE S == {j \in 1 .. n : p[j] = "string"}
           T == {j \in 1 .. n + 1 : p[j] = "string"}
<1>1. IsFiniteSet(S) /\ n + 1 \notin S
  BY StringsType
<1>2. T = IF p[n + 1] = "string" THEN S \cup {n + 1} ELSE S
  OBVIOUS
<1>3. Cardinality(S \cup {n + 1}) = Cardinality(S) + 1
  BY <1>1, FS_AddElement
<1> QED
  BY <1>2, <1>3 DEF StringsIn

LEMMA StringsMono ==
  ASSUME NEW p, NEW n \in Nat, NEW m \in Nat, m <= n
  PROVE  StringsIn(p, m) <= StringsIn(p, n)
<1>1. {j \in 1 .. m : p[j] = "string"} \in SUBSET {j \in 1 .. n : p[j] = "string"}
  OBVIOUS
<1> QED
  BY <1>1, StringsType, FS_Subset DEF StringsIn

(* A string among the first n has a number below their count.              *)
LEMMA StringsBelow ==
  ASSUME NEW p, NEW n \in Nat, NEW j \in 1 .. n, p[j] = "string"
  PROVE  /\ StringsIn(p, j) = StringsIn(p, j - 1) + 1
         /\ StringsIn(p, j - 1) + 1 <= StringsIn(p, n)
<1>1. j - 1 \in Nat /\ (j - 1) + 1 = j
  OBVIOUS
<1>2. StringsIn(p, j) = StringsIn(p, j - 1) + 1
  BY <1>1, StringsStep
<1>3. StringsIn(p, j) <= StringsIn(p, n)
  BY StringsMono
<1> QED
  BY <1>2, <1>3

----------------------------------------------------------------------------
(* The epilogue: its operands are the size of the runtime and its offset,  *)
(* as far as two bytes hold them.                                          *)

LEMMA Remainder ==
  ASSUME NEW n \in Nat \ {0}, NEW x \in Nat
  PROVE  x % n \in Nat /\ x % n < n /\ x % n <= x /\ (x < n => x % n = x)
<1>1. x = n * (x \div n) + (x % n)
  OBVIOUS
<1>2. x % n \in 0 .. n - 1
  OBVIOUS
<1>3. x \div n \in Nat
  OBVIOUS
<1>4. x < n => x \div n = 0
  BY <1>1, <1>2, <1>3
<1>5. n * (x \div n) \in Nat
  BY <1>3
<1>6. x % n <= x
  BY <1>1, <1>2, <1>5
<1> QED
  BY <1>1, <1>2, <1>4, <1>6

LEMMA TwoBytes ==
  ASSUME NEW n \in Nat
  PROVE  /\ Hi(n) \in Byte /\ Lo(n) \in Byte
         /\ 256 * Hi(n) + Lo(n) \in Nat /\ 256 * Hi(n) + Lo(n) <= n
         /\ n < PcRange => 256 * Hi(n) + Lo(n) = n
<1>1. PcRange \in Nat \ {0} /\ PcRange <= 65536
  BY Parameters
<1>2. /\ AsU16(n) \in Nat /\ AsU16(n) < PcRange /\ AsU16(n) <= n
      /\ n < PcRange => AsU16(n) = n
  <2>1. PcRange \in Nat \ {0}
    BY <1>1
  <2>2. /\ n % PcRange \in Nat /\ n % PcRange < PcRange /\ n % PcRange <= n
        /\ n < PcRange => n % PcRange = n
    BY <2>1, Remainder, Zenon
  <2> QED
    BY <2>2, Zenon DEF AsU16
<1>3. AsU16(n) < 65536
  BY <1>1, <1>2
<1>4. PICK hi, lo \in Nat : /\ hi = AsU16(n) \div 256 /\ lo = AsU16(n) % 256
                            /\ hi < 256 /\ lo < 256 /\ 256 * hi + lo = AsU16(n)
  BY <1>2, <1>3
<1>5. Hi(n) = hi /\ Lo(n) = lo
  BY <1>4 DEF Hi, Lo
<1> QED
  BY <1>2, <1>4, <1>5, ByteRange

LEMMA EpilogueType ==
  ASSUME runtime \in Seq(Byte), constructor \in Seq(Byte)
  PROVE  /\ Len(runtime) \in Nat /\ Len(constructor) \in Nat /\ Offset \in Nat
         /\ Epilogue \in Seq(Byte) /\ Len(Epilogue) = 15
         /\ Epilogue[2] = Hi(Len(runtime)) /\ Epilogue[3] = Lo(Len(runtime))
         /\ Epilogue[5] = Hi(Offset) /\ Epilogue[6] = Lo(Offset)
<1>1. Len(runtime) \in Nat /\ Len(constructor) \in Nat
  BY LenProperties
<1>2. Offset \in Nat
  BY <1>1 DEF Offset, EpilogueLen
<1>3. PICK a, b, c, d \in Byte : /\ a = Hi(Len(runtime)) /\ b = Lo(Len(runtime))
                                 /\ c = Hi(Offset) /\ d = Lo(Offset)
  BY <1>1, <1>2, TwoBytes
<1>4. Epilogue = <<97, a, b, 97, c, d, 96, 0, 57, 97, a, b, 96, 0, 243>>
  BY <1>3 DEF Epilogue
<1>5. 97 \in Byte /\ 96 \in Byte /\ 0 \in Byte /\ 57 \in Byte /\ 243 \in Byte
  BY DEF Byte
<1>6. Epilogue \in Seq(Byte) /\ Len(Epilogue) = 15
  BY <1>4, <1>5
<1> QED
  BY <1>1, <1>2, <1>3, <1>4, <1>6

(* The creation code, and where it holds what.                             *)
Creation == constructor \o Epilogue \o runtime

LEMMA CreationType ==
  ASSUME runtime \in Seq(Byte), constructor \in Seq(Byte)
  PROVE  /\ Creation \in Seq(Byte) /\ Len(Creation) = Offset + Len(runtime)
         /\ \A n \in 1 .. 15 : Creation[Len(constructor) + n] = Epilogue[n]
         /\ \A n \in 1 .. Len(runtime) : Creation[Offset + n] = runtime[n]
<1> DEFINE front == constructor \o Epilogue
<1>1. /\ Len(runtime) \in Nat /\ Len(constructor) \in Nat /\ Offset \in Nat
      /\ Epilogue \in Seq(Byte) /\ Len(Epilogue) = 15
  BY EpilogueType
<1>2. Offset = Len(constructor) + 15
  BY DEF Offset, EpilogueLen
<1>3. /\ front \in Seq(Byte) /\ Len(front) = Offset
      /\ \A n \in 1 .. Len(constructor) + 15 :
           front[n] = IF n <= Len(constructor) THEN constructor[n]
                                               ELSE Epilogue[n - Len(constructor)]
  <2>1. /\ front \in Seq(Byte) /\ Len(front) = Len(constructor) + Len(Epilogue)
        /\ \A n \in 1 .. Len(constructor) + Len(Epilogue) :
             front[n] = IF n <= Len(constructor) THEN constructor[n]
                                                 ELSE Epilogue[n - Len(constructor)]
    BY <1>1, ConcatProperties
  <2> HIDE DEF front
  <2> QED
    BY <1>1, <1>2, <2>1
<1>4. /\ Creation \in Seq(Byte) /\ Len(Creation) = Offset + Len(runtime)
      /\ \A n \in 1 .. Offset + Len(runtime) :
           Creation[n] = IF n <= Offset THEN front[n] ELSE runtime[n - Offset]
  <2> HIDE DEF front
  <2>1. Creation = front \o runtime
    BY DEF Creation, front
  <2> QED
    BY <1>1, <1>3, <2>1, ConcatProperties
<1>5. ASSUME NEW n \in 1 .. 15
      PROVE  Creation[Len(constructor) + n] = Epilogue[n]
  <2> DEFINE at == Len(constructor) + n
  <2>1. /\ at \in 1 .. Len(constructor) + 15 /\ at <= Offset /\ ~(at <= Len(constructor))
        /\ at - Len(constructor) = n /\ at \in 1 .. Offset + Len(runtime)
    BY <1>1, <1>2
  <2> HIDE DEF at, front
  <2>2. Creation[at] = front[at]
    BY <1>4, <2>1
  <2>3. front[at] = Epilogue[n]
    BY <1>3, <2>1
  <2> QED
    BY <2>2, <2>3 DEF at
<1>6. ASSUME NEW n \in 1 .. Len(runtime)
      PROVE  Creation[Offset + n] = runtime[n]
  <2> DEFINE at == Offset + n
  <2>1. at \in 1 .. Offset + Len(runtime) /\ ~(at <= Offset) /\ at - Offset = n
    BY <1>1
  <2> HIDE DEF at, front
  <2> QED
    BY <1>4, <2>1 DEF at
<1> QED
  BY <1>4, <1>5, <1>6

(* What the epilogue returns: part of the runtime, or all of it.           *)
LEMMA Returned ==
  ASSUME runtime \in Seq(Byte), constructor \in Seq(Byte), code = Creation
  PROVE  LET at == Operand(5)  size == Operand(2)
         IN  /\ SubSeq(code, at + 1, at + size) \in Seq(Byte)
             /\ Offset < PcRange /\ Len(runtime) < PcRange
                  => SubSeq(code, at + 1, at + size) = runtime
<1> DEFINE at == Operand(5)
           size == Operand(2)
<1>1. /\ Len(runtime) \in Nat /\ Len(constructor) \in Nat /\ Offset \in Nat
      /\ Epilogue[2] = Hi(Len(runtime)) /\ Epilogue[3] = Lo(Len(runtime))
      /\ Epilogue[5] = Hi(Offset) /\ Epilogue[6] = Lo(Offset)
  BY EpilogueType
<1>2. /\ code \in Seq(Byte) /\ Len(code) = Offset + Len(runtime)
      /\ \A n \in 1 .. 15 : code[Len(constructor) + n] = Epilogue[n]
      /\ \A n \in 1 .. Len(runtime) : code[Offset + n] = runtime[n]
  BY CreationType
<1>3. /\ at = 256 * Hi(Offset) + Lo(Offset)
      /\ size = 256 * Hi(Len(runtime)) + Lo(Len(runtime))
  <2>1. /\ code[Len(constructor) + 2] = Epilogue[2]
        /\ code[Len(constructor) + 3] = Epilogue[3]
        /\ code[Len(constructor) + 5] = Epilogue[5]
        /\ code[Len(constructor) + 6] = Epilogue[6]
    BY <1>2
  <2>2. Len(constructor) + 2 + 1 = Len(constructor) + 3 /\ Len(constructor) + 5 + 1 = Len(constructor) + 6
    BY <1>1
  <2> QED
    BY <1>1, <2>1, <2>2 DEF Operand
<1>4. /\ at \in Nat /\ at <= Offset /\ (Offset < PcRange => at = Offset)
      /\ size \in Nat /\ size <= Len(runtime)
      /\ (Len(runtime) < PcRange => size = Len(runtime))
  <2>1. /\ 256 * Hi(Offset) + Lo(Offset) \in Nat /\ 256 * Hi(Offset) + Lo(Offset) <= Offset
        /\ Offset < PcRange => 256 * Hi(Offset) + Lo(Offset) = Offset
    BY <1>1, TwoBytes
  <2> DEFINE n == Len(runtime)
  <2>2. /\ 256 * Hi(n) + Lo(n) \in Nat /\ 256 * Hi(n) + Lo(n) <= n
        /\ n < PcRange => 256 * Hi(n) + Lo(n) = n
    BY <1>1, TwoBytes
  <2> HIDE DEF at, size
  <2> QED
    BY <1>3, <2>1, <2>2
<1> HIDE DEF at, size
<1> DEFINE out == SubSeq(code, at + 1, at + size)
<1>5. \A n \in at + 1 .. at + size : code[n] \in Byte
  <2> SUFFICES ASSUME NEW n \in at + 1 .. at + size PROVE code[n] \in Byte
    OBVIOUS
  <2>1. n \in 1 .. Len(code)
    BY <1>1, <1>2, <1>4
  <2> QED
    BY <1>2, <2>1, ElementOfSeq
<1>6. /\ out \in Seq(Byte)
      /\ Len(out) = IF at + 1 <= at + size THEN (at + size) - (at + 1) + 1 ELSE 0
      /\ \A n \in 1 .. (at + size) - (at + 1) + 1 : out[n] = code[at + 1 + n - 1]
  BY <1>4, <1>5, SubSeqProperties
<1>7. ASSUME Offset < PcRange, Len(runtime) < PcRange
      PROVE  out = runtime
  <2>1. at = Offset /\ size = Len(runtime)
    BY <1>4, <1>7
  <2>2. Len(out) = Len(runtime)
    BY <1>1, <1>4, <1>6, <2>1
  <2>3. \A n \in 1 .. Len(out) : out[n] = runtime[n]
    <3> SUFFICES ASSUME NEW n \in 1 .. Len(runtime) PROVE out[n] = runtime[n]
      BY <2>2
    <3>1. n \in 1 .. (at + size) - (at + 1) + 1 /\ at + 1 + n - 1 = Offset + n
      BY <1>1, <2>1
    <3> HIDE DEF out
    <3> QED
      BY <1>2, <1>6, <3>1
  <2> HIDE DEF out
  <2> QED
    BY <1>6, <2>2, <2>3, SeqEqual
<1> QED
  BY <1>6, <1>7 DEF at, size

----------------------------------------------------------------------------
(* What lower_constructor() and wrap_with_constructor() have built.        *)

Descriptor == [kind : Kind, back : Nat, slot : Nat]

\* Where argument j is read, whatever i and k were when it was lowered.
Back(j) == IF IsString(j) THEN 2 * (Strings(Len(params)) - Strings(j - 1)) ELSE Total - (j - 1)
Entry(j) == [kind |-> params[j], back |-> Back(j), slot |-> Slot(j)]

Before == {"lower", "panicked"}

Lowered ==
  /\ stage = "lower" =>
       i <= Len(params) + 1 /\ i >= 1 /\ k = Strings(i - 1) /\ Len(prologue) = i - 1
  /\ stage \notin Before => Len(prologue) = Len(params)
  /\ prologue \in Seq(Descriptor) /\ Len(prologue) <= Len(params)
  /\ \A j \in 1 .. Len(prologue) : prologue[j] = Entry(j)

Coded ==
  stage \notin Before => code = Creation /\ (profile = "debug" => Len(runtime) < PcRange)

BaseInv == TypeOK /\ Lowered /\ Coded /\ RuntimeDeployed

(* Every entry reads inside the code, a string's two words even so.        *)
LEMMA BackType ==
  ASSUME params \in Seq(Kind), NEW j \in 1 .. Len(params)
  PROVE  /\ Back(j) \in Nat /\ Back(j) >= 1 /\ (IsString(j) => Back(j) >= 2)
         /\ Slot(j) \in Nat /\ params[j] \in Kind /\ Entry(j) \in Descriptor
<1> DEFINE n == Len(params)
<1>1. n \in Nat /\ j \in Nat /\ j - 1 \in Nat /\ params[j] \in Kind
  BY LenProperties, ElementOfSeq
<1>2. Strings(n) \in Nat /\ Strings(j - 1) \in Nat
  BY <1>1, StringsType DEF Strings
<1>3. CASE IsString(j)
  <2>1. Strings(j - 1) + 1 <= Strings(n)
    BY <1>1, <1>3, StringsBelow DEF Strings, IsString
  <2>2. Back(j) = 2 * (Strings(n) - Strings(j - 1))
    BY <1>3 DEF Back
  <2> HIDE DEF n
  <2>3. Back(j) \in Nat /\ Back(j) >= 2
    BY <1>2, <2>1, <2>2
  <2> QED
    BY <1>1, <2>3 DEF Slot, Entry, Descriptor
<1>4. CASE ~IsString(j)
  <2>1. Back(j) = Total - (j - 1) /\ Total = n + 2 * Strings(n)
    BY <1>4, Zenon DEF Back, Total
  <2>2. j <= n
    OBVIOUS
  <2> HIDE DEF n
  <2>3. Back(j) \in Nat /\ Back(j) >= 1
    BY <1>1, <1>2, <2>1, <2>2
  <2> QED
    BY <1>1, <1>4, <2>3 DEF Slot, Entry, Descriptor
<1> QED
  BY <1>3, <1>4

LEMMA BaseInit == Init => BaseInv
<1> SUFFICES ASSUME Init PROVE BaseInv
  OBVIOUS
<1>1. runtime \in Seq(Byte) /\ constructor \in Seq(Byte) /\ params \in Seq(Kind)
  BY Parameters DEF Init
<1>2. Len(params) \in Nat /\ Strings(0) = 0
  BY <1>1, LenProperties, StringsZero DEF Strings
<1>3. TypeOK
  BY <1>1 DEF Init, TypeOK
<1>4. Lowered
  BY <1>2 DEF Init, Lowered, Before
<1>5. Coded /\ RuntimeDeployed
  BY DEF Init, Coded, RuntimeDeployed, Before
<1> QED
  BY <1>3, <1>4, <1>5 DEF BaseInv

(* One parameter more: the counters i and k of the loop give Back(i).      *)
LEMMA LowerStep ==
  ASSUME BaseInv, LowerWord \/ LowerString
  PROVE  BaseInv'
<1> DEFINE e == [kind |-> params[i], back |-> IF IsString(i) THEN StringBack ELSE WordBack,
                 slot |-> Slot(i)]
<1>1. /\ stage = "lower" /\ i <= Len(params) /\ i >= 1 /\ i \in Nat /\ k \in Nat
      /\ k = Strings(i - 1) /\ Len(prologue) = i - 1 /\ prologue \in Seq(Descriptor)
      /\ params \in Seq(Kind) /\ Len(params) \in Nat
      /\ \A j \in 1 .. Len(prologue) : prologue[j] = Entry(j)
  BY LenProperties DEF BaseInv, TypeOK, Lowered, LowerWord, LowerString
<1>2. /\ prologue' = Append(prologue, e) /\ i' = i + 1
      /\ k' = IF IsString(i) THEN k + 1 ELSE k
      /\ UNCHANGED <<profile, runtime, constructor, params, stage, code, args, heads, tails,
                     mem, deployed>>
  BY DEF LowerWord, LowerString, Lower, built, sent
<1>3. e = Entry(i) /\ e \in Descriptor
  <2>1. e = Entry(i)
    BY <1>1 DEF Entry, Back, StringBack, WordBack
  <2>2. i \in 1 .. Len(params)
    BY <1>1
  <2> QED
    BY <1>1, <2>1, <2>2, BackType
<1> HIDE DEF e
<1>4. /\ prologue' \in Seq(Descriptor) /\ Len(prologue') = i
      /\ \A j \in 1 .. i : prologue'[j] = Entry(j)
  <2>1. /\ prologue' \in Seq(Descriptor) /\ Len(prologue') = Len(prologue) + 1
        /\ \A j \in 1 .. Len(prologue) : prologue'[j] = prologue[j]
        /\ prologue'[Len(prologue) + 1] = e
    BY <1>1, <1>2, <1>3, AppendProperties
  <2>2. ASSUME NEW j \in 1 .. i
        PROVE  prologue'[j] = Entry(j)
    <3>1. CASE j = i
      BY <1>1, <1>3, <2>1, <3>1
    <3>2. CASE j # i
      <4>1. j \in 1 .. Len(prologue)
        BY <1>1, <3>2
      <4> QED
        BY <1>1, <2>1, <4>1
    <3> QED
      BY <3>1, <3>2
  <2> QED
    BY <1>1, <2>1, <2>2
<1>5. \A j : Entry(j)' = Entry(j) /\ IsString(j)' = IsString(j)
  BY <1>2 DEF Entry, Back, Slot, IsString, Strings, Total
<1>6. k' = Strings(i)
  <2>1. i - 1 \in Nat /\ (i - 1) + 1 = i
    BY <1>1
  <2> QED
    BY <1>1, <1>2, <2>1, StringsStep DEF Strings, IsString
<1>7. Lowered'
  <2>1. i' \in Nat /\ i' - 1 = i /\ i' <= Len(params) + 1 /\ i' >= 1
    BY <1>1, <1>2
  <2>2. Strings(i - 1)' = Strings(i)
    <3>1. Strings(i - 1)' = StringsIn(params', i' - 1)
      BY DEF Strings
    <3> QED
      BY <1>2, <2>1, <3>1 DEF Strings
  <2>3. k' = Strings(i - 1)'
    BY <1>6, <2>2
  <2>4. Len(prologue') <= Len(params)
    BY <1>1, <1>4
  <2>5. \A j \in 1 .. Len(prologue') : prologue'[j] = Entry(j)'
    BY <1>4, <1>5
  <2> HIDE DEF Entry, Strings
  <2>6. (stage = "lower" =>
           i <= Len(params) + 1 /\ i >= 1 /\ k = Strings(i - 1) /\ Len(prologue) = i - 1)'
    BY <1>2, <1>4, <2>1, <2>3
  <2>7. stage' \in Before
    BY <1>1, <1>2 DEF Before
  <2> QED
    BY <1>2, <1>4, <2>4, <2>5, <2>6, <2>7 DEF Lowered
<1>8. TypeOK'
  <2>1. \A j \in 1 .. Len(prologue') :
          /\ prologue'[j].kind = params[j]
          /\ prologue'[j].back \in IF IsString(j) THEN Nat \ {0, 1} ELSE Nat \ {0}
    <3> SUFFICES ASSUME NEW j \in 1 .. i
                 PROVE  /\ Entry(j).kind = params[j]
                        /\ Entry(j).back \in IF IsString(j) THEN Nat \ {0, 1} ELSE Nat \ {0}
      BY <1>4
    <3>1. j \in 1 .. Len(params)
      BY <1>1
    <3>2. Back(j) \in Nat /\ Back(j) >= 1 /\ (IsString(j) => Back(j) >= 2)
      BY <1>1, <3>1, BackType
    <3>3. Entry(j).kind = params[j] /\ Entry(j).back = Back(j)
      BY DEF Entry
    <3> HIDE DEF Entry
    <3> QED
      BY <3>2, <3>3
  <2>2. \A j \in 1 .. Len(prologue)' :
          /\ prologue'[j].kind = params'[j]
          /\ prologue'[j].back \in IF IsString(j)' THEN Nat \ {0, 1} ELSE Nat \ {0}
    BY <1>2, <1>5, <2>1
  <2>3. i' \in Nat /\ k' \in Nat
    BY <1>1, <1>2
  <2> QED
    BY <1>2, <2>2, <2>3 DEF BaseInv, TypeOK
<1>9. Coded' /\ RuntimeDeployed'
  BY <1>1, <1>2 DEF Coded, RuntimeDeployed, Before
<1> QED
  BY <1>7, <1>8, <1>9 DEF BaseInv

(* wrap_with_constructor(), and its assertion.                             *)
LEMMA WrapStep ==
  ASSUME BaseInv, Wrap \/ WrapPanics
  PROVE  BaseInv'
<1>1. /\ stage = "lower" /\ i > Len(params) /\ i <= Len(params) + 1 /\ Len(prologue) = i - 1
      /\ runtime \in Seq(Byte) /\ constructor \in Seq(Byte) /\ params \in Seq(Kind)
      /\ i \in Nat /\ Len(params) \in Nat /\ Len(runtime) \in Nat
  BY LenProperties DEF BaseInv, TypeOK, Lowered, Wrap, WrapPanics
<1>2. Len(prologue) = Len(params)
  BY <1>1
<1>3. UNCHANGED <<profile, runtime, constructor, params, prologue, deployed, heads, tails>>
  BY DEF Wrap, WrapPanics, built, sent
<1>4. \A j : Entry(j)' = Entry(j) /\ IsString(j)' = IsString(j)
  BY <1>3 DEF Entry, Back, Slot, IsString, Strings, Total
<1>5. stage' \in {"encode", "panicked"} /\ i' \in Nat /\ k' \in Nat /\ code' \in Seq(Byte)
  <2>1. Creation \in Seq(Byte) /\ code \in Seq(Byte) /\ k \in Nat
    BY <1>1, CreationType DEF BaseInv, TypeOK
  <2>2. Wrap => code' = Creation
    BY Zenon DEF Wrap, Creation
  <2>3. Wrap => stage' = "encode" /\ i' = 1 /\ k' = 0
    BY DEF Wrap
  <2>4. WrapPanics => stage' = "panicked" /\ i' = i /\ k' = k /\ code' = code
    BY DEF WrapPanics
  <2> QED
    BY <1>1, <2>1, <2>2, <2>3, <2>4
<1>6. TypeOK'
  BY <1>3, <1>4, <1>5 DEF BaseInv, TypeOK
<1>7. Lowered'
  <2> HIDE DEF Entry
  <2> QED
    BY <1>2, <1>3, <1>4, <1>5 DEF BaseInv, Lowered
<1>8. Coded'
  <2>1. Creation' = Creation
    BY <1>3 DEF Creation, Epilogue, Hi, Lo, AsU16, Offset, EpilogueLen
  <2>2. CASE Wrap
    <3>1. code' = Creation
      BY <2>2, Zenon DEF Wrap, Creation
    <3>2. profile \in {"debug", "release"} /\ (profile = "release" \/ Len(runtime) < PcRange)
      BY <2>2 DEF BaseInv, TypeOK, Wrap
    <3>3. profile' = profile /\ Len(runtime)' = Len(runtime)
      BY <1>3
    <3> QED
      BY <2>1, <3>1, <3>2, <3>3 DEF Coded
  <2>3. CASE WrapPanics
    BY <2>3 DEF WrapPanics, Coded, Before
  <2> QED
    BY <2>2, <2>3
<1> QED
  BY <1>5, <1>6, <1>7, <1>8 DEF BaseInv, RuntimeDeployed

(* After that, nothing changes what has been built.                        *)
LEMMA BuiltStays ==
  ASSUME BaseInv, stage \notin Before, stage' \notin Before,
         UNCHANGED <<profile, runtime, constructor, params, prologue, code>>
  PROVE  /\ Lowered' /\ Coded'
         /\ \A j : IsString(j)' = IsString(j)
         /\ stage' # "deployed" => RuntimeDeployed'
<1>1. \A j : Entry(j)' = Entry(j) /\ IsString(j)' = IsString(j)
  BY DEF Entry, Back, Slot, IsString, Strings, Total
<1>2. Creation' = Creation
  BY DEF Creation, Epilogue, Hi, Lo, AsU16, Offset, EpilogueLen
<1>3. Lowered'
  <2> HIDE DEF Entry
  <2> QED
    BY <1>1 DEF BaseInv, Lowered, Before
<1>4. Coded'
  BY <1>2 DEF BaseInv, Coded
<1> QED
  BY <1>1, <1>3, <1>4 DEF RuntimeDeployed

(* The deployer appends words; the EVM runs entries up to the epilogue.    *)
LEMMA SendStep ==
  ASSUME BaseInv, EncodeWord \/ EncodeString \/ Send
  PROVE  BaseInv'
<1>1. /\ stage = "encode" /\ stage' \in {"encode", "run"}
      /\ UNCHANGED <<profile, runtime, constructor, params, prologue, code, deployed>>
  BY DEF EncodeWord, EncodeString, Send, built, sent
<1>2. /\ Lowered' /\ Coded' /\ RuntimeDeployed'
      /\ \A j : IsString(j)' = IsString(j)
  BY <1>1, BuiltStays DEF Before
<1>3. heads \in Seq(Nat) /\ tails \in Seq(Nat) /\ params \in Seq(Kind) /\ i \in Nat /\ k \in Nat
  BY DEF BaseInv, TypeOK
<1>4. i' \in Nat /\ k' \in Nat /\ heads' \in Seq(Nat) /\ tails' \in Seq(Nat)
  <2>1. CASE EncodeWord
    <3>1. PICK v \in Values : heads' = Append(heads, v)
      BY <2>1 DEF EncodeWord
    <3>2. v \in Nat
      BY Parameters
    <3>3. heads' \in Seq(Nat)
      BY <1>3, <3>1, <3>2, AppendProperties
    <3> QED
      BY <1>3, <2>1, <3>3 DEF EncodeWord
  <2>2. CASE EncodeString
    <3>1. PICK t \in Texts : /\ heads' = Append(heads, 32 * (Len(params) + Len(tails)))
                             /\ tails' = tails \o <<t.len>> \o t.data
      BY <2>2 DEF EncodeString
    <3>2. t.len \in Nat /\ t.data \in Seq(Nat)
      BY Parameters
    <3>3. 32 * (Len(params) + Len(tails)) \in Nat
      BY <1>3, LenProperties
    <3>4. heads' \in Seq(Nat)
      BY <1>3, <3>1, <3>3, AppendProperties
    <3>5. tails \o <<t.len>> \in Seq(Nat)
      BY <1>3, <3>2, ConcatProperties, <<t.len>> \in Seq(Nat)
    <3>6. tails' \in Seq(Nat)
      BY <3>1, <3>2, <3>5, ConcatProperties
    <3> QED
      BY <1>3, <2>2, <3>4, <3>6 DEF EncodeString
  <2>3. CASE Send
    BY <1>3, <2>3 DEF Send, sent
  <2> QED
    BY <2>1, <2>2, <2>3
<1>5. TypeOK'
  BY <1>1, <1>2, <1>4 DEF BaseInv, TypeOK
<1> QED
  BY <1>2, <1>5 DEF BaseInv

LEMMA RunStep ==
  ASSUME BaseInv, RunWord \/ RunString \/ RunBody
  PROVE  BaseInv'
<1>1. /\ stage = "run" /\ stage' \in {"run", "refused", "reverted", "epilogue"}
      /\ UNCHANGED <<profile, runtime, constructor, params, prologue, code, heads, tails,
                     deployed>>
  BY DEF RunWord, RunString, RunBody, built, sent
<1>2. /\ Lowered' /\ Coded' /\ RuntimeDeployed'
      /\ \A j : IsString(j)' = IsString(j)
  BY <1>1, BuiltStays DEF Before
<1>3. i' \in Nat /\ k' \in Nat
  <2>1. i \in Nat /\ k \in Nat
    BY DEF BaseInv, TypeOK
  <2>2. i' \in {i, i + 1} /\ k' \in {k, k + 1}
    BY DEF RunWord, RunString, RunBody
  <2> QED
    BY <2>1, <2>2
<1>4. TypeOK'
  BY <1>1, <1>2, <1>3 DEF BaseInv, TypeOK
<1> QED
  BY <1>2, <1>4 DEF BaseInv

(* The epilogue returns the runtime.                                       *)
LEMMA EpilogueStep ==
  ASSUME BaseInv, RunEpilogue
  PROVE  BaseInv'
<1>1. /\ stage = "epilogue" /\ stage' = "deployed"
      /\ UNCHANGED <<profile, runtime, constructor, params, prologue, code, heads, tails, i, k>>
  BY DEF RunEpilogue, built, sent
<1>2. Lowered' /\ Coded' /\ \A j : IsString(j)' = IsString(j)
  BY <1>1, BuiltStays DEF Before
<1>3. /\ runtime \in Seq(Byte) /\ constructor \in Seq(Byte) /\ code = Creation
      /\ (profile = "debug" => Len(runtime) < PcRange)
  BY <1>1 DEF BaseInv, TypeOK, Coded, Before
<1>4. /\ deployed' \in Seq(Byte)
      /\ Offset < PcRange /\ Len(runtime) < PcRange => deployed' = runtime
  BY <1>3, Returned DEF RunEpilogue
<1>5. TypeOK'
  BY <1>1, <1>2, <1>4 DEF BaseInv, TypeOK
<1>6. RuntimeDeployed'
  BY <1>1, <1>3, <1>4 DEF RuntimeDeployed, Offset, EpilogueLen
<1> QED
  BY <1>2, <1>5, <1>6 DEF BaseInv

LEMMA BaseStep == BaseInv /\ [Next]_vars => BaseInv'
<1> SUFFICES ASSUME BaseInv, [Next]_vars PROVE BaseInv'
  OBVIOUS
<1>1. CASE UNCHANGED vars
  <2>1. BaseInv' = BaseInv
    BY <1>1 DEF vars, BaseInv, TypeOK, Lowered, Coded, RuntimeDeployed, Creation, Epilogue,
       Hi, Lo, AsU16, Offset, EpilogueLen, Entry, Back, Slot, IsString, Strings, Total
  <2> QED
    BY <2>1
<1> QED
  BY <1>1, LowerStep, WrapStep, SendStep, RunStep, EpilogueStep DEF Next

(* The prologue reads whole words, none past the end of the code, whatever *)
(* the parameters are.                                                     *)
THEOREM Typing == Spec => []TypeOK
<1>1. BaseInv => TypeOK
  BY DEF BaseInv
<1> QED
  BY BaseInit, BaseStep, <1>1, PTL DEF Spec

(* The deployed contract is the runtime, for every runtime and constructor *)
(* whose offset, and in a release build whose size, two bytes hold.        *)
THEOREM Deployment == Spec => []RuntimeDeployed
<1>1. BaseInv => RuntimeDeployed
  BY DEF BaseInv
<1> QED
  BY BaseInit, BaseStep, <1>1, PTL DEF Spec
=============================================================================
