---------------------------- MODULE ArrivalProofs ----------------------------
(***************************************************************************)
(* Every argument reaches the local of its parameter, and a string of 32   *)
(* bytes or more is refused, for every signature and all arguments, if no  *)
(* string is empty and none of several words looks like a short one.       *)
(***************************************************************************)
EXTENDS DeployProofs

(* The prologue takes two words for each string.  Of one that fills more   *)
(* it takes the last word but one as the length; a word of characters is   *)
(* 32 or more, unless all but the last of them are NUL.  (A run refutes    *)
(* Arrival for the empty string, which fills one word less.)               *)
NoneLooksShort ==
  \A t \in Texts : t.len >= 1 /\ (Len(t.data) > 1 => t.data[Len(t.data) - 1] >= 32)

(* How far the deployer is, and what the words it has written mean.  If    *)
(* every string fills one word, that with s strings before it has the tail *)
(* words 2s + 1 and 2s + 2.                                                *)
Arg == Values \cup Texts

Lies(j) ==
  IF IsString(j)
  THEN /\ args[j] \in Texts
       /\ tails[2 * Strings(j - 1) + 1] = args[j].len
       /\ tails[2 * Strings(j - 1) + 2] = args[j].data[1]
  ELSE heads[j] = args[j]

Plain == Len(tails) = 2 * Strings(Len(args)) /\ \A j \in 1 .. Len(args) : Lies(j)

(* If not, there is a last string that fills more.  Behind it lie two      *)
(* words for each of the others, so that the prologue, which counts from   *)
(* the end, meets this string's last word but one.                         *)
Look(j) == Len(tails) - 2 * (Strings(Len(args)) - Strings(j)) - 1

Blocked(j) ==
  IsString(j) /\ args[j].len >= 32 /\ Look(j) \in 1 .. Len(tails) /\ tails[Look(j)] >= 32

Encoded ==
  /\ stage \in Before => args = <<>>
  /\ stage = "encode" => 1 <= i /\ i <= Len(params) + 1 /\ Len(args) = i - 1
  /\ stage \notin Before \cup {"encode"} => Len(args) = Len(params)
  /\ args \in Seq(Arg) /\ Len(args) <= Len(params) /\ Len(heads) = Len(args)
  /\ Plain \/ \E j \in 1 .. Len(args) : Blocked(j)

(* How far the prologue is, and what it has stored.                        *)
Done(j) ==
  /\ ~Blocked(j)
  /\ Plain => /\ Slot(j) \in DOMAIN mem /\ mem[Slot(j)] = Meant(j)
              /\ IsString(j) => args[j].len < 32

Arrived ==
  /\ stage = "run" =>
       1 <= i /\ i <= Len(params) + 1 /\ \A j \in 1 .. Len(params) : j < i => Done(j)
  /\ stage \in {"epilogue", "deployed"} => \A j \in 1 .. Len(params) : Done(j)
  /\ stage = "refused" => \E j \in 1 .. Len(params) : IsString(j) /\ args[j].len >= 32

ArrivalInv == BaseInv /\ Encoded /\ Arrived

LEMMA TextShape ==
  ASSUME NoneLooksShort, NEW t \in Texts
  PROVE  /\ t.len \in Nat /\ t.len >= 1 /\ t.data \in Seq(Nat) /\ Len(t.data) \in Nat
         /\ Len(t.data) >= 1 /\ (t.len >= 33 <=> Len(t.data) > 1)
         /\ t.data[1] \in Nat /\ FirstWord(t) = t.data[1]
         /\ Len(t.data) > 1 => t.data[Len(t.data) - 1] >= 32
<1>1. /\ t.len \in Nat /\ t.len >= 1 /\ t.data \in Seq(Nat) /\ Len(t.data) = (t.len + 31) \div 32
      /\ Len(t.data) > 1 => t.data[Len(t.data) - 1] >= 32
  BY Parameters DEF NoneLooksShort
<1>2. /\ (t.len + 31) \div 32 \in Nat /\ (t.len + 31) \div 32 >= 1
      /\ (t.len >= 33 <=> (t.len + 31) \div 32 > 1)
  BY <1>1
<1>3. t.data[1] \in Nat /\ t.data # <<>>
  BY <1>1, <1>2, ElementOfSeq
<1> QED
  BY <1>1, <1>2, <1>3 DEF FirstWord

(* What has been encoded is a matter of these four variables.              *)
LEMMA SameEncoding ==
  ASSUME UNCHANGED <<params, args, heads, tails>>
  PROVE  /\ \A n : Strings(n)' = Strings(n)
         /\ \A j : IsString(j)' = IsString(j) /\ Blocked(j)' = Blocked(j)
         /\ Plain' = Plain
BY DEF Plain, Lies, Blocked, Look, Strings, IsString

LEMMA ArrivalInit == Init => ArrivalInv
<1> SUFFICES ASSUME Init PROVE ArrivalInv
  OBVIOUS
<1>1. params \in Seq(Kind) /\ Len(params) \in Nat
  BY Parameters, LenProperties DEF Init
<1>2. Strings(0) = 0
  BY StringsZero DEF Strings
<1>3. Len(args) = 0 /\ Len(heads) = 0 /\ Len(tails) = 0 /\ args \in Seq(Arg)
  BY DEF Init
<1>4. Encoded
  <2>1. Plain
    BY <1>2, <1>3 DEF Plain
  <2> QED
    BY <1>1, <1>3, <2>1 DEF Init, Encoded, Before
<1>5. Arrived
  BY DEF Init, Arrived
<1> QED
  BY <1>4, <1>5, BaseInit DEF ArrivalInv

(* Building the code touches neither.                                      *)
LEMMA BuildArrives ==
  ASSUME ArrivalInv, LowerWord \/ LowerString \/ Wrap \/ WrapPanics
  PROVE  Encoded' /\ Arrived'
<1>1. /\ stage = "lower" /\ stage' \in {"lower", "encode", "panicked"}
      /\ UNCHANGED <<params, args, heads, tails, mem>>
      /\ stage' = "encode" => i' = 1
  BY DEF LowerWord, LowerString, Lower, Wrap, WrapPanics, built, sent
<1>2. args = <<>> /\ params \in Seq(Kind)
  BY <1>1 DEF ArrivalInv, BaseInv, TypeOK, Encoded, Before
<1>3. Len(args) = 0 /\ Len(params) \in Nat
  BY <1>2, LenProperties
<1>4. Plain' = Plain /\ \A j : Blocked(j)' = Blocked(j)
  BY <1>1, SameEncoding
<1>5. Encoded'
  BY <1>1, <1>2, <1>3, <1>4 DEF ArrivalInv, Encoded, Before
<1>6. Arrived'
  BY <1>1 DEF Arrived
<1> QED
  BY <1>5, <1>6

(* One argument more: in both cases its words are where Lies says, and     *)
(* those of the arguments before it stay.                                  *)
LEMMA EncodeWordArrives ==
  ASSUME ArrivalInv, EncodeWord
  PROVE  Encoded' /\ Arrived'
<1>1. PICK v \in Values : args' = Append(args, v) /\ heads' = Append(heads, v)
  BY DEF EncodeWord
<1>2. /\ stage = "encode" /\ i <= Len(params) /\ ~IsString(i) /\ i' = i + 1
      /\ UNCHANGED <<stage, params, tails>>
  BY DEF EncodeWord, built
<1>3. /\ i \in Nat /\ i >= 1 /\ Len(args) = i - 1 /\ Len(heads) = i - 1 /\ Len(params) \in Nat
      /\ args \in Seq(Arg) /\ heads \in Seq(Nat)
      /\ Plain \/ \E j \in 1 .. Len(args) : Blocked(j)
  BY <1>2, LenProperties DEF ArrivalInv, BaseInv, TypeOK, Encoded, Before
<1>4. v \in Arg /\ v \in Nat
  BY Parameters DEF Arg
<1>5. /\ args' \in Seq(Arg) /\ Len(args') = i /\ args'[i] = v
      /\ \A j \in 1 .. i - 1 : args'[j] = args[j]
  <2>1. /\ args' \in Seq(Arg) /\ Len(args') = Len(args) + 1 /\ args'[Len(args) + 1] = v
        /\ \A j \in 1 .. Len(args) : args'[j] = args[j]
    BY <1>1, <1>3, <1>4, AppendProperties
  <2> QED
    BY <1>3, <2>1
<1>6. /\ Len(heads') = i /\ heads'[i] = v
      /\ \A j \in 1 .. i - 1 : heads'[j] = heads[j]
  <2>1. /\ Len(heads') = Len(heads) + 1 /\ heads'[Len(heads) + 1] = v
        /\ \A j \in 1 .. Len(heads) : heads'[j] = heads[j]
    BY <1>1, <1>3, <1>4, AppendProperties
  <2> QED
    BY <1>3, <2>1
<1>7. \A n : Strings(n)' = StringsIn(params, n) /\ IsString(n)' = IsString(n)
  BY <1>2 DEF Strings, IsString
<1>8. StringsIn(params, i) = StringsIn(params, i - 1)
  <2>1. i - 1 \in Nat /\ (i - 1) + 1 = i
    BY <1>3
  <2> QED
    BY <1>2, <2>1, StringsStep DEF IsString
<1>9. Strings(Len(args))' = Strings(Len(args))
  BY <1>3, <1>5, <1>7, <1>8 DEF Strings
<1>10. ASSUME Plain
       PROVE  Plain'
  <2>1. Len(tails') = 2 * Strings(Len(args))'
    BY <1>2, <1>9, <1>10 DEF Plain
  <2>2. ASSUME NEW j \in 1 .. i
        PROVE  Lies(j)'
    <3>1. CASE j = i
      BY <1>2, <1>5, <1>6, <1>7, <3>1 DEF Lies
    <3>2. CASE j # i
      <4>1. j \in 1 .. i - 1 /\ j \in 1 .. Len(args)
        BY <1>3, <3>2
      <4>2. args'[j] = args[j] /\ heads'[j] = heads[j] /\ Lies(j)
        BY <1>5, <1>6, <1>10, <4>1 DEF Plain
      <4>3. Strings(j - 1)' = Strings(j - 1)
        BY <1>7 DEF Strings
      <4> QED
        BY <1>2, <1>7, <4>2, <4>3 DEF Lies
    <3> QED
      BY <3>1, <3>2
  <2> HIDE DEF Lies
  <2> QED
    BY <1>5, <2>1, <2>2 DEF Plain
<1>11. ASSUME NEW j \in 1 .. Len(args), Blocked(j)
       PROVE  Blocked(j)' /\ j \in 1 .. Len(args')
  <2>1. j \in 1 .. i - 1 /\ j \in 1 .. i
    BY <1>3
  <2>2. Look(j)' = Look(j)
    BY <1>2, <1>7, <1>9 DEF Look, Strings
  <2> QED
    BY <1>2, <1>5, <1>7, <1>11, <2>1, <2>2 DEF Blocked
<1>12. Encoded'
  <2>1. Plain' \/ \E j \in 1 .. Len(args') : Blocked(j)'
    <3> HIDE DEF Plain, Blocked
    <3> QED
      BY <1>3, <1>10, <1>11
  <2> HIDE DEF Plain, Blocked
  <2> QED
    BY <1>2, <1>3, <1>5, <1>6, <2>1 DEF Encoded, Before
<1>13. Arrived'
  BY <1>2 DEF Arrived
<1> QED
  BY <1>12, <1>13

LEMMA EncodeStringArrives ==
  ASSUME NoneLooksShort, ArrivalInv, EncodeString
  PROVE  Encoded' /\ Arrived'
<1>1. PICK t \in Texts : /\ args' = Append(args, t)
                         /\ heads' = Append(heads, 32 * (Len(params) + Len(tails)))
                         /\ tails' = tails \o <<t.len>> \o t.data
  BY DEF EncodeString
<1>2. /\ stage = "encode" /\ i <= Len(params) /\ IsString(i) /\ i' = i + 1
      /\ UNCHANGED <<stage, params>>
  BY DEF EncodeString, built
<1>3. /\ i \in Nat /\ i >= 1 /\ Len(args) = i - 1 /\ Len(heads) = i - 1 /\ Len(params) \in Nat
      /\ args \in Seq(Arg) /\ heads \in Seq(Nat) /\ tails \in Seq(Nat)
      /\ Plain \/ \E j \in 1 .. Len(args) : Blocked(j)
  BY <1>2, LenProperties DEF ArrivalInv, BaseInv, TypeOK, Encoded, Before
<1>4. /\ t \in Arg /\ t.len \in Nat /\ t.data \in Seq(Nat)
      /\ 32 * (Len(params) + Len(tails)) \in Nat
  BY <1>1, <1>3, TextShape, LenProperties DEF Arg
<1>5. /\ args' \in Seq(Arg) /\ Len(args') = i /\ args'[i] = t
      /\ \A j \in 1 .. i - 1 : args'[j] = args[j]
  <2>1. /\ args' \in Seq(Arg) /\ Len(args') = Len(args) + 1 /\ args'[Len(args) + 1] = t
        /\ \A j \in 1 .. Len(args) : args'[j] = args[j]
    BY <1>1, <1>3, <1>4, AppendProperties
  <2> QED
    BY <1>3, <2>1
<1>6. /\ Len(heads') = i
      /\ \A j \in 1 .. i - 1 : heads'[j] = heads[j]
  <2>1. /\ Len(heads') = Len(heads) + 1
        /\ \A j \in 1 .. Len(heads) : heads'[j] = heads[j]
    BY <1>1, <1>3, <1>4, AppendProperties
  <2> QED
    BY <1>3, <2>1
<1> DEFINE c == Len(tails)
           d == Len(t.data)
           s == Strings(i - 1)
<1>7. c \in Nat /\ d \in Nat /\ d >= 1 /\ s \in Nat /\ (t.len >= 33 <=> d > 1)
  <2>1. i - 1 \in Nat
    BY <1>3
  <2>2. s \in Nat
    BY <2>1, StringsType DEF Strings
  <2> QED
    BY <1>3, <2>2, TextShape, LenProperties
<1>8. /\ Len(tails') = c + 1 + d /\ tails'[c + 1] = t.len
      /\ \A y \in 1 .. d : tails'[c + 1 + y] = t.data[y]
      /\ \A x \in 1 .. c : tails'[x] = tails[x]
  <2> DEFINE u == Append(tails, t.len)
  <2>1. /\ u \in Seq(Nat) /\ Len(u) = c + 1 /\ u[c + 1] = t.len
        /\ \A x \in 1 .. c : u[x] = tails[x]
    BY <1>3, <1>4, AppendProperties
  <2>2. tails' = u \o t.data
    BY <1>1, <1>3, <1>4, AppendIsConcat
  <2> HIDE DEF u
  <2>3. /\ Len(tails') = (c + 1) + d
        /\ \A x \in 1 .. (c + 1) + d :
             tails'[x] = IF x <= c + 1 THEN u[x] ELSE t.data[x - (c + 1)]
    <3>1. /\ Len(u \o t.data) = Len(u) + Len(t.data)
          /\ \A x \in 1 .. Len(u) + Len(t.data) :
               (u \o t.data)[x] = IF x <= Len(u) THEN u[x] ELSE t.data[x - Len(u)]
      BY <1>4, <2>1, ConcatProperties
    <3> QED
      BY <1>4, <2>1, <2>2, <3>1, Zenon
  <2> HIDE DEF c, d
  <2>4. Len(tails') = c + 1 + d
    BY <1>7, <2>3
  <2>5. tails'[c + 1] = t.len
    BY <1>7, <2>1, <2>3
  <2>6. ASSUME NEW y \in 1 .. d
        PROVE  tails'[c + 1 + y] = t.data[y]
    <3> DEFINE x == c + 1 + y
    <3>1. x \in 1 .. (c + 1) + d /\ ~(x <= c + 1) /\ x - (c + 1) = y
      BY <1>7
    <3> HIDE DEF x
    <3>2. tails'[x] = t.data[y]
      BY <2>3, <3>1
    <3> QED
      BY <3>2 DEF x
  <2>7. ASSUME NEW x \in 1 .. c
        PROVE  tails'[x] = tails[x]
    <3>1. x \in 1 .. (c + 1) + d /\ x <= c + 1
      BY <1>7
    <3> QED
      BY <2>1, <2>3, <3>1
  <2> QED
    BY <2>4, <2>5, <2>6, <2>7
<1> HIDE DEF c, d
<1>9. \A n : Strings(n)' = StringsIn(params, n) /\ IsString(n)' = IsString(n)
  BY <1>2 DEF Strings, IsString
<1>10. Strings(Len(args))' = s + 1 /\ Strings(Len(args)) = s
  <2>1. i - 1 \in Nat /\ (i - 1) + 1 = i
    BY <1>3
  <2>2. StringsIn(params, i) = s + 1
    BY <1>2, <2>1, StringsStep DEF IsString, Strings
  <2>3. Strings(Len(args))' = StringsIn(params, Len(args'))
    BY <1>2 DEF Strings
  <2> QED
    BY <1>3, <1>5, <2>2, <2>3
<1> HIDE DEF s
<1>11. ASSUME Plain, d = 1
       PROVE  Plain'
  <2>1. c = 2 * s
    BY <1>10, <1>11 DEF Plain, c
  <2>2. Len(tails') = 2 * Strings(Len(args))'
    BY <1>7, <1>8, <1>10, <1>11, <2>1
  <2>3. tails'[c + 2] = t.data[1]
    <3>1. 1 \in 1 .. d /\ c + 1 + 1 = c + 2
      BY <1>7, <1>11
    <3> QED
      BY <1>8, <3>1
  <2>4. ASSUME NEW j \in 1 .. i
        PROVE  Lies(j)'
    <3>0. Strings(j - 1)' = Strings(j - 1)
      BY <1>9 DEF Strings
    <3>1. CASE j = i
      <4>1. args'[j] = t /\ IsString(j)'
        BY <1>2, <1>5, <1>9, <3>1
      <4>2. 2 * Strings(j - 1)' = c
        BY <2>1, <3>0, <3>1 DEF s
      <4> QED
        BY <1>8, <2>3, <4>1, <4>2 DEF Lies
    <3>2. CASE j # i
      <4>1. j \in 1 .. i - 1 /\ j \in 1 .. Len(args)
        BY <1>3, <3>2
      <4>2. args'[j] = args[j] /\ heads'[j] = heads[j] /\ Lies(j)
        BY <1>5, <1>6, <1>11, <4>1 DEF Plain
      <4>3. CASE ~IsString(j)
        BY <1>9, <4>2, <4>3 DEF Lies
      <4>4. CASE IsString(j)
        <5>1. Strings(j - 1) + 1 <= s /\ Strings(j - 1) \in Nat
          <6>1. i - 1 \in Nat /\ j - 1 \in Nat
            BY <1>3, <4>1
          <6> QED
            BY <4>1, <4>4, <6>1, StringsBelow, StringsType DEF Strings, IsString, s
        <5>2. 2 * Strings(j - 1) + 1 \in 1 .. c /\ 2 * Strings(j - 1) + 2 \in 1 .. c
          BY <1>7, <2>1, <5>1
        <5>3. /\ tails'[2 * Strings(j - 1) + 1] = args[j].len
              /\ tails'[2 * Strings(j - 1) + 2] = args[j].data[1]
          BY <1>8, <4>2, <4>4, <5>2 DEF Lies
        <5> QED
          BY <1>9, <3>0, <4>2, <4>4, <5>3 DEF Lies
      <4> QED
        BY <4>3, <4>4
    <3> QED
      BY <3>1, <3>2
  <2> HIDE DEF Lies
  <2> QED
    BY <1>5, <2>2, <2>4 DEF Plain
<1>12. ASSUME d = 1, NEW j \in 1 .. Len(args), Blocked(j)
       PROVE  Blocked(j)' /\ j \in 1 .. Len(args')
  <2>1. j \in 1 .. i - 1 /\ j \in 1 .. i
    BY <1>3
  <2>2. Look(j)' = Look(j)
    <3>1. PICK z \in Nat : Strings(j) = z /\ Strings(j)' = z
      <4>1. j \in Nat /\ Strings(j) = StringsIn(params, j) /\ Strings(j)' = StringsIn(params, j)
        BY <1>3, <1>9, <2>1 DEF Strings
      <4> QED
        BY <4>1, StringsType
    <3>2. Look(j)' = Len(tails') - 2 * (Strings(Len(args))' - Strings(j)') - 1
      BY DEF Look
    <3>3. Look(j) = c - 2 * (s - z) - 1
      BY <1>10, <3>1 DEF Look, c
    <3>4. Look(j)' = (c + 2) - 2 * ((s + 1) - z) - 1
      <4>1. Len(tails') = c + 2
        BY <1>7, <1>8, <1>12
      <4> QED
        BY <1>10, <3>1, <3>2, <4>1
    <3> HIDE DEF Look
    <3> QED
      BY <1>7, <3>1, <3>3, <3>4
  <2>3. Look(j) \in 1 .. c /\ Look(j) \in 1 .. Len(tails') /\ tails'[Look(j)] = tails[Look(j)]
    <3>1. Look(j) \in 1 .. c
      BY <1>12 DEF Blocked, c
    <3> QED
      BY <1>7, <1>8, <3>1
  <2> HIDE DEF Look
  <2> QED
    BY <1>5, <1>9, <1>12, <2>1, <2>2, <2>3 DEF Blocked
<1>13. ASSUME d > 1
       PROVE  \E j \in 1 .. Len(args') : Blocked(j)'
  <2>1. PICK j \in 1 .. Len(args') : j = i
    BY <1>3, <1>5
  <2>2. IsString(j)' /\ args'[j] = t /\ t.len >= 32
    BY <1>2, <1>4, <1>5, <1>7, <1>9, <1>13, <2>1
  <2>3. Look(j)' = c + d /\ c + d \in 1 .. Len(tails')
    <3>1. Look(j)' = Len(tails') - 2 * (Strings(Len(args))' - Strings(j)') - 1
      BY DEF Look
    <3>2. Strings(j)' = s + 1
      <4>1. Strings(j)' = StringsIn(params', Len(args'))
        BY <1>5, <2>1 DEF Strings
      <4> QED
        BY <1>10, <4>1 DEF Strings
    <3> QED
      BY <1>7, <1>8, <1>10, <1>13, <3>1, <3>2
  <2>4. tails'[c + d] >= 32
    <3>1. d - 1 \in 1 .. d /\ c + 1 + (d - 1) = c + d
      BY <1>7, <1>13
    <3>2. t.data[d - 1] >= 32
      BY <1>13, TextShape DEF d
    <3> QED
      BY <1>8, <3>1, <3>2
  <2> HIDE DEF Look
  <2> QED
    BY <2>2, <2>3, <2>4 DEF Blocked
<1>14. Encoded'
  <2>1. Plain' \/ \E j \in 1 .. Len(args') : Blocked(j)'
    <3> HIDE DEF Plain, Blocked
    <3> QED
      BY <1>3, <1>7, <1>11, <1>12, <1>13
  <2> HIDE DEF Plain, Blocked
  <2> QED
    BY <1>2, <1>3, <1>5, <1>6, <2>1 DEF Encoded, Before
<1>15. Arrived'
  BY <1>2 DEF Arrived
<1> QED
  BY <1>14, <1>15

(* Once sent, the arguments stay as they are.                              *)
LEMMA SentStays ==
  ASSUME ArrivalInv, stage \notin Before, stage' \notin Before \cup {"encode"},
         Len(args) = Len(params), UNCHANGED <<params, args, heads, tails>>
  PROVE  Encoded'
<1>1. Plain' = Plain /\ \A j : Blocked(j)' = Blocked(j)
  BY SameEncoding
<1> HIDE DEF Plain, Blocked
<1> QED
  BY <1>1 DEF ArrivalInv, Encoded

LEMMA SendArrives ==
  ASSUME ArrivalInv, Send
  PROVE  Encoded' /\ Arrived'
<1>1. /\ stage = "encode" /\ stage' = "run" /\ i' = 1 /\ i > Len(params)
      /\ UNCHANGED <<params, args, heads, tails>>
  BY DEF Send, built, sent
<1>2. Len(params) \in Nat /\ i \in Nat /\ i <= Len(params) + 1 /\ Len(args) = i - 1
  BY <1>1, LenProperties DEF ArrivalInv, BaseInv, TypeOK, Encoded
<1>3. Len(args) = Len(params)
  BY <1>1, <1>2
<1>4. Encoded'
  BY <1>1, <1>3, SentStays DEF Before
<1>5. Arrived'
  BY <1>1, <1>2 DEF Arrived
<1> QED
  BY <1>4, <1>5

----------------------------------------------------------------------------
(* What the prologue reads: the word of an argument, or the two words of   *)
(* its string.                                                             *)
LEMMA Reading ==
  ASSUME ArrivalInv, Plain, stage = "run", NEW j \in 1 .. Len(params)
  PROVE  IF IsString(j)
         THEN /\ args[j] \in Texts
              /\ FromEnd(Back(j)) = args[j].len /\ FromEnd(Back(j) - 1) = args[j].data[1]
         ELSE FromEnd(Back(j)) = args[j]
<1> DEFINE n == Len(params)
           s == Strings(n)
           z == Strings(j - 1)
<1>1. /\ params \in Seq(Kind) /\ heads \in Seq(Nat) /\ tails \in Seq(Nat)
      /\ Len(args) = n /\ Len(heads) = n /\ Len(tails) = 2 * s /\ Lies(j)
  BY DEF ArrivalInv, BaseInv, TypeOK, Encoded, Plain, Before
<1>2. n \in Nat /\ j \in Nat /\ j - 1 \in Nat /\ j >= 1 /\ j <= n
  BY <1>1, LenProperties
<1>3. s \in Nat /\ z \in Nat
  BY <1>2, StringsType DEF Strings
<1>4. /\ Len(Tape) = n + 2 * s
      /\ \A x \in 1 .. n + 2 * s : Tape[x] = IF x <= n THEN heads[x] ELSE tails[x - n]
  <2>1. /\ Len(Tape) = Len(heads) + Len(tails)
        /\ \A x \in 1 .. Len(heads) + Len(tails) :
             Tape[x] = IF x <= Len(heads) THEN heads[x] ELSE tails[x - Len(heads)]
    BY <1>1, ConcatProperties, Zenon DEF Tape
  <2> HIDE DEF n, s
  <2> QED
    BY <1>1, <2>1
<1>5. ASSUME NEW x \in Nat, x >= 1, x <= n + 2 * s
      PROVE  FromEnd(n + 2 * s - x + 1) = Tape[x]
  <2> DEFINE back == n + 2 * s - x + 1
  <2> HIDE DEF n, s
  <2>1. back \in Nat /\ back <= n + 2 * s /\ n + 2 * s - back + 1 = x
    BY <1>2, <1>3, <1>5
  <2> HIDE DEF back
  <2>2. FromEnd(back) = IF back <= Len(Tape) THEN Tape[Len(Tape) - back + 1] ELSE CodeWord
    BY Zenon DEF FromEnd
  <2>3. Len(Tape) = n + 2 * s
    BY <1>4
  <2>4. back <= Len(Tape) /\ Len(Tape) - back + 1 = x
    BY <1>2, <1>3, <2>1, <2>3
  <2>5. FromEnd(back) = Tape[x]
    BY <2>2, <2>4, Zenon
  <2> QED
    BY <2>5 DEF back
<1>6. ASSUME NEW y \in Nat, y >= 1, y <= 2 * s
      PROVE  FromEnd(2 * s - y + 1) = tails[y]
  <2> DEFINE x == n + y
  <2> HIDE DEF n, s
  <2>1. /\ x \in Nat /\ x >= 1 /\ x <= n + 2 * s /\ x \in 1 .. n + 2 * s
        /\ ~(x <= n) /\ x - n = y /\ n + 2 * s - x + 1 = 2 * s - y + 1
    BY <1>2, <1>3, <1>6
  <2> HIDE DEF x
  <2>2. FromEnd(2 * s - y + 1) = Tape[x]
    BY <1>5, <2>1
  <2>3. Tape[x] = tails[y]
    BY <1>4, <2>1
  <2> QED
    BY <2>2, <2>3
<1>7. CASE IsString(j)
  <2> DEFINE y == 2 * z + 1
             back == 2 * (s - z)
  <2>1. z + 1 <= s
    BY <1>2, <1>7, StringsBelow DEF Strings, IsString
  <2>2. Back(j) = back
    BY <1>7 DEF Back
  <2>3. /\ args[j] \in Texts
        /\ tails[y] = args[j].len /\ tails[2 * z + 2] = args[j].data[1]
    BY <1>1, <1>7 DEF Lies
  <2> HIDE DEF n, s, z
  <2>4. /\ y \in Nat /\ y >= 1 /\ y <= 2 * s /\ y + 1 \in Nat /\ y + 1 >= 1 /\ y + 1 <= 2 * s
        /\ y + 1 = 2 * z + 2
        /\ 2 * s - y + 1 = back /\ 2 * s - (y + 1) + 1 = back - 1
    BY <1>3, <2>1
  <2> HIDE DEF y, back
  <2>5. FromEnd(back) = tails[y]
    BY <1>6, <2>4
  <2>6. FromEnd(back - 1) = tails[y + 1]
    BY <1>6, <2>4
  <2>7. FromEnd(back - 1) = args[j].data[1]
    BY <2>3, <2>4, <2>6, Zenon
  <2> QED
    BY <1>7, <2>2, <2>3, <2>5, <2>7, Zenon
<1>8. CASE ~IsString(j)
  <2>1. Back(j) = Total - (j - 1) /\ Total = n + 2 * s
    BY <1>8, Zenon DEF Back, Total
  <2> HIDE DEF n, s
  <2>2. /\ j <= n + 2 * s /\ n + 2 * s - j + 1 = n + 2 * s - (j - 1) /\ j \in 1 .. n + 2 * s
    BY <1>2, <1>3
  <2>3. FromEnd(n + 2 * s - (j - 1)) = Tape[j]
    BY <1>2, <1>5, <2>2
  <2>4. Tape[j] = heads[j]
    BY <1>2, <1>4, <2>2
  <2>5. heads[j] = args[j]
    BY <1>1, <1>8 DEF Lies
  <2>6. Back(j) = n + 2 * s - (j - 1)
    BY <1>2, <1>3, <2>1
  <2>7. FromEnd(n + 2 * s - (j - 1)) = args[j]
    BY <2>3, <2>4, <2>5
  <2> QED
    BY <1>8, <2>6, <2>7, Zenon
<1> QED
  BY <1>7, <1>8

(* The same word, counted from in front and from behind.                   *)
LEMMA FromBehind ==
  ASSUME NEW n \in Nat, NEW m \in Nat, NEW s \in Nat, NEW z \in Nat, NEW x \in 1 .. m, NEW b,
         x = m - 2 * (s - (z + 1)) - 1, b = 2 * (s - z), NEW len, len = n + m
  PROVE  /\ b <= len /\ len - b + 1 = n + x
         /\ n + x \in 1 .. n + m /\ ~(n + x <= n) /\ (n + x) - n = x
<1>1. b = m - x + 1
  OBVIOUS
<1> QED
  BY <1>1

(* What it meets of the string that blocks: a word that is no length of a  *)
(* short one.                                                              *)
LEMMA Meeting ==
  ASSUME ArrivalInv, stage = "run", NEW j \in 1 .. Len(params), Blocked(j)
  PROVE  FromEnd(Back(j)) \in Nat /\ FromEnd(Back(j)) >= 32
<1> DEFINE n == Len(params)
           m == Len(tails)
           x == Look(j)
<1>1. /\ heads \in Seq(Nat) /\ tails \in Seq(Nat) /\ Len(args) = n /\ Len(heads) = n
      /\ IsString(j) /\ x \in 1 .. m /\ tails[x] >= 32
  BY DEF ArrivalInv, BaseInv, TypeOK, Encoded, Blocked, Before
<1>2. n \in Nat /\ m \in Nat /\ j \in Nat /\ j - 1 \in Nat /\ j <= n
  BY <1>1, LenProperties
<1>3. PICK s \in Nat, z \in Nat : /\ s = Strings(n) /\ z = Strings(j - 1)
                                   /\ Strings(j) = z + 1 /\ z + 1 <= s
  BY <1>1, <1>2, StringsType, StringsBelow DEF Strings, IsString
<1>4. x = m - 2 * (s - (z + 1)) - 1 /\ Back(j) = 2 * (s - z)
  BY <1>1, <1>3 DEF Look, Back
<1>5. /\ Len(Tape) = n + m
      /\ \A y \in 1 .. n + m : Tape[y] = IF y <= n THEN heads[y] ELSE tails[y - n]
  <2>1. /\ Len(Tape) = Len(heads) + Len(tails)
        /\ \A y \in 1 .. Len(heads) + Len(tails) :
             Tape[y] = IF y <= Len(heads) THEN heads[y] ELSE tails[y - Len(heads)]
    BY <1>1, ConcatProperties, Zenon DEF Tape
  <2> HIDE DEF n, m
  <2> QED
    BY <1>1, <2>1 DEF m
<1> DEFINE back == Back(j)
<1>6. /\ back <= Len(Tape) /\ Len(Tape) - back + 1 = n + x
      /\ n + x \in 1 .. n + m /\ ~(n + x <= n) /\ (n + x) - n = x
  <2>1. /\ back = 2 * (s - z) /\ x = m - 2 * (s - (z + 1)) - 1 /\ x \in 1 .. m
        /\ n \in Nat /\ m \in Nat
    BY <1>1, <1>2, <1>4
  <2>2. Len(Tape) = n + m
    BY <1>5
  <2> HIDE DEF n, m, x, back
  <2> QED
    BY <2>1, <2>2, FromBehind
<1> HIDE DEF n, m, x, back
<1>7. FromEnd(back) = IF back <= Len(Tape) THEN Tape[Len(Tape) - back + 1] ELSE CodeWord
  BY Zenon DEF FromEnd
<1>8. FromEnd(back) = Tape[n + x]
  BY <1>6, <1>7, Zenon
<1>9. Tape[n + x] = tails[x]
  BY <1>5, <1>6
<1>10. tails[x] \in Nat
  BY <1>1, ElementOfSeq DEF m
<1> QED
  BY <1>1, <1>8, <1>9, <1>10 DEF back

(* One store changes one word.                                             *)
LEMMA Storing ==
  ASSUME NEW m, NEW a, NEW w
  PROVE  /\ a \in DOMAIN Stored(m, a, w) /\ Stored(m, a, w)[a] = w
         /\ \A x \in DOMAIN m :
              x # a => x \in DOMAIN Stored(m, a, w) /\ Stored(m, a, w)[x] = m[x]
BY DEF Stored

(* The locals of two parameters are different words, above the scratch.    *)
LEMMA SlotsDiffer ==
  ASSUME NEW j \in Nat, NEW l \in Nat, j >= 1, l >= 1
  PROVE  /\ Slot(j) # 0 /\ Slot(j) # 32
         /\ j # l => Slot(j) # Slot(l)
BY DEF Slot

(* An entry of the prologue that stores its word, and touches at most the  *)
(* scratch besides, leaves the locals before it as they are.               *)
LEMMA EntryArrives ==
  ASSUME ArrivalInv, stage = "run", i <= Len(params), i' = i + 1,
         UNCHANGED <<stage, params, args, heads, tails>>,
         ~Blocked(i),
         Plain => /\ Slot(i) \in DOMAIN mem' /\ mem'[Slot(i)] = Meant(i)
                  /\ IsString(i) => args[i].len < 32,
         \A x \in DOMAIN mem : x \notin {0, 32, Slot(i)} => x \in DOMAIN mem' /\ mem'[x] = mem[x]
  PROVE  Encoded' /\ Arrived'
<1>1. /\ i \in Nat /\ i >= 1 /\ Len(params) \in Nat /\ Len(args) = Len(params)
      /\ \A j \in 1 .. Len(params) : j < i => Done(j)
  BY LenProperties DEF ArrivalInv, BaseInv, TypeOK, Encoded, Arrived, Before
<1>2. Encoded'
  BY <1>1, SentStays DEF Before
<1>3. ASSUME NEW j \in 1 .. Len(params), j < i + 1
      PROVE  Done(j)'
  <2>1. /\ Slot(j)' = Slot(j) /\ Meant(j)' = Meant(j) /\ IsString(j)' = IsString(j)
        /\ Blocked(j)' = Blocked(j) /\ Plain' = Plain
    BY SameEncoding DEF Slot, Meant, IsString
  <2> HIDE DEF Plain, Blocked
  <2>2. /\ ~Blocked(j)
        /\ Plain => /\ Slot(j) \in DOMAIN mem' /\ mem'[Slot(j)] = Meant(j)
                    /\ IsString(j) => args[j].len < 32
    <3>1. CASE j = i
      BY <3>1
    <3>2. CASE j # i
      <4>1. j < i /\ j \in Nat /\ j >= 1
        BY <1>1, <1>3, <3>2
      <4>2. Done(j)
        BY <1>1, <4>1
      <4>3. Slot(j) \notin {0, 32, Slot(i)}
        BY <1>1, <3>2, <4>1, SlotsDiffer
      <4> QED
        BY <4>2, <4>3 DEF Done
    <3> QED
      BY <3>1, <3>2
  <2> QED
    BY <2>1, <2>2 DEF Done
<1>4. Arrived'
  <2> HIDE DEF Done
  <2> QED
    BY <1>1, <1>3 DEF Arrived
<1> QED
  BY <1>2, <1>4

LEMMA RunWordArrives ==
  ASSUME ArrivalInv, RunWord
  PROVE  Encoded' /\ Arrived'
<1>1. /\ stage = "run" /\ i <= Len(prologue) /\ prologue[i].kind = "word" /\ i' = i + 1
      /\ mem' = Stored(mem, prologue[i].slot, FromEnd(prologue[i].back))
      /\ UNCHANGED <<stage, params, args, heads, tails>>
  BY DEF RunWord, built, sent
<1>2. /\ i \in Nat /\ i >= 1 /\ Len(prologue) = Len(params) /\ Len(params) \in Nat
      /\ \A j \in 1 .. Len(prologue) : prologue[j] = Entry(j)
  BY <1>1, LenProperties DEF ArrivalInv, BaseInv, TypeOK, Lowered, Arrived, Before
<1>3. i \in 1 .. Len(params) /\ prologue[i] = Entry(i)
  BY <1>1, <1>2
<1>4. ~IsString(i) /\ prologue[i].slot = Slot(i) /\ prologue[i].back = Back(i)
  BY <1>1, <1>3 DEF Entry, IsString
<1>5. Plain => FromEnd(Back(i)) = Meant(i)
  BY <1>1, <1>3, <1>4, Reading DEF Meant
<1>6. mem' = Stored(mem, Slot(i), FromEnd(Back(i))) /\ ~Blocked(i)
  BY <1>1, <1>4 DEF Blocked
<1> HIDE DEF Stored, Plain, Blocked
<1>7. /\ Plain => Slot(i) \in DOMAIN mem' /\ mem'[Slot(i)] = Meant(i)
      /\ \A x \in DOMAIN mem : x \notin {0, 32, Slot(i)} => x \in DOMAIN mem' /\ mem'[x] = mem[x]
  BY <1>5, <1>6, Storing
<1> QED
  BY <1>1, <1>2, <1>4, <1>6, <1>7, EntryArrives

LEMMA RunStringArrives ==
  ASSUME NoneLooksShort, ArrivalInv, RunString
  PROVE  Encoded' /\ Arrived'
<1> DEFINE len == FromEnd(prologue[i].back)
           data == FromEnd(prologue[i].back - 1)
           scratch == Stored(Stored(mem, 0, len), 32, data)
<1>1. /\ stage = "run" /\ i <= Len(prologue) /\ prologue[i].kind = "string"
      /\ \/ /\ Fits(len) /\ mem' = Stored(scratch, prologue[i].slot, Pack(data, len))
            /\ i' = i + 1 /\ stage' = stage
         \/ ~Fits(len) /\ stage' = "refused"
      /\ UNCHANGED <<params, args, heads, tails>>
  BY DEF RunString, built, sent
<1>2. /\ i \in Nat /\ i >= 1 /\ Len(prologue) = Len(params) /\ Len(params) \in Nat
      /\ \A j \in 1 .. Len(prologue) : prologue[j] = Entry(j)
      /\ Len(args) = Len(params)
  BY <1>1, LenProperties DEF ArrivalInv, BaseInv, TypeOK, Lowered, Encoded, Arrived, Before
<1>3. i \in 1 .. Len(params) /\ prologue[i] = Entry(i)
  BY <1>1, <1>2
<1>4. IsString(i) /\ prologue[i].slot = Slot(i) /\ prologue[i].back = Back(i)
  BY <1>1, <1>3 DEF Entry, IsString
<1>5. Plain => args[i] \in Texts /\ len = args[i].len /\ data = args[i].data[1]
  <2>1. Plain => /\ args[i] \in Texts
                 /\ FromEnd(Back(i)) = args[i].len /\ FromEnd(Back(i) - 1) = args[i].data[1]
    BY <1>1, <1>3, <1>4, Reading
  <2> QED
    BY <1>4, <2>1
<1>6. Plain => Pack(data, len) = Meant(i) /\ args[i].len \in Nat
  BY <1>4, <1>5, TextShape DEF Meant
<1>7. CASE Fits(len) /\ stage' = stage
  <2>1. mem' = Stored(scratch, Slot(i), Pack(data, len)) /\ i' = i + 1
    BY <1>1, <1>4, <1>7
  <2>2. ~Blocked(i) /\ (Plain => args[i].len < 32)
    <3>1. len < 32
      BY <1>7 DEF Fits
    <3>2. ASSUME Blocked(i) PROVE FALSE
      <4>1. FromEnd(Back(i)) \in Nat /\ FromEnd(Back(i)) >= 32
        BY <1>1, <1>3, <3>2, Meeting
      <4> QED
        BY <1>4, <3>1, <4>1
    <3> QED
      BY <1>5, <3>1, <3>2
  <2> HIDE DEF len, data, Plain, Blocked
  <2>3. \A x \in DOMAIN mem : x \notin {0, 32} => x \in DOMAIN scratch /\ scratch[x] = mem[x]
    <3> DEFINE first == Stored(mem, 0, len)
    <3>1. \A x \in DOMAIN mem : x # 0 => x \in DOMAIN first /\ first[x] = mem[x]
      BY Storing
    <3> HIDE DEF first
    <3>2. \A x \in DOMAIN first :
            x # 32 => x \in DOMAIN Stored(first, 32, data) /\ Stored(first, 32, data)[x] = first[x]
      BY Storing
    <3> QED
      BY <3>1, <3>2 DEF first
  <2> HIDE DEF scratch
  <2>4. /\ Plain => Slot(i) \in DOMAIN mem' /\ mem'[Slot(i)] = Meant(i)
        /\ \A x \in DOMAIN scratch : x # Slot(i) => x \in DOMAIN mem' /\ mem'[x] = scratch[x]
    BY <1>6, <2>1, Storing
  <2>5. \A x \in DOMAIN mem :
          x \notin {0, 32, Slot(i)} => x \in DOMAIN mem' /\ mem'[x] = mem[x]
    BY <2>3, <2>4
  <2> QED
    BY <1>1, <1>2, <1>7, <2>1, <2>2, <2>4, <2>5, EntryArrives
<1>8. CASE ~Fits(len) /\ stage' = "refused"
  <2>1. \E j \in 1 .. Len(params) : IsString(j) /\ args[j].len >= 32
    <3>1. CASE Plain
      BY <1>3, <1>4, <1>5, <1>6, <1>8, <3>1 DEF Fits
    <3>2. CASE ~Plain
      BY <1>2, <3>2 DEF ArrivalInv, Encoded, Blocked
    <3> QED
      BY <3>1, <3>2
  <2>2. Encoded'
    BY <1>1, <1>2, <1>8, SentStays DEF Before
  <2>3. Arrived'
    BY <1>1, <1>8, <2>1 DEF Arrived, IsString
  <2> QED
    BY <2>2, <2>3
<1> QED
  BY <1>1, <1>7, <1>8

(* The body and the epilogue leave locals and arguments as they are.       *)
LEMMA BodyArrives ==
  ASSUME ArrivalInv, RunBody \/ RunEpilogue
  PROVE  Encoded' /\ Arrived'
<1>1. /\ stage \in {"run", "epilogue"} /\ stage' \in {"epilogue", "reverted", "deployed"}
      /\ stage = "run" => i > Len(prologue)
      /\ UNCHANGED <<params, args, heads, tails, mem>>
  BY DEF RunBody, RunEpilogue, built, sent
<1>2. /\ Len(args) = Len(params) /\ Len(prologue) = Len(params) /\ Len(params) \in Nat
      /\ i \in Nat /\ \A j \in 1 .. Len(params) : Done(j)
  <2>1. /\ Len(args) = Len(params) /\ Len(prologue) = Len(params) /\ Len(params) \in Nat /\ i \in Nat
    BY <1>1, LenProperties DEF ArrivalInv, BaseInv, TypeOK, Lowered, Encoded, Before
  <2>2. CASE stage = "run"
    <3>1. \A j \in 1 .. Len(params) : j < i => Done(j)
      BY <2>2 DEF ArrivalInv, Arrived
    <3> HIDE DEF Done
    <3> QED
      BY <1>1, <2>1, <2>2, <3>1
  <2>3. CASE stage = "epilogue"
    BY <2>1, <2>3 DEF ArrivalInv, Arrived
  <2> QED
    BY <1>1, <2>2, <2>3
<1>3. Encoded'
  BY <1>1, <1>2, SentStays DEF Before
<1>4. \A j : Done(j)' = Done(j)
  <2>1. /\ \A j : Blocked(j)' = Blocked(j) /\ IsString(j)' = IsString(j)
        /\ Plain' = Plain
    BY <1>1, SameEncoding
  <2> HIDE DEF Blocked, Plain
  <2> QED
    BY <1>1, <2>1 DEF Done, Slot, Meant
<1>5. Arrived'
  <2> HIDE DEF Done
  <2> QED
    BY <1>1, <1>2, <1>4 DEF Arrived
<1> QED
  BY <1>3, <1>5

LEMMA ArrivalStep == NoneLooksShort /\ ArrivalInv /\ [Next]_vars => ArrivalInv'
<1> SUFFICES ASSUME NoneLooksShort, ArrivalInv, [Next]_vars PROVE ArrivalInv'
  OBVIOUS
<1>1. BaseInv'
  BY BaseStep DEF ArrivalInv
<1>2. Encoded' /\ Arrived'
  <2>1. CASE UNCHANGED vars
    <3>0. /\ \A j : Blocked(j)' = Blocked(j) /\ IsString(j)' = IsString(j)
          /\ Plain' = Plain
      BY <2>1, SameEncoding DEF vars
    <3> HIDE DEF Blocked, Plain
    <3>1. \A j : Done(j)' = Done(j)
      BY <2>1, <3>0 DEF vars, Done, Slot, Meant
    <3> HIDE DEF Done
    <3>3. Encoded'
      BY <2>1, <3>0 DEF vars, ArrivalInv, Encoded
    <3>4. Arrived'
      BY <2>1, <3>0, <3>1 DEF vars, ArrivalInv, Arrived
    <3> QED
      BY <3>3, <3>4
  <2> QED
    BY <2>1, BuildArrives, EncodeWordArrives, EncodeStringArrives, SendArrives,
       RunWordArrives, RunStringArrives, BodyArrives DEF Next
<1> QED
  BY <1>1, <1>2 DEF ArrivalInv

LEMMA InBodyDone ==
  ASSUME ArrivalInv, InBody
  PROVE  \A j \in 1 .. Len(params) : Done(j)
<1>1. CASE stage \in {"epilogue", "deployed"}
  BY <1>1 DEF ArrivalInv, Arrived
<1>2. CASE stage = "run" /\ i > Len(prologue)
  <2>1. Len(prologue) = Len(params) /\ Len(params) \in Nat /\ i \in Nat
    BY <1>2, LenProperties DEF ArrivalInv, BaseInv, TypeOK, Lowered, Before
  <2>2. \A j \in 1 .. Len(params) : j < i => Done(j)
    BY <1>2 DEF ArrivalInv, Arrived
  <2> HIDE DEF Done
  <2> QED
    BY <1>2, <2>1, <2>2
<1> QED
  BY <1>1, <1>2 DEF InBody

(* So none blocks, and all are plain.                                      *)
LEMMA InBodyPlain ==
  ASSUME ArrivalInv, InBody
  PROVE  /\ Plain /\ Len(args) = Len(params)
         /\ \A j \in 1 .. Len(params) : /\ Slot(j) \in DOMAIN mem /\ mem[Slot(j)] = Meant(j)
                                        /\ IsString(j) => args[j].len < 32
<1>1. stage \notin Before \cup {"encode"}
  BY DEF InBody, Before
<1>2. Len(args) = Len(params) /\ (Plain \/ \E j \in 1 .. Len(args) : Blocked(j))
  BY <1>1 DEF ArrivalInv, Encoded
<1> HIDE DEF Plain, Blocked
<1> QED
  BY <1>2, InBodyDone DEF Done

(* When the body of the constructor runs, each local holds the argument    *)
(* that was passed for its parameter, whatever the signature is: the       *)
(* offsets that lower_constructor() counts from the end of the code and    *)
(* those of the ABI meet.                                                  *)
THEOREM Arrival ==
  ASSUME NoneLooksShort
  PROVE  Spec => []ArgumentsArrive
<1>1. ArrivalInv => ArgumentsArrive
  BY InBodyPlain DEF ArgumentsArrive
<1> QED
  BY ArrivalInit, ArrivalStep, <1>1, PTL DEF Spec

(* No string of 32 bytes or more gets that far, however many words it      *)
(* fills, and no deployment without one is refused.                        *)
THEOREM Refusal ==
  ASSUME NoneLooksShort
  PROVE  Spec => []LongStringsRefused
<1>1. ArrivalInv => LongStringsRefused
  <2> SUFFICES ASSUME ArrivalInv PROVE LongStringsRefused
    OBVIOUS
  <2> DEFINE long == {j \in 1 .. Len(params) : IsString(j) /\ args[j].len >= 32}
  <2>1. InBody => long = {}
    <3> SUFFICES ASSUME InBody, NEW j \in 1 .. Len(params), IsString(j)
                 PROVE  ~(args[j].len >= 32)
      OBVIOUS
    <3>1. args[j].len < 32 /\ args[j] \in Texts
      BY InBodyPlain DEF Plain, Lies
    <3> QED
      BY <3>1, TextShape
  <2>2. stage = "refused" => long # {}
    BY DEF ArrivalInv, Arrived
  <2> QED
    BY <2>1, <2>2 DEF LongStringsRefused
<1> QED
  BY ArrivalInit, ArrivalStep, <1>1, PTL DEF Spec
=============================================================================
