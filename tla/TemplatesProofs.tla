---------------------------- MODULE TemplatesProofs ----------------------------
(***************************************************************************)
(* The invariants of module Templates, for every program.  Labels are      *)
(* numbered by the replacement that allocates them; while no loop is in    *)
(* another statement a mention of a label variable means the label of its  *)
(* own template, each label is placed once, and none is jumped to that is  *)
(* not placed; functions end; and, if functions with a result type end in  *)
(* a value, the stack is what every instruction, label and return expects  *)
(* and never below empty, and no label is used before it is allocated.     *)
(***************************************************************************)
EXTENDS TemplateEffects, SequenceTheorems

\* The blocks, and the labels, that the rules make and take apart: what can be
\* said before anything is known of labels and of the stack.
Blocks == [scope : [Names -> Nat], code : Seq(Items), exit : Int]
Labels == Nat \X Names

Vocabulary ==
  /\ blocks \in Seq(Blocks)
  /\ height \in Int /\ live \in BOOLEAN
  /\ DOMAIN at \subseteq Labels /\ \A l \in DOMAIN at : at[l] \in Int
  /\ placed \subseteq Labels
  /\ entries \in Seq(Nat)
  /\ replaced \in Nat /\ size \in 0 .. MaxSize

\* The innermost block is left with the label variables s and the code c.
Becomes(bs, s, c) ==
  /\ bs \in Seq(Blocks) /\ Len(bs) = Len(blocks)
  /\ \A b \in 1 .. Len(blocks) - 1 : bs[b] = blocks[b]
  /\ bs[Len(blocks)] = Block(s, c, Top.exit)

\* The first item of a code, and what follows it.
LEMMA Tails ==
  ASSUME NEW code \in Seq(Items), code # <<>>
  PROVE  /\ Head(code) = code[1] /\ Head(code) \in Items
         /\ Len(code) \in Nat \ {0} /\ DOMAIN code = 1 .. Len(code)
         /\ Tail(code) \in Seq(Items) /\ Len(Tail(code)) = Len(code) - 1
         /\ DOMAIN Tail(code) = 1 .. Len(code) - 1
         /\ \A k \in 1 .. Len(code) - 1 : Tail(code)[k] = code[k + 1]
<1>1. Len(code) \in Nat /\ Len(code) # 0
  BY EmptySeq
<1> HIDE DEF Items
<1> QED
  BY <1>1, HeadTailProperties

\* The fields of an item of a code.
LEMMA Typed ==
  ASSUME NEW code \in Seq(Items), NEW k \in DOMAIN code
  PROVE  /\ code[k] \in Items /\ code[k].op \in Ops /\ code[k].of \in Nat
         /\ code[k].name \in Names /\ code[k].inside \in BOOLEAN
<1>1. code[k] \in Items
  <2> HIDE DEF Items
  <2> QED
    OBVIOUS
<1> QED
  BY <1>1 DEF Items

\* A code in the place of the first item of another.
LEMMA Splices ==
  ASSUME NEW code \in Seq(Items), code # <<>>, NEW new \in Seq(Items),
         NEW s, s = new \o Tail(code)
  PROVE  /\ s \in Seq(Items) /\ Len(s) = Len(new) + Len(code) - 1
         /\ Len(new) \in Nat
         /\ DOMAIN s = 1 .. Len(new) + Len(code) - 1
         /\ \A k \in 1 .. Len(new) : s[k] = new[k]
         /\ \A k \in 2 .. Len(code) : s[Len(new) + k - 1] = code[k]
<1>1. /\ Len(code) \in Nat \ {0} /\ Tail(code) \in Seq(Items) /\ Len(Tail(code)) = Len(code) - 1
      /\ \A k \in 1 .. Len(code) - 1 : Tail(code)[k] = code[k + 1]
  BY Tails
<1> HIDE DEF Items
<1>2. Len(new) \in Nat
  OBVIOUS
<1>3. s \in Seq(Items) /\ Len(s) = Len(new) + Len(Tail(code))
  BY <1>1, ConcatProperties
<1>4. \A k \in 1 .. Len(s) : s[k] = IF k <= Len(new) THEN new[k] ELSE Tail(code)[k - Len(new)]
  BY <1>1, <1>3, ConcatProperties
<1>5. \A k \in 2 .. Len(code) : s[Len(new) + k - 1] = code[k]
  <2> TAKE k \in 2 .. Len(code)
  <2>1. /\ Len(new) + k - 1 \in 1 .. Len(s) /\ ~(Len(new) + k - 1 <= Len(new))
        /\ Len(new) + k - 1 - Len(new) = k - 1 /\ k - 1 \in 1 .. Len(code) - 1 /\ k - 1 + 1 = k
    BY <1>1, <1>2, <1>3
  <2> QED
    BY <2>1, <1>1, <1>4
<1>6. \A k \in 1 .. Len(new) : s[k] = new[k]
  BY <1>1, <1>2, <1>3, <1>4
<1> QED
  BY <1>1, <1>2, <1>3, <1>5, <1>6

\* The innermost block.
LEMMA Tops ==
  ASSUME Vocabulary, blocks # <<>>
  PROVE  /\ Len(blocks) \in Nat \ {0} /\ DOMAIN blocks = 1 .. Len(blocks)
         /\ Top \in Blocks /\ Top = Block(Top.scope, Top.code, Top.exit)
         /\ Top.scope \in [Names -> Nat] /\ Top.code \in Seq(Items) /\ Top.exit \in Int
         /\ Busy => /\ Item = Top.code[1] /\ Item \in Items /\ Rest \in Seq(Items)
                    /\ Item.op \in Ops /\ Item.name \in Names /\ Item.of \in Nat
                    /\ Item.inside \in BOOLEAN
<1>1. blocks \in Seq(Blocks)
  BY DEF Vocabulary, Blocks
<1>2. Len(blocks) \in Nat \ {0} /\ DOMAIN blocks = 1 .. Len(blocks)
  <2> HIDE DEF Blocks
  <2> QED
    BY <1>1, EmptySeq
<1>3. Top \in Blocks
  BY <1>1, <1>2, ElementOfSeq DEF Top
<1>4. /\ Top = Block(Top.scope, Top.code, Top.exit)
      /\ Top.scope \in [Names -> Nat] /\ Top.code \in Seq(Items) /\ Top.exit \in Int
  <2> HIDE DEF Items, Names
  <2> QED
    BY <1>3 DEF Blocks, Block
<1>5. ASSUME Busy
      PROVE  Item = Top.code[1] /\ Item \in Items /\ Rest \in Seq(Items)
  BY <1>4, <1>5, Tails DEF Busy, Item, Rest
<1>6. ASSUME Busy
      PROVE  Item.op \in Ops /\ Item.name \in Names /\ Item.of \in Nat /\ Item.inside \in BOOLEAN
  BY <1>5, <1>6 DEF Items
<1> QED
  BY <1>2, <1>3, <1>4, <1>5, <1>6

\* To go on with another code.
LEMMA Continues ==
  ASSUME Vocabulary, blocks # <<>>, NEW c \in Seq(Items)
  PROVE  Becomes(Continue(c), Top.scope, c)
<1>1. blocks \in Seq(Blocks)
  BY DEF Vocabulary, Blocks
<1>2. /\ Len(blocks) \in Nat \ {0} /\ DOMAIN blocks = 1 .. Len(blocks)
      /\ Top \in Blocks /\ Top = Block(Top.scope, Top.code, Top.exit)
      /\ Top.scope \in [Names -> Nat] /\ Top.exit \in Int
  BY Tops
<1>3. [Top EXCEPT !.code = c] = Block(Top.scope, c, Top.exit)
  <2> DEFINE scope == Top.scope
             code == Top.code
             exit == Top.exit
  <2>1. Top = [scope |-> scope, code |-> code, exit |-> exit]
    BY <1>2 DEF Block
  <2> HIDE DEF scope, code, exit, Top
  <2>2. [[scope |-> scope, code |-> code, exit |-> exit] EXCEPT !.code = c]
          = [scope |-> scope, code |-> c, exit |-> exit]
    OBVIOUS
  <2> QED
    BY <2>1, <2>2 DEF Block, scope, exit
<1>4. Continue(c) = [blocks EXCEPT ![Len(blocks)] = Block(Top.scope, c, Top.exit)]
  <2> DEFINE bs == [blocks EXCEPT ![Len(blocks)] = [blocks[Len(blocks)] EXCEPT !.code = c]]
  <2>1. Continue(c) = bs
    BY DEF Continue
  <2> QED
    BY <2>1, <1>3, Zenon DEF Top
<1>5. Block(Top.scope, c, Top.exit) \in Blocks
  BY <1>2 DEF Block, Blocks
<1> HIDE DEF Blocks, Items
<1>6. /\ Continue(c) \in Seq(Blocks) /\ Len(Continue(c)) = Len(blocks)
      /\ \A b \in 1 .. Len(blocks) :
           Continue(c)[b] = IF b = Len(blocks) THEN Block(Top.scope, c, Top.exit) ELSE blocks[b]
  BY <1>1, <1>2, <1>4, <1>5, ExceptSeq
<1>7. /\ Len(blocks) \in 1 .. Len(blocks)
      /\ \A b \in 1 .. Len(blocks) - 1 : b \in 1 .. Len(blocks) /\ b # Len(blocks)
  <2>1. Len(blocks) \in Nat \ {0}
    BY <1>2
  <2> QED
    BY ONLY <2>1
<1> HIDE DEF Continue, Top
<1> QED
  BY <1>6, <1>7 DEF Becomes

\* Items that are emitted, and items that open a block.
Emitted == Instructions \cup Mentions \cup {"LET"}
Braces == {"IfThen", "IfElse", "Require", "DecodeParam", "DecodeArg"}

\* What the label variables hold after the next item.
Held == IF Item.op = "LET" THEN [Top.scope EXCEPT ![Item.name] = Item.of] ELSE Top.scope

\* To emit an instruction or a label is to go on with the rest.
LEMMA Advances ==
  ASSUME Vocabulary, Emit \/ Let \/ Jump \/ PlaceLabel
  PROVE  /\ Busy /\ Item.op \in Emitted
         /\ Becomes(blocks', Held, Rest)
         /\ UNCHANGED <<entries, replaced, size>>
<1>1. Busy /\ Item.op \in Emitted /\ UNCHANGED <<entries, replaced, size>>
  BY DEF Emit, Let, Jump, PlaceLabel, Emitted, Mentions
<1>2. blocks # <<>> /\ Rest \in Seq(Items) /\ Item.name \in Names /\ Item.of \in Nat
  BY <1>1, Tops DEF Busy
<1>3. Becomes(Continue(Rest), Top.scope, Rest)
  BY <1>2, Continues
<1>4. ASSUME Emit \/ Jump \/ PlaceLabel
      PROVE  Becomes(blocks', Held, Rest)
  <2>1. blocks' = Continue(Rest) /\ Item.op # "LET"
    BY <1>4 DEF Emit, Jump, PlaceLabel, Instructions
  <2> QED
    BY <1>3, <2>1, Zenon DEF Held
<1>5. ASSUME Let
      PROVE  Becomes(blocks', Held, Rest)
  <2> DEFINE N == Len(blocks)
             bs == Continue(Rest)
             more == [bs[N] EXCEPT !.scope = [bs[N].scope EXCEPT ![Item.name] = Item.of]]
             scope == [Top.scope EXCEPT ![Item.name] = Item.of]
  <2>1. blocks' = [bs EXCEPT ![N] = more] /\ Held = scope
    BY <1>5 DEF Let, Held
  <2>2. N \in Nat \ {0} /\ Top.scope \in [Names -> Nat] /\ Top.exit \in Int
    BY <1>2, Tops
  <2>3. /\ bs \in Seq(Blocks) /\ Len(bs) = N /\ bs[N] = Block(Top.scope, Rest, Top.exit)
        /\ \A b \in 1 .. N - 1 : bs[b] = blocks[b]
    BY <1>3 DEF Becomes
  <2>4. scope \in [Names -> Nat]
    BY <1>2, <2>2
  <2>5. more = Block(scope, Rest, Top.exit)
    <3> DEFINE exit == Top.exit
               old == Top.scope
    <3>1. bs[N] = [scope |-> old, code |-> Rest, exit |-> exit]
      BY <2>3 DEF Block
    <3> HIDE DEF exit, old, bs, N
    <3>2. more = [scope |-> [old EXCEPT ![Item.name] = Item.of], code |-> Rest, exit |-> exit]
      BY <3>1
    <3> QED
      BY <3>2 DEF Block, exit, old
  <2>6. Block(scope, Rest, Top.exit) \in Blocks
    <3> HIDE DEF scope
    <3> QED
      BY <1>2, <2>2, <2>4 DEF Block, Blocks
  <2> HIDE DEF bs, more, scope, Blocks
  <2>7. /\ blocks' \in Seq(Blocks) /\ Len(blocks') = N
        /\ \A b \in 1 .. N : blocks'[b] = IF b = N THEN Block(scope, Rest, Top.exit) ELSE bs[b]
    BY <2>1, <2>2, <2>3, <2>5, <2>6, ExceptSeq
  <2>8. N \in 1 .. N /\ \A b \in 1 .. N - 1 : b \in 1 .. N /\ b # N
    <3>1. N \in Nat \ {0}
      BY <2>2
    <3> HIDE DEF N
    <3> QED
      BY ONLY <3>1
  <2> QED
    BY <2>1, <2>3, <2>7, <2>8 DEF Becomes
<1> QED
  BY <1>1, <1>4, <1>5

\* A template is replaced: its code, then the rest.
LEMMA Replaces ==
  ASSUME Vocabulary, Busy, NEW code \in Seq(Items), Replace(code)
  PROVE  /\ Becomes(blocks', Top.scope, code \o Rest)
         /\ replaced' = New /\ size' \in 0 .. MaxSize
         /\ UNCHANGED <<height, live, at, placed, entries>>
<1>1. blocks # <<>> /\ Rest \in Seq(Items)
  BY Tops DEF Busy
<1>2. code \o Rest \in Seq(Items)
  <2> HIDE DEF Items
  <2> QED
    BY <1>1, ConcatProperties
<1>3. Becomes(Continue(code \o Rest), Top.scope, code \o Rest)
  BY <1>1, <1>2, Continues
<1>4. /\ blocks' = Continue(code \o Rest) /\ UNCHANGED <<height, live, at, placed, entries>>
      /\ replaced' = New
  BY DEF Replace, Replaced, New
<1>5. size' \in 0 .. MaxSize
  <2>1. size \in 0 .. MaxSize /\ MaxSize \in Nat
    BY TemplatesAssumption DEF Vocabulary
  <2>2. PICK grows \in BOOLEAN : (grows => size < MaxSize) /\ size' = IF grows THEN size + 1 ELSE size
    BY DEF Replace, Replaced
  <2> QED
    BY <2>1, <2>2
<1> QED
  BY <1>3, <1>4, <1>5

\* Whatever rule replaces the next template.
LEMMA Replacements ==
  ASSUME Vocabulary, Snippet \/ Lower \/ Dispatch
  PROVE  /\ Busy /\ Item.op \notin Emitted \cup Braces
         /\ replaced' = New /\ size' \in 0 .. MaxSize
         /\ UNCHANGED <<height, live, at, placed>>
         /\ \E code \in Seq(Items) :
              /\ Sound(code, Item, New) /\ Becomes(blocks', Top.scope, code \o Rest)
              /\ \/ entries' = entries /\ (Plain(code) \/ Places(code, New))
                 \/ entries' = Append(entries, New) /\ Item.op = "Arms" /\ code = Arm(New)
<1> DEFINE Goal == /\ Item.op \notin Emitted \cup Braces
                   /\ replaced' = New /\ size' \in 0 .. MaxSize
                   /\ UNCHANGED <<height, live, at, placed>>
                   /\ \E code \in Seq(Items) :
                        /\ Sound(code, Item, New) /\ Becomes(blocks', Top.scope, code \o Rest)
                        /\ \/ entries' = entries /\ (Plain(code) \/ Places(code, New))
                           \/ entries' = Append(entries, New) /\ Item.op = "Arms" /\ code = Arm(New)
<1>1. Busy
  BY DEF Snippet, Lower, Dispatch
<1>2. New \in Nat \ {0} /\ Item \in Items /\ Item.inside \in BOOLEAN
  <2>1. replaced \in Nat
    BY DEF Vocabulary
  <2> QED
    BY <1>1, <2>1, Tops DEF Busy, New
<1>3. ASSUME NEW code, Sound(code, Item, New), Plain(code) \/ Places(code, New), Replace(code),
             Item.op \notin Emitted \cup Braces
      PROVE  Goal
  <2>1. code \in Seq(Items)
    BY <1>3 DEF Sound, Fine, Kept
  <2> QED
    BY <1>1, <1>3, <2>1, Replaces
<1>4. ASSUME NEW op, NEW codes, Choose(op, codes), op \notin Emitted \cup Braces,
             Item.op = op => \A code \in codes : Sound(code, Item, New) /\ (Plain(code) \/ Places(code, New))
      PROVE  Goal
  <2>1. PICK code \in codes : Replace(code) /\ Item.op = op
    BY <1>4 DEF Choose
  <2> HIDE DEF Goal
  <2> QED
    BY <1>3, <1>4, <2>1
<1>5. CASE Snippet
  <2>1. Item.op \in DOMAIN Snippets /\ Replace(Snippets[Item.op])
    BY <1>5 DEF Snippet
  <2>2. Sound(Snippets[Item.op], Item, New) /\ Plain(Snippets[Item.op])
    BY <1>2, <2>1, SnippetSound, NoLabels
  <2>3. Item.op \notin Emitted \cup Braces
    BY <2>1 DEF Snippets, Emitted, Braces, Instructions, Mentions
  <2> HIDE DEF Goal
  <2>4. Goal
    BY <1>3, <2>1, <2>2, <2>3
  <2> QED
    BY <1>1, <2>4 DEF Goal
<1>6. CASE Lower
  <2> DEFINE b == Item.inside
  <2> USE DEF Emitted, Braces, Instructions, Mentions
  <2> HIDE DEF Goal
  <2>1. ASSUME Choose("Expr", LowerExpr(b)) PROVE Goal
    BY <1>2, <1>4, <2>1, ExprSound, NoLabels
  <2>2. ASSUME Choose("Place", LowerPlace(b)) PROVE Goal
    BY <1>2, <1>4, <2>2, PlaceSound, NoLabels
  <2>3. ASSUME Choose("Fields", LowerFields(b)) PROVE Goal
    BY <1>2, <1>4, <2>3, FieldsSound, NoLabels
  <2>4. ASSUME Choose("Stored", LowerStored(b)) PROVE Goal
    BY <1>2, <1>4, <2>4, StoredSound, NoLabels
  <2>5. ASSUME Choose("Stmt", LowerStmt(b)) PROVE Goal
    BY <1>2, <1>4, <2>5, StmtSound, NoLabels
  <2>6. ASSUME Choose("Stmts", LowerStmts(b)) PROVE Goal
    BY <1>2, <1>4, <2>6, StmtsSound, NoLabels
  <2>7. ASSUME Choose("InternalCall", LowerInternalCall(b)) PROVE Goal
    BY <1>2, <1>4, <2>7, InternalCallSound, NoLabels
  <2>8. ASSUME Choose("InternalVoid", LowerInternalVoid(b)) PROVE Goal
    BY <1>2, <1>4, <2>8, InternalVoidSound, NoLabels
  <2>9. ASSUME Choose("ExternalCall", LowerExternalCall(b)) PROVE Goal
    BY <1>2, <1>4, <2>9, ExternalCallSound, NoLabels
  <2>10. ASSUME Choose("Body", LowerBlock) PROVE Goal
    BY <1>2, <1>4, <2>10, BodySound, NoLabels
  <2>11. ASSUME Choose("Return", LowerReturn) PROVE Goal
    BY <1>2, <1>4, <2>11, ReturnSound, NoLabels
  <2>12. ASSUME Choose("Params", LowerParams) PROVE Goal
    BY <1>2, <1>4, <2>12, ParamsSound, NoLabels
  <2>13. ASSUME Choose("Args", LowerArgs) PROVE Goal
    BY <1>2, <1>4, <2>13, ArgsSound, NoLabels
  <2>14. ASSUME Choose("While", {LowerWhile(New)}) PROVE Goal
    BY <1>2, <1>4, <2>14, WhileSound, OwnPlaces
  <2>15. ASSUME Choose("Checked", {Checked(New)}) PROVE Goal
    BY <1>2, <1>4, <2>15, CheckedSound, OwnPlaces
  <2>16. ASSUME Choose("Arms", {<<>>}) PROVE Goal
    <3>1. Plain(<<>>)
      BY DEF Plain
    <3> QED
      BY <1>2, <1>4, <2>16, <3>1, ArmsSound
  <2>17. Goal
    BY <1>6, <2>1, <2>2, <2>3, <2>4, <2>5, <2>6, <2>7, <2>8, <2>9, <2>10, <2>11, <2>12, <2>13,
       <2>14, <2>15, <2>16, Zenon DEF Lower
  <2> QED
    BY <1>1, <2>17 DEF Goal
<1>7. CASE Dispatch
  <2>1. /\ Item.op = "Arms" /\ blocks' = Continue(Arm(New) \o Rest)
        /\ entries' = Append(entries, New) /\ Replaced(TRUE)
    BY <1>7 DEF Dispatch
  <2>2. Sound(Arm(New), Item, New)
    BY <1>2, <2>1, ArmsSound
  <2>3. Arm(New) \in Seq(Items)
    BY <2>2 DEF Sound, Fine, Kept
  <2>4. blocks # <<>> /\ Rest \in Seq(Items)
    BY <1>1, Tops DEF Busy
  <2>5. Arm(New) \o Rest \in Seq(Items)
    <3> HIDE DEF Items
    <3> QED
      BY <2>3, <2>4, ConcatProperties
  <2>6. Becomes(blocks', Top.scope, Arm(New) \o Rest)
    BY <2>1, <2>4, <2>5, Continues
  <2>7. replaced' = New /\ size' \in 0 .. MaxSize /\ UNCHANGED <<height, live, at, placed>>
    <3>1. size \in 0 .. MaxSize /\ MaxSize \in Nat
      BY TemplatesAssumption DEF Vocabulary
    <3> QED
      BY <2>1, <3>1 DEF Replaced, New
  <2>8. Item.op \notin Emitted \cup Braces
    BY <2>1 DEF Emitted, Braces, Instructions, Mentions
  <2> QED
    BY <1>1, <2>1, <2>2, <2>3, <2>6, <2>7, <2>8
<1> QED
  BY <1>5, <1>6, <1>7

\* A block is opened.
Opens(bs, code) ==
  /\ bs \in Seq(Blocks) /\ Len(bs) = Len(blocks) + 1
  /\ \A b \in 1 .. Len(blocks) - 1 : bs[b] = blocks[b]
  /\ bs[Len(blocks)] = Block(Top.scope, Rest, Top.exit)
  /\ bs[Len(blocks) + 1] = Block(Top.scope, code, After(Item.op))

\* Code in braces opens a block.
LEMMA Opening ==
  ASSUME Vocabulary, Busy, NEW code \in Seq(Items), Open(code)
  PROVE  /\ Opens(blocks', code)
         /\ replaced' = New /\ size' \in 0 .. MaxSize
         /\ UNCHANGED <<height, live, at, placed, entries>>
<1>1. /\ blocks # <<>> /\ Rest \in Seq(Items) /\ Item.op \in Ops
      /\ Top.scope \in [Names -> Nat] /\ Len(blocks) \in Nat \ {0}
  BY Tops DEF Busy
<1>2. Becomes(Continue(Rest), Top.scope, Rest)
  BY <1>1, Continues
<1>3. After(Item.op) \in Int
  BY DEF Vocabulary, After, Takes, Leaves
<1>4. Block(Top.scope, code, After(Item.op)) \in Blocks
  <2> HIDE DEF Items, Names, After
  <2> QED
    BY <1>1, <1>3 DEF Block, Blocks
<1>5. /\ blocks' = Append(Continue(Rest), Block(Top.scope, code, After(Item.op)))
      /\ UNCHANGED <<height, live, at, placed, entries>>
      /\ replaced' = New
  BY DEF Open, Replaced, New
<1>6. size' \in 0 .. MaxSize
  <2>1. size \in 0 .. MaxSize /\ MaxSize \in Nat
    BY TemplatesAssumption DEF Vocabulary
  <2> QED
    BY <2>1 DEF Open, Replaced
<1>7. Opens(blocks', code)
  <2> DEFINE bs == Continue(Rest)
             e == Block(Top.scope, code, After(Item.op))
  <2>1. bs \in Seq(Blocks) /\ Len(bs) = Len(blocks)
    BY <1>2 DEF Becomes
  <2> HIDE DEF bs, e, Blocks
  <2>2. /\ Append(bs, e) \in Seq(Blocks) /\ Len(Append(bs, e)) = Len(bs) + 1
        /\ \A i \in 1 .. Len(bs) : Append(bs, e)[i] = bs[i]
        /\ Append(bs, e)[Len(bs) + 1] = e
    BY <1>4, <2>1, AppendProperties DEF e
  <2>3. /\ Len(blocks) \in 1 .. Len(blocks)
        /\ \A b \in 1 .. Len(blocks) - 1 : b \in 1 .. Len(blocks)
    <3>1. Len(blocks) \in Nat \ {0}
      BY <1>1
    <3> QED
      BY ONLY <3>1
  <2>4. /\ \A b \in 1 .. Len(blocks) - 1 : bs[b] = blocks[b]
        /\ bs[Len(blocks)] = Block(Top.scope, Rest, Top.exit)
    BY <1>2 DEF Becomes, bs
  <2>5. blocks' = Append(bs, e)
    BY <1>5 DEF bs, e
  <2> QED
    BY <2>1, <2>2, <2>3, <2>4, <2>5 DEF Opens, e
<1> QED
  BY <1>5, <1>6, <1>7

\* Whatever rule opens a block.
LEMMA Openings ==
  ASSUME Vocabulary, Enter
  PROVE  /\ Busy /\ Item.op \in Braces
         /\ replaced' = New /\ size' \in 0 .. MaxSize
         /\ UNCHANGED <<height, live, at, placed, entries>>
         /\ \E code \in Seq(Items) :
              Braced(code, Item.op, New) /\ Places(code, New) /\ Opens(blocks', code)
<1>1. New \in Nat \ {0} /\ Busy
  BY DEF Vocabulary, New, Enter
<1>2. PICK code : Braced(code, Item.op, New) /\ Places(code, New) /\ Open(code)
  <2>1. CASE Item.op = "IfThen" /\ Open(IfThen(New))
    BY <1>1, <2>1, IfThenBraced, OwnPlaces
  <2>2. CASE Item.op = "IfElse" /\ Open(IfElse(New))
    BY <1>1, <2>2, IfElseBraced, OwnPlaces
  <2>3. CASE Item.op = "Require" /\ Open(Require(New))
    BY <1>1, <2>3, RequireBraced, OwnPlaces
  <2>4. CASE Item.op = "DecodeParam" /\ Open(DecodeShortStringParam(New))
    BY <1>1, <2>4, DecodeParamBraced, OwnPlaces
  <2>5. CASE Item.op = "DecodeArg" /\ Open(DecodeShortStringConstructorArg(New))
    BY <1>1, <2>5, DecodeArgBraced, OwnPlaces
  <2> QED
    BY <2>1, <2>2, <2>3, <2>4, <2>5 DEF Enter
<1>3. code \in Seq(Items)
  BY <1>2 DEF Braced, Kept
<1>4. Item.op \in Braces
  BY DEF Enter, Braces
<1> QED
  BY <1>1, <1>2, <1>3, <1>4, Opening

\* A block that has been emitted is left.
LEMMA Closings ==
  ASSUME Vocabulary, Close
  PROVE  /\ Len(blocks) \in Nat \ {0} /\ Top.code = <<>>
         /\ blocks' \in Seq(Blocks) /\ Len(blocks') = Len(blocks) - 1
         /\ \A b \in 1 .. Len(blocks) - 1 : blocks'[b] = blocks[b]
<1>1. blocks \in Seq(Blocks)
  BY DEF Vocabulary, Blocks
<1>2. Len(blocks) \in Nat \ {0} /\ Top.code = <<>> /\ blocks' = SubSeq(blocks, 1, Len(blocks) - 1)
  BY Tops DEF Close
<1> DEFINE n == Len(blocks) - 1
<1>3. n \in Nat /\ n = Len(blocks) - 1 /\ 1 \in 1 .. Len(blocks) + 1 /\ n \in 0 .. Len(blocks)
  BY <1>2
<1> HIDE DEF Blocks, n
<1>4. /\ SubSeq(blocks, 1, n) \in Seq(Blocks)
      /\ Len(SubSeq(blocks, 1, n)) = (IF 1 <= n THEN n - 1 + 1 ELSE 0)
      /\ \A i \in 1 .. n - 1 + 1 : SubSeq(blocks, 1, n)[i] = blocks[1 + i - 1]
  BY <1>1, <1>3, SubSeqProperties
<1>5. /\ Len(SubSeq(blocks, 1, n)) = n
      /\ \A i \in 1 .. n : SubSeq(blocks, 1, n)[i] = blocks[i]
  <2>1. n - 1 + 1 = n /\ (~(1 <= n) => n = 0)
    BY <1>3
  <2>2. \A i \in 1 .. n : 1 + i - 1 = i
    BY <1>3
  <2> QED
    BY <1>4, <2>1, <2>2
<1> QED
  BY <1>2, <1>3, <1>4, <1>5

----------------------------------------------------------------------------
(* What the rules make has rules.                                          *)

\* A label that is mentioned is noted with the height there.
LEMMA Notes ==
  ASSUME Vocabulary, Busy, NEW h \in Int
  PROVE  /\ Meant \in Labels /\ Meant = <<Top.scope[Item.name], Item.name>>
         /\ Before \in Int
         /\ DOMAIN Noted(h) = DOMAIN at \cup {Meant}
         /\ DOMAIN Noted(h) \subseteq Labels
         /\ \A l \in DOMAIN Noted(h) :
              /\ Noted(h)[l] \in Int
              /\ Noted(h)[l] = IF l \in DOMAIN at THEN at[l] ELSE h
<1>1. Top.scope[Item.name] \in Nat /\ Item.name \in Names
  BY Tops DEF Busy
<1>2. Meant \in Labels /\ Meant = <<Top.scope[Item.name], Item.name>>
  BY <1>1 DEF Meant, Labels
<1>3. DOMAIN at \subseteq Labels /\ (\A l \in DOMAIN at : at[l] \in Int) /\ height \in Int
  BY DEF Vocabulary
<1>4. Before \in Int
  BY <1>3 DEF Before
<1> HIDE DEF Meant
<1>5. CASE Meant \in DOMAIN at
  BY <1>2, <1>3, <1>4, <1>5 DEF Noted
<1>6. CASE Meant \notin DOMAIN at
  BY <1>2, <1>3, <1>4, <1>6 DEF Noted
<1> QED
  BY <1>5, <1>6

\* What a step may do to the variables other than blocks.
LEMMA Others ==
  ASSUME Vocabulary, Next
  PROVE  /\ height' \in Int /\ live' \in BOOLEAN
         /\ DOMAIN at' \subseteq Labels /\ \A l \in DOMAIN at' : at'[l] \in Int
         /\ placed' \subseteq Labels
         /\ replaced' \in Nat /\ size' \in 0 .. MaxSize
<1>1. /\ height \in Int /\ live \in BOOLEAN
      /\ DOMAIN at \subseteq Labels /\ \A l \in DOMAIN at : at[l] \in Int
      /\ placed \subseteq Labels
      /\ replaced \in Nat /\ size \in 0 .. MaxSize
  BY DEF Vocabulary
<1>2. \A op : After(op) \in Int
  BY <1>1 DEF After, Takes, Leaves
<1>3. ASSUME Emit \/ Let
      PROVE  height' \in Int /\ live' \in BOOLEAN /\ UNCHANGED <<at, placed, replaced, size>>
  BY <1>1, <1>2, <1>3 DEF Emit, Let
<1>4. ASSUME Jump \/ PlaceLabel
      PROVE  /\ Busy /\ height' \in Int /\ live' \in BOOLEAN /\ at' = Noted(height')
             /\ placed' \subseteq placed \cup {Meant} /\ UNCHANGED <<replaced, size>>
  <2>1. Busy
    BY <1>4 DEF Jump, PlaceLabel
  <2>2. Before \in Int
    BY <2>1, Notes, 0 \in Int
  <2> HIDE DEF Before
  <2> QED
    BY <1>1, <1>2, <1>4, <2>1, <2>2 DEF Jump, PlaceLabel
<1>5. CASE Emit \/ Let
  BY <1>1, <1>3, <1>5
<1>6. CASE Jump \/ PlaceLabel
  <2>1. DOMAIN Noted(height') \subseteq Labels /\ \A l \in DOMAIN Noted(height') : Noted(height')[l] \in Int
    BY <1>4, <1>6, Notes
  <2>2. Meant \in Labels
    BY <1>4, <1>6, Notes, 0 \in Int
  <2> QED
    BY <1>1, <1>4, <1>6, <2>1, <2>2
<1>7. CASE Snippet \/ Lower \/ Dispatch
  <2>1. New \in Nat
    BY <1>1 DEF New
  <2> QED
    BY <1>1, <1>7, <2>1, Replacements
<1>8. CASE Enter
  <2>1. New \in Nat
    BY <1>1 DEF New
  <2> QED
    BY <1>1, <1>8, <2>1, Openings
<1>9. CASE Close \/ Build
  BY <1>1, <1>9 DEF Close, Build
<1> QED
  BY <1>5, <1>6, <1>7, <1>8, <1>9 DEF Next

\* A step leaves blocks.
LEMMA BlocksTyped ==
  ASSUME Vocabulary, Next
  PROVE  blocks' \in Seq(Blocks) /\ entries' \in Seq(Nat)
<1>1. entries \in Seq(Nat) /\ replaced \in Nat
  BY DEF Vocabulary
<1>2. CASE Emit \/ Let \/ Jump \/ PlaceLabel
  BY <1>1, <1>2, Advances DEF Becomes
<1>3. CASE Snippet \/ Lower \/ Dispatch
  <2>1. New \in Nat
    BY <1>1 DEF New
  <2>2. Append(entries, New) \in Seq(Nat)
    BY <1>1, <2>1
  <2> QED
    BY <1>1, <1>3, <2>2, Replacements DEF Becomes
<1>4. CASE Enter
  BY <1>1, <1>4, Openings DEF Opens
<1>5. CASE Close
  BY <1>1, <1>5, Closings DEF Close
<1>6. CASE Build
  <2>1. Head(entries) \in Nat /\ Tail(entries) \in Seq(Nat)
    BY <1>1, <1>6, EmptySeq, HeadTailProperties DEF Build
  <2>2. [Unbound EXCEPT !["entry"] = Head(entries)] \in [Names -> Nat]
    BY <2>1 DEF Unbound, Names
  <2>3. Body(Head(entries)) \in Seq(Items)
    BY <2>1, AllOps DEF Body, Items, Names, Label, Op, Template
  <2>4. Block([Unbound EXCEPT !["entry"] = Head(entries)], Body(Head(entries)), 0) \in Blocks
    <3> HIDE DEF Items, Names
    <3> QED
      BY <2>2, <2>3 DEF Block, Blocks
  <2> HIDE DEF Blocks
  <2>5. <<Block([Unbound EXCEPT !["entry"] = Head(entries)], Body(Head(entries)), 0)>> \in Seq(Blocks)
    BY <2>4
  <2> QED
    BY <1>6, <2>1, <2>5 DEF Build
<1> QED
  BY <1>2, <1>3, <1>4, <1>5, <1>6 DEF Next

\* Whatever program is compiled, there is a rule for every item.
LEMMA Vocabularies == Spec => []Vocabulary
<1>1. Init => Vocabulary
  <2> SUFFICES ASSUME Init PROVE Vocabulary
    OBVIOUS
  <2>1. PICK unit \in {Block(Unbound, Dispatcher, 1), Block(Unbound, LowerConstructor, 0)} :
          blocks = <<unit>>
    BY DEF Init
  <2>2. Unbound \in [Names -> Nat]
    BY DEF Unbound
  <2>3. unit \in Blocks
    <3> HIDE DEF Items, Names
    <3> QED
      BY <2>1, <2>2, DispatcherSound, ConstructorSound DEF Block, Blocks
  <2>4. blocks \in Seq(Blocks)
    <3> HIDE DEF Blocks
    <3> QED
      BY <2>1, <2>3
  <2>5. /\ height \in Int /\ live \in BOOLEAN /\ replaced \in Nat /\ size \in 0 .. MaxSize
        /\ DOMAIN at = {} /\ placed = {} /\ entries \in Seq(Nat)
    BY TemplatesAssumption DEF Init
  <2> QED
    BY <2>4, <2>5 DEF Vocabulary, Blocks
<1>2. Vocabulary /\ [Next]_vars => Vocabulary'
  <2> SUFFICES ASSUME Vocabulary, [Next]_vars PROVE Vocabulary'
    OBVIOUS
  <2>1. CASE Next
    BY <2>1, Others, BlocksTyped DEF Vocabulary, Blocks
  <2>2. CASE UNCHANGED vars
    BY <2>2 DEF Vocabulary, vars
  <2> QED
    BY <2>1, <2>2
<1> QED
  BY <1>1, <1>2, PTL DEF Spec

----------------------------------------------------------------------------
(* Labels are numbered by the replacements that allocate them.             *)

\* Everything in a block is of one of the first n replacements.
Early(block, n) ==
  /\ \A name \in Names : block.scope[name] <= n
  /\ \A k \in DOMAIN block.code : block.code[k].of <= n

Numbered ==
  /\ \A b \in DOMAIN blocks : Early(blocks[b], replaced)
  /\ \A i \in DOMAIN entries : entries[i] \in 1 .. replaced
  /\ \A l \in DOMAIN at \cup placed : l[1] <= replaced

\* Numbering survives emitting an item,
LEMMA EarlyRest ==
  ASSUME Vocabulary, Busy, NEW n \in Nat, Early(Top, n), NEW e
  PROVE  Early(Block(Held, Rest, e), n)
<1>1. /\ Top.code \in Seq(Items) /\ Top.code # <<>> /\ Top.scope \in [Names -> Nat]
      /\ Item = Top.code[1] /\ Item.name \in Names
  BY Tops DEF Busy
<1>2. /\ DOMAIN Rest = 1 .. Len(Top.code) - 1 /\ Len(Top.code) \in Nat \ {0}
      /\ DOMAIN Top.code = 1 .. Len(Top.code)
      /\ \A k \in 1 .. Len(Top.code) - 1 : Rest[k] = Top.code[k + 1]
  BY <1>1, Tails DEF Rest
<1>3. \A k \in DOMAIN Rest : Rest[k].of <= n
  <2> TAKE k \in DOMAIN Rest
  <2>1. Rest[k] = Top.code[k + 1] /\ k + 1 \in DOMAIN Top.code
    BY <1>2
  <2> QED
    BY <2>1 DEF Early
<1>4. Item.of <= n
  BY <1>1, <1>2 DEF Early
<1>5. \A name \in Names : Held[name] <= n
  BY <1>1, <1>4 DEF Held, Early
<1> QED
  BY <1>3, <1>5 DEF Early, Block

\* and replacing one by code of the first m.
LEMMA EarlySplice ==
  ASSUME Vocabulary, Busy, NEW n \in Nat, Early(Top, n), NEW m \in Nat, n <= m, NEW e,
         NEW code \in Seq(Items), \A k \in DOMAIN code : code[k].of <= m
  PROVE  Early(Block(Top.scope, code \o Rest, e), m)
<1>1. Top.code \in Seq(Items) /\ Top.code # <<>> /\ Top.scope \in [Names -> Nat]
  BY Tops DEF Busy
<1> DEFINE s == code \o Rest
<1>2. /\ Len(s) = Len(code) + Len(Top.code) - 1 /\ Len(code) \in Nat
      /\ DOMAIN s = 1 .. Len(code) + Len(Top.code) - 1
      /\ \A k \in 1 .. Len(code) : s[k] = code[k]
      /\ \A k \in 2 .. Len(Top.code) : s[Len(code) + k - 1] = Top.code[k]
  BY <1>1, Splices, SMTT(30) DEF Rest
<1>3. Len(Top.code) \in Nat \ {0} /\ DOMAIN Top.code = 1 .. Len(Top.code) /\ DOMAIN code = 1 .. Len(code)
  BY <1>1, Tails
<1>4. ASSUME NEW k \in DOMAIN Top.code
      PROVE  Top.code[k].of <= m
  <2>1. Top.code[k].of \in Nat
    BY <1>1, <1>4, Typed
  <2>2. Top.code[k].of <= n
    BY <1>4 DEF Early
  <2> QED
    BY <2>1, <2>2
<1> HIDE DEF s
<1>5. \A k \in DOMAIN s : s[k].of <= m
  <2> TAKE k \in DOMAIN s
  <2>1. CASE k <= Len(code)
    BY <1>2, <1>3, <2>1
  <2>2. CASE ~(k <= Len(code))
    <3>1. k - Len(code) + 1 \in 2 .. Len(Top.code) /\ Len(code) + (k - Len(code) + 1) - 1 = k
      BY <1>2, <1>3, <2>2
    <3>2. s[k] = Top.code[k - Len(code) + 1] /\ k - Len(code) + 1 \in DOMAIN Top.code
      BY <1>2, <1>3, <3>1
    <3> QED
      BY <1>4, <3>2
  <2> QED
    BY <2>1, <2>2
<1>6. \A name \in Names : Top.scope[name] <= m
  BY <1>1 DEF Early
<1> QED
  BY <1>5, <1>6 DEF Early, Block, s

\* One replacement more.
LEMMA Earlier ==
  ASSUME NEW block \in Blocks, NEW n \in Nat, Early(block, n), NEW m \in Nat, n <= m
  PROVE  Early(block, m)
<1>1. block.code \in Seq(Items) /\ block.scope \in [Names -> Nat]
  BY DEF Blocks
<1>2. \A k \in DOMAIN block.code : block.code[k].of \in Nat
  BY <1>1, Typed
<1> QED
  BY <1>1, <1>2 DEF Early

\* A step numbers what it adds.
LEMMA NumberedStep ==
  ASSUME Vocabulary, Numbered, Next
  PROVE  Numbered'
<1>1. /\ blocks \in Seq(Blocks) /\ replaced \in Nat /\ entries \in Seq(Nat) /\ New = replaced + 1
      /\ DOMAIN blocks = 1 .. Len(blocks) /\ Len(blocks) \in Nat
      /\ DOMAIN at \subseteq Labels /\ placed \subseteq Labels
  BY LenProperties DEF Vocabulary, Blocks, New
<1>2. blocks' \in Seq(Blocks) /\ DOMAIN blocks' = 1 .. Len(blocks') /\ Len(blocks') \in Nat
  BY BlocksTyped, LenProperties
<1>3. blocks # <<>> =>
        /\ Len(blocks) \in Nat \ {0} /\ Early(Top, replaced)
        /\ \A n \in Nat : replaced <= n => \A b \in 1 .. Len(blocks) - 1 : Early(blocks[b], n)
  <2>1. SUFFICES ASSUME blocks # <<>>
                 PROVE  /\ Len(blocks) \in Nat \ {0} /\ Early(Top, replaced)
                        /\ \A n \in Nat : replaced <= n => \A b \in 1 .. Len(blocks) - 1 : Early(blocks[b], n)
    OBVIOUS
  <2>2. Len(blocks) \in Nat \ {0} /\ Early(Top, replaced)
    BY <1>1, <2>1, Tops DEF Numbered, Top
  <2>3. ASSUME NEW n \in Nat, replaced <= n, NEW b \in 1 .. Len(blocks) - 1
        PROVE  Early(blocks[b], n)
    <3>1. b \in 1 .. Len(blocks) /\ blocks[b] \in Blocks
      BY <1>1, <2>2, ElementOfSeq
    <3>2. Early(blocks[b], replaced)
      BY <1>1, <3>1 DEF Numbered
    <3> QED
      BY <1>1, <2>3, <3>1, <3>2, Earlier
  <2> QED
    BY <2>2, <2>3
<1>4. CASE Emit \/ Let \/ Jump \/ PlaceLabel
  <2>1. /\ Busy /\ Becomes(blocks', Held, Rest) /\ UNCHANGED <<entries, replaced>>
    BY <1>4, Advances
  <2>2. blocks # <<>> /\ Len(blocks) \in Nat \ {0}
    BY <1>3, <2>1 DEF Busy
  <2>3. Early(Block(Held, Rest, Top.exit), replaced)
    BY <1>1, <1>3, <2>1, <2>2, EarlyRest
  <2>4. \A b \in DOMAIN blocks' : Early(blocks'[b], replaced)
    <3> TAKE b \in DOMAIN blocks'
    <3>1. b = Len(blocks) \/ b \in 1 .. Len(blocks) - 1
      BY <1>2, <2>1, <2>2 DEF Becomes
    <3> QED
      BY <1>1, <1>3, <2>1, <2>2, <2>3, <3>1 DEF Becomes
  <2>5. Meant \in Labels /\ Meant[1] <= replaced
    <3>1. Meant \in Labels /\ Meant = <<Top.scope[Item.name], Item.name>> /\ Item.name \in Names
      BY <2>1, <2>2, Notes, Tops, 0 \in Int
    <3> QED
      BY <1>3, <2>2, <3>1 DEF Early
  <2>6. \A l \in DOMAIN at' \cup placed' : l \in DOMAIN at \cup placed \cup {Meant}
    <3>1. CASE Emit \/ Let
      BY <3>1 DEF Emit, Let
    <3>2. CASE Jump \/ PlaceLabel
      <4>1. at' = Noted(height') /\ placed' \subseteq placed \cup {Meant}
        BY <3>2 DEF Jump, PlaceLabel
      <4>2. height' \in Int
        BY Others
      <4>3. DOMAIN at' = DOMAIN at \cup {Meant}
        BY <2>1, <4>1, <4>2, Notes
      <4> QED
        BY <4>1, <4>3
    <3> QED
      BY <1>4, <3>1, <3>2
  <2> QED
    BY <2>1, <2>4, <2>5, <2>6 DEF Numbered
<1>5. CASE Snippet \/ Lower \/ Dispatch
  <2>1. Busy /\ replaced' = New /\ UNCHANGED <<at, placed>>
    BY <1>5, Replacements
  <2>2. PICK code \in Seq(Items) : /\ Sound(code, Item, New) /\ Becomes(blocks', Top.scope, code \o Rest)
                                   /\ entries' = entries \/ entries' = Append(entries, New)
    BY <1>5, Replacements
  <2>3. blocks # <<>> /\ Len(blocks) \in Nat \ {0}
    BY <1>3, <2>1 DEF Busy
  <2>4. New \in Nat /\ replaced <= New /\ New \in 1 .. New
    BY <1>1
  <2>5. \A k \in DOMAIN code : code[k].of <= New
    <3>1. \A k \in DOMAIN code : code[k].of \in {0, New}
      BY <2>2 DEF Sound, Fine, Kept
    <3> QED
      BY <2>4, <3>1
  <2>6. Early(Block(Top.scope, code \o Rest, Top.exit), New)
    BY <1>1, <1>3, <2>1, <2>3, <2>4, <2>5, EarlySplice
  <2>7. \A b \in DOMAIN blocks' : Early(blocks'[b], New)
    <3> TAKE b \in DOMAIN blocks'
    <3>1. b = Len(blocks) \/ b \in 1 .. Len(blocks) - 1
      BY <1>2, <2>2, <2>3 DEF Becomes
    <3> QED
      BY <1>3, <2>2, <2>3, <2>4, <2>6, <3>1 DEF Becomes
  <2>8. \A i \in DOMAIN entries' : entries'[i] \in 1 .. New
    <3>1. \A i \in DOMAIN entries : entries[i] \in 1 .. New
      BY <1>1 DEF Numbered
    <3>2. CASE entries' = Append(entries, New)
      <4>1. \A i \in DOMAIN entries' : i \in DOMAIN entries \/ i = Len(entries) + 1
        BY <1>1, <2>4, <3>2
      <4>2. entries'[Len(entries) + 1] = New /\ \A i \in DOMAIN entries : entries'[i] = entries[i]
        BY <1>1, <2>4, <3>2
      <4> QED
        BY <2>4, <3>1, <4>1, <4>2
    <3> QED
      BY <2>2, <3>1, <3>2
  <2>9. \A l \in DOMAIN at' \cup placed' : l[1] <= New
    <3>1. \A l \in DOMAIN at \cup placed : l[1] \in Nat /\ l[1] <= replaced
      BY <1>1 DEF Numbered, Labels
    <3> QED
      BY <1>1, <2>1, <3>1
  <2> QED
    BY <2>1, <2>7, <2>8, <2>9 DEF Numbered
<1>6. CASE Enter
  <2>1. Busy /\ replaced' = New /\ UNCHANGED <<at, placed, entries>>
    BY <1>6, Openings
  <2>2. PICK code \in Seq(Items) : Braced(code, Item.op, New) /\ Opens(blocks', code)
    BY <1>6, Openings
  <2>3. blocks # <<>> /\ Len(blocks) \in Nat \ {0}
    BY <1>3, <2>1 DEF Busy
  <2>4. New \in Nat /\ replaced <= New
    BY <1>1
  <2>5. \A k \in DOMAIN code : code[k].of <= New
    <3>1. \A k \in DOMAIN code : code[k].of \in {0, New}
      BY <2>2 DEF Braced, Kept
    <3> QED
      BY <2>4, <3>1
  <2>6. Early(Block(Top.scope, Rest, Top.exit), New)
    <3>1. Item.op # "LET"
      BY <1>6, Openings DEF Braces
    <3>2. Early(Block(Top.scope, Rest, Top.exit), replaced)
      BY <1>1, <1>3, <2>1, <2>3, <3>1, EarlyRest DEF Held
    <3>3. Block(Top.scope, Rest, Top.exit) \in Blocks
      <4>1. blocks'[Len(blocks)] \in Blocks
        BY <1>2, <2>2, <2>3, ElementOfSeq DEF Opens
      <4> QED
        BY <4>1, <2>2 DEF Opens
    <3> QED
      BY <1>1, <2>4, <3>2, <3>3, Earlier
  <2>7. Early(Block(Top.scope, code, After(Item.op)), New)
    <3>1. Top.scope \in [Names -> Nat]
      BY <2>3, Tops
    <3>2. \A name \in Names : Top.scope[name] <= New
      BY <1>1, <1>3, <2>3, <2>4, <3>1 DEF Early
    <3> QED
      BY <2>5, <3>2 DEF Early, Block
  <2>8. \A b \in DOMAIN blocks' : Early(blocks'[b], New)
    <3> TAKE b \in DOMAIN blocks'
    <3>1. b = Len(blocks) + 1 \/ b = Len(blocks) \/ b \in 1 .. Len(blocks) - 1
      BY <1>2, <2>2, <2>3 DEF Opens
    <3> QED
      BY <1>3, <2>2, <2>3, <2>4, <2>6, <2>7, <3>1 DEF Opens
  <2>9. \A i \in DOMAIN entries' : entries'[i] \in 1 .. New
    BY <1>1, <2>1 DEF Numbered
  <2>10. \A l \in DOMAIN at' \cup placed' : l[1] <= New
    <3>1. \A l \in DOMAIN at \cup placed : l[1] \in Nat /\ l[1] <= replaced
      BY <1>1 DEF Numbered, Labels
    <3> QED
      BY <1>1, <2>1, <3>1
  <2> QED
    BY <2>1, <2>8, <2>9, <2>10 DEF Numbered
<1>7. CASE Close
  <2>1. UNCHANGED <<at, placed, entries, replaced>>
    BY <1>7 DEF Close
  <2>2. \A b \in DOMAIN blocks' : b \in 1 .. Len(blocks) - 1 /\ blocks'[b] = blocks[b] /\ b \in DOMAIN blocks
    BY <1>1, <1>2, <1>7, Closings
  <2> QED
    BY <2>1, <2>2 DEF Numbered
<1>8. CASE Build
  <2> DEFINE n == Head(entries)
             block == Block([Unbound EXCEPT !["entry"] = n], Body(n), 0)
  <2>1. UNCHANGED <<at, placed, replaced>> /\ entries # <<>> /\ entries' = Tail(entries) /\ blocks' = <<block>>
    BY <1>8 DEF Build
  <2>2. n = entries[1] /\ Len(entries) \in Nat \ {0} /\ DOMAIN entries = 1 .. Len(entries)
    BY <1>1, <2>1
  <2>3. n \in 1 .. replaced
    BY <2>2 DEF Numbered
  <2>4. Early(block, replaced)
    <3>1. \A name \in Names : [Unbound EXCEPT !["entry"] = n][name] <= replaced
      BY <1>1, <2>3 DEF Unbound
    <3>2. \A k \in DOMAIN Body(n) : Body(n)[k].of <= replaced
      BY <1>1, <2>3 DEF Body, Label, Op, Template
    <3> QED
      BY <3>1, <3>2 DEF Early, Block
  <2>5. \A b \in DOMAIN blocks' : blocks'[b] = block
    <3> HIDE DEF block
    <3> QED
      BY <2>1
  <2>6. \A i \in DOMAIN entries' : entries'[i] \in 1 .. replaced
    <3>1. \A i \in DOMAIN entries' : i + 1 \in DOMAIN entries /\ entries'[i] = entries[i + 1]
      BY <1>1, <2>1, <2>2
    <3> QED
      BY <3>1 DEF Numbered
  <2> HIDE DEF block
  <2> QED
    BY <2>1, <2>4, <2>5, <2>6 DEF Numbered
<1> QED
  BY <1>4, <1>5, <1>6, <1>7, <1>8 DEF Next

\* At first there are no labels.
LEMMA NumberedInit == Init => Numbered
<1> SUFFICES ASSUME Init PROVE Numbered
  OBVIOUS
<1>1. PICK unit \in {Block(Unbound, Dispatcher, 1), Block(Unbound, LowerConstructor, 0)} :
        blocks = <<unit>>
  BY DEF Init
<1>2. replaced = 0 /\ DOMAIN entries = {} /\ DOMAIN at \cup placed = {}
  BY DEF Init
<1>3. \A name \in Names : Unbound[name] = 0
  BY DEF Unbound
<1>4. Early(unit, 0)
  BY <1>1, <1>3, DispatcherSound, ConstructorSound DEF Early, Block
<1> QED
  BY <1>1, <1>2, <1>4 DEF Numbered


----------------------------------------------------------------------------
(* Every mention of a label means the label of its own template.           *)

\* A mention finds its label in the block's variables, or will find it there
\* because the code in front of it binds it.
Legible(block) ==
  \A k \in DOMAIN block.code : block.code[k].op \in Mentions =>
    \/ \E j \in 1 .. k - 1 : Bound(block.code, k, j)
    \/ /\ block.scope[block.code[k].name] = block.code[k].of
       /\ \A i \in 1 .. k - 1 : block.code[k].name \notin Rebinds(block.code[i])

Scoped == \A b \in DOMAIN blocks : Legible(blocks[b])

\* A block stays legible when its next item is emitted.
LEMMA LegibleRest ==
  ASSUME Vocabulary, Busy, Legible(Top), NEW e
  PROVE  Legible(Block(Held, Rest, e))
<1> DEFINE code == Top.code
           N == Len(code)
<1>1. /\ code \in Seq(Items) /\ code # <<>> /\ Top.scope \in [Names -> Nat]
      /\ Item = code[1] /\ Item.name \in Names
  BY Tops DEF Busy
<1>2. /\ DOMAIN Rest = 1 .. N - 1 /\ N \in Nat \ {0} /\ DOMAIN code = 1 .. N
      /\ \A k \in 1 .. N - 1 : Rest[k] = code[k + 1]
  BY <1>1, Tails DEF Rest
<1>3. ASSUME NEW k \in DOMAIN Rest, Rest[k].op \in Mentions
      PROVE  \/ \E j \in 1 .. k - 1 : Bound(Rest, k, j)
             \/ /\ Held[Rest[k].name] = Rest[k].of
                /\ \A i \in 1 .. k - 1 : Rest[k].name \notin Rebinds(Rest[i])
  <2>1. /\ k \in 1 .. N - 1 /\ Rest[k] = code[k + 1] /\ k + 1 \in DOMAIN code
        /\ code[k + 1].op \in Mentions /\ code[k + 1].name \in Names
    <3>1. k \in 1 .. N - 1 /\ Rest[k] = code[k + 1] /\ k + 1 \in DOMAIN code
      BY <1>2
    <3> QED
      BY <1>1, <1>3, <3>1, Typed
  <2>2. ASSUME NEW i \in 1 .. k - 1
        PROVE  Rest[i] = code[i + 1] /\ i + 1 \in 1 .. (k + 1) - 1
    BY <1>2, <2>1
  <2>3. ASSUME NEW j \in 1 .. (k + 1) - 1, Bound(code, k + 1, j), j # 1
        PROVE  j - 1 \in 1 .. k - 1 /\ Bound(Rest, k, j - 1)
    <3>1. j - 1 \in 1 .. k - 1 /\ j - 1 \in 1 .. N - 1
      BY <1>2, <2>1, <2>3
    <3>2. Rest[j - 1] = code[j]
      BY <1>2, <3>1
    <3>3. \A i \in (j - 1) + 1 .. k - 1 : i \in 1 .. k - 1 /\ i + 1 \in j + 1 .. (k + 1) - 1
      BY <2>1, <2>3, <3>1
    <3> QED
      BY <2>1, <2>2, <2>3, <3>1, <3>2, <3>3 DEF Bound
  <2>4. ASSUME Bound(code, k + 1, 1)
        PROVE  /\ Held[Rest[k].name] = Rest[k].of
               /\ \A i \in 1 .. k - 1 : Rest[k].name \notin Rebinds(Rest[i])
    <3>1. Item.op = "LET" /\ Item.name = Rest[k].name /\ Item.of = Rest[k].of
      BY <1>1, <2>1, <2>4 DEF Bound
    <3>2. \A i \in 1 .. k - 1 : i + 1 \in 1 + 1 .. (k + 1) - 1
      BY <1>2, <2>1
    <3> QED
      BY <1>1, <2>1, <2>2, <2>4, <3>1, <3>2 DEF Bound, Held
  <2>5. ASSUME Top.scope[code[k + 1].name] = code[k + 1].of,
               \A i \in 1 .. (k + 1) - 1 : code[k + 1].name \notin Rebinds(code[i])
        PROVE  /\ Held[Rest[k].name] = Rest[k].of
               /\ \A i \in 1 .. k - 1 : Rest[k].name \notin Rebinds(Rest[i])
    <3>1. 1 \in 1 .. (k + 1) - 1
      BY <1>2, <2>1
    <3>2. Item.op = "LET" => Item.name # Rest[k].name
      BY <1>1, <2>1, <2>5, <3>1 DEF Rebinds
    <3> QED
      BY <1>1, <2>1, <2>2, <2>5, <3>2 DEF Held
  <2>6. \/ \E j \in 1 .. (k + 1) - 1 : Bound(code, k + 1, j)
        \/ /\ Top.scope[code[k + 1].name] = code[k + 1].of
           /\ \A i \in 1 .. (k + 1) - 1 : code[k + 1].name \notin Rebinds(code[i])
    BY <2>1 DEF Legible
  <2> QED
    BY <2>3, <2>4, <2>5, <2>6
<1> QED
  BY <1>3 DEF Legible, Block

\* A block stays legible when its next item is replaced by a fine code.
LEMMA LegibleSplice ==
  ASSUME Vocabulary, Busy, Legible(Top), NEW e, Item.op # "LET",
         NEW new \in Seq(Items), Own(new), \A k \in DOMAIN new : Rebinds(new[k]) \subseteq Rebinds(Item)
  PROVE  Legible(Block(Top.scope, new \o Rest, e))
<1> DEFINE code == Top.code
           N == Len(code)
           M == Len(new)
           s == new \o Rest
<1>1. /\ code \in Seq(Items) /\ code # <<>> /\ Top.scope \in [Names -> Nat]
      /\ Item = code[1] /\ Item.name \in Names
  BY Tops DEF Busy
<1>2. /\ Len(s) = M + N - 1 /\ M \in Nat /\ DOMAIN s = 1 .. M + N - 1
      /\ \A k \in 1 .. M : s[k] = new[k]
      /\ \A k \in 2 .. N : s[M + k - 1] = code[k]
  <2>1. s = new \o Tail(code)
    BY DEF Rest
  <2> HIDE DEF s, code
  <2> QED
    BY <1>1, <2>1, Splices, SMTT(30)
<1>3. N \in Nat \ {0} /\ DOMAIN code = 1 .. N /\ DOMAIN new = 1 .. M
  BY <1>1, Tails
<1> HIDE DEF s, N, M
<1>4. ASSUME NEW k \in DOMAIN s, s[k].op \in Mentions
      PROVE  \/ \E j \in 1 .. k - 1 : Bound(s, k, j)
             \/ /\ Top.scope[s[k].name] = s[k].of
                /\ \A i \in 1 .. k - 1 : s[k].name \notin Rebinds(s[i])
  <2>1. CASE k <= M
    <3>1. k \in 1 .. M /\ s[k] = new[k] /\ \A i \in 1 .. k - 1 : i \in 1 .. M /\ s[i] = new[i]
      BY <1>2, <1>3, <2>1
    <3>2. PICK j \in 1 .. k - 1 : Bound(new, k, j)
      BY <1>3, <1>4, <3>1 DEF Own
    <3>3. \A i \in j + 1 .. k - 1 : i \in 1 .. k - 1
      BY <3>2, <3>1
    <3> QED
      BY <3>1, <3>2, <3>3 DEF Bound
  <2>2. CASE ~(k <= M)
    <3> DEFINE c == k - M + 1
    <3>1. c \in 2 .. N /\ s[k] = code[c] /\ c \in DOMAIN code /\ k = M + c - 1
      <4>1. c \in 2 .. N /\ M + c - 1 = k /\ c \in 1 .. N
        BY <1>2, <1>3, <2>2
      <4> QED
        BY <1>2, <1>3, <4>1
    <3> HIDE DEF c
    <3>2. ASSUME NEW i \in 1 .. k - 1, s[k].name \in Rebinds(s[i])
          PROVE  \/ code[c].name \in Rebinds(code[1])
                 \/ /\ i - M + 1 \in 2 .. c - 1 /\ s[i] = code[i - M + 1]
                    /\ code[c].name \in Rebinds(code[i - M + 1])
      <4>1. CASE i <= M
        BY <1>1, <1>2, <1>3, <3>1, <3>2, <4>1, SMTT(30)
      <4>2. CASE ~(i <= M)
        <5>1. i - M + 1 \in 2 .. c - 1 /\ i - M + 1 \in 2 .. N /\ M + (i - M + 1) - 1 = i
          <6>1. i \in Int /\ M \in Nat /\ N \in Nat /\ c \in 2 .. N /\ i <= M + c - 2 /\ ~(i <= M)
            BY <1>2, <1>3, <3>1, <4>2
          <6> QED
            BY ONLY <6>1
        <5>2. s[i] = code[i - M + 1]
          BY <1>2, <5>1
        <5> QED
          BY <3>1, <3>2, <5>1, <5>2
      <4> QED
        BY <4>1, <4>2
    <3>3. ASSUME NEW j \in 1 .. c - 1, Bound(code, c, j)
          PROVE  \E i \in 1 .. k - 1 : Bound(s, k, i)
      <4>1. j # 1
        BY <1>1, <3>3 DEF Bound
      <4>2. M + j - 1 \in 1 .. k - 1 /\ j \in 2 .. N
        BY <1>2, <1>3, <3>1, <3>3, <4>1
      <4>3. s[M + j - 1] = code[j]
        BY <1>2, <4>2
      <4>4. ASSUME NEW i \in (M + j - 1) + 1 .. k - 1
            PROVE  s[k].name \notin Rebinds(s[i])
        <5>1. i - M + 1 \in j + 1 .. c - 1 /\ i - M + 1 \in 2 .. N /\ M + (i - M + 1) - 1 = i
          BY <1>2, <1>3, <3>1, <3>3, <4>2, <4>4
        <5>2. s[i] = code[i - M + 1]
          BY <1>2, <5>1
        <5> QED
          BY <3>1, <3>3, <5>1, <5>2 DEF Bound
      <4> QED
        BY <3>1, <3>3, <4>2, <4>3, <4>4 DEF Bound
    <3>4. ASSUME Top.scope[code[c].name] = code[c].of,
                 \A i \in 1 .. c - 1 : code[c].name \notin Rebinds(code[i])
          PROVE  /\ Top.scope[s[k].name] = s[k].of
                 /\ \A i \in 1 .. k - 1 : s[k].name \notin Rebinds(s[i])
      <4>1. 1 \in 1 .. c - 1 /\ \A i \in 2 .. c - 1 : i \in 1 .. c - 1
        BY <1>3, <3>1
      <4> QED
        BY <3>1, <3>2, <3>4, <4>1
    <3>5. code[c].op \in Mentions
      BY <1>4, <3>1
    <3> QED
      BY <3>1, <3>3, <3>4, <3>5 DEF Legible
  <2> QED
    BY <2>1, <2>2
<1> QED
  BY <1>4 DEF Legible, Block, s

\* Every block stays legible.
LEMMA ScopedStep ==
  ASSUME ~LoopsInside, Vocabulary, Scoped, Next
  PROVE  Scoped'
<1>1. /\ blocks \in Seq(Blocks) /\ DOMAIN blocks = 1 .. Len(blocks) /\ Len(blocks) \in Nat
  BY LenProperties DEF Vocabulary, Blocks
<1>2. blocks' \in Seq(Blocks) /\ DOMAIN blocks' = 1 .. Len(blocks') /\ Len(blocks') \in Nat
  BY BlocksTyped, LenProperties
<1>3. /\ \A b \in 1 .. Len(blocks) - 1 : Legible(blocks[b])
      /\ blocks # <<>> => Len(blocks) \in Nat \ {0} /\ Legible(Top)
  <2>1. \A b \in 1 .. Len(blocks) - 1 : b \in DOMAIN blocks
    BY <1>1
  <2>2. blocks # <<>> => Len(blocks) \in Nat \ {0} /\ Len(blocks) \in DOMAIN blocks
    BY <1>1, Tops
  <2> QED
    BY <2>1, <2>2 DEF Scoped, Top
<1>4. CASE Emit \/ Let \/ Jump \/ PlaceLabel
  <2>1. Busy /\ Becomes(blocks', Held, Rest) /\ blocks # <<>>
    BY <1>4, Advances DEF Busy
  <2>2. Legible(Block(Held, Rest, Top.exit))
    BY <1>3, <2>1, LegibleRest
  <2>3. \A b \in DOMAIN blocks' : b = Len(blocks) \/ b \in 1 .. Len(blocks) - 1
    BY <1>2, <1>3, <2>1 DEF Becomes
  <2> QED
    BY <1>3, <2>1, <2>2, <2>3 DEF Becomes, Scoped
<1>5. CASE Snippet \/ Lower \/ Dispatch
  <2>1. Busy /\ blocks # <<>> /\ Item.op # "LET"
    BY <1>5, Replacements DEF Busy, Emitted
  <2>2. PICK code \in Seq(Items) : Sound(code, Item, New) /\ Becomes(blocks', Top.scope, code \o Rest)
    BY <1>5, Replacements
  <2>3. Own(code) /\ \A k \in DOMAIN code : Rebinds(code[k]) \subseteq Rebinds(Item)
    BY <2>2 DEF Sound, Fine, Kept
  <2>4. Legible(Block(Top.scope, code \o Rest, Top.exit))
    BY <1>3, <2>1, <2>3, LegibleSplice
  <2>5. \A b \in DOMAIN blocks' : b = Len(blocks) \/ b \in 1 .. Len(blocks) - 1
    BY <1>2, <1>3, <2>1, <2>2 DEF Becomes
  <2> QED
    BY <1>3, <2>1, <2>2, <2>4, <2>5 DEF Becomes, Scoped
<1>6. CASE Enter
  <2>1. Busy /\ blocks # <<>> /\ Item.op # "LET"
    BY <1>6, Openings DEF Busy, Braces
  <2>2. PICK code \in Seq(Items) : Braced(code, Item.op, New) /\ Opens(blocks', code)
    BY <1>6, Openings
  <2>3. Own(code)
    BY <2>2 DEF Braced, Kept
  <2>4. Legible(Block(Top.scope, code, After(Item.op)))
    BY <2>3 DEF Legible, Own, Block
  <2>5. Legible(Block(Top.scope, Rest, Top.exit))
    BY <1>3, <2>1, LegibleRest DEF Held
  <2>6. \A b \in DOMAIN blocks' : b = Len(blocks) + 1 \/ b = Len(blocks) \/ b \in 1 .. Len(blocks) - 1
    BY <1>2, <1>3, <2>1, <2>2 DEF Opens
  <2> QED
    BY <1>3, <2>1, <2>2, <2>4, <2>5, <2>6 DEF Opens, Scoped
<1>7. CASE Close
  <2>1. \A b \in DOMAIN blocks' : b \in 1 .. Len(blocks) - 1 /\ blocks'[b] = blocks[b]
    BY <1>2, <1>7, Closings
  <2> QED
    BY <1>3, <2>1 DEF Scoped
<1>8. CASE Build
  <2> DEFINE n == Head(entries)
             block == Block([Unbound EXCEPT !["entry"] = n], Body(n), 0)
  <2>1. blocks' = <<block>>
    BY <1>8 DEF Build
  <2>2. Legible(block)
    <3>1. [Unbound EXCEPT !["entry"] = n]["entry"] = n
      BY DEF Unbound, Names
    <3>2. /\ DOMAIN Body(n) = 1 .. 3 /\ Body(n)[1].name = "entry" /\ Body(n)[1].of = n
          /\ Body(n)[2].op \notin Mentions /\ Body(n)[3].op \notin Mentions
      BY DEF Body, Label, Op, Template, Mentions
    <3>3. \A k \in DOMAIN Body(n) : Body(n)[k].op \in Mentions => k = 1
      BY <3>2
    <3> QED
      BY <3>1, <3>2, <3>3 DEF Legible, Block
  <2>3. \A b \in DOMAIN blocks' : blocks'[b] = block
    <3> HIDE DEF block
    <3> QED
      BY <2>1
  <2> HIDE DEF block
  <2> QED
    BY <2>2, <2>3 DEF Scoped
<1> QED
  BY <1>4, <1>5, <1>6, <1>7, <1>8 DEF Next

\* The dispatcher and the constructor mention no label yet.
LEMMA ScopedInit == Init => Scoped
<1> SUFFICES ASSUME Init PROVE Scoped
  OBVIOUS
<1>1. PICK unit \in {Block(Unbound, Dispatcher, 1), Block(Unbound, LowerConstructor, 0)} :
        blocks = <<unit>>
  BY DEF Init
<1>2. Legible(unit)
  BY <1>1, DispatcherSound, ConstructorSound DEF Legible, Block
<1> QED
  BY <1>1, <1>2 DEF Scoped

\* The mention that comes next means its own label.
LEMMA ScopedNow ==
  ASSUME Vocabulary, Scoped
  PROVE  OwnLabels
<1> SUFFICES ASSUME Busy, Item.op \in Mentions PROVE Top.scope[Item.name] = Item.of
  BY DEF OwnLabels
<1>1. Item = Top.code[1] /\ Top.code # <<>> /\ 1 \in DOMAIN Top.code
  BY Tops, Tails DEF Busy
<1>2. Legible(Top)
  BY Tops DEF Busy, Scoped, Top
<1> QED
  BY <1>1, <1>2 DEF Legible

\* "let lab = asm.fresh_label()": if no loop is inside an if or another loop, a
\* mention of a label variable is one of the label that its template allocated.
THEOREM LabelsAreOwn ==
  ASSUME ~LoopsInside
  PROVE  Spec => []OwnLabels
<1>1. Init => Scoped
  BY ScopedInit
<1>2. Vocabulary /\ Scoped /\ [Next]_vars => Scoped'
  <2> SUFFICES ASSUME Vocabulary, Scoped, [Next]_vars PROVE Scoped'
    OBVIOUS
  <2>1. CASE Next
    BY <2>1, ScopedStep
  <2>2. CASE UNCHANGED vars
    BY <2>2 DEF Scoped, vars
  <2> QED
    BY <2>1, <2>2
<1>3. Vocabulary /\ Scoped => OwnLabels
  BY ScopedNow
<1> QED
  BY <1>1, <1>2, <1>3, Vocabularies, PTL DEF Spec

----------------------------------------------------------------------------
(* Every function and the constructor end.                                 *)

Ends(code) == code # <<>> /\ code[Len(code)].op \in Enders

\* The outermost block leads to an item that execution does not leave, or has
\* just been left by one.
Halting ==
  IF blocks = <<>> THEN ~live
  ELSE Ends(blocks[1].code) \/ (Len(blocks) = 1 /\ blocks[1].code = <<>> /\ ~live)

\* A code that ends keeps its end: when an item is emitted,
LEMMA EndsRest ==
  ASSUME NEW code \in Seq(Items), Ends(code)
  PROVE  \/ Ends(Tail(code))
         \/ Tail(code) = <<>> /\ code[1].op \in Enders
<1>1. /\ DOMAIN Tail(code) = 1 .. Len(code) - 1 /\ Len(code) \in Nat \ {0}
      /\ Len(Tail(code)) = Len(code) - 1 /\ Tail(code) \in Seq(Items)
      /\ \A k \in 1 .. Len(code) - 1 : Tail(code)[k] = code[k + 1]
  BY Tails DEF Ends
<1> HIDE DEF Items
<1>2. CASE Len(code) = 1
  <2>1. Tail(code) = <<>>
    BY <1>1, <1>2, EmptySeq
  <2> QED
    BY <1>2, <2>1 DEF Ends
<1>3. CASE Len(code) # 1
  <2>1. Len(Tail(code)) # 0 /\ Tail(code) # <<>>
    <3>1. Len(code) \in Nat /\ Len(Tail(code)) = Len(code) - 1
      BY <1>1
    <3>2. Len(Tail(code)) # 0
      BY <1>3, <3>1
    <3>3. Tail(code) = <<>> <=> Len(Tail(code)) = 0
      BY <1>1, EmptySeq
    <3> QED
      BY <3>2, <3>3
  <2>2. Tail(code)[Len(Tail(code))] = code[Len(code)]
    BY <1>1, <1>3
  <2> QED
    BY <2>1, <2>2 DEF Ends
<1> QED
  BY <1>2, <1>3

\* and when one is replaced.
LEMMA EndsSplice ==
  ASSUME NEW code \in Seq(Items), Ends(code), NEW new \in Seq(Items),
         code[1].op \in Enders => Ends(new)
  PROVE  Ends(new \o Tail(code))
<1> DEFINE s == new \o Tail(code)
           N == Len(code)
           M == Len(new)
<1>1. code # <<>>
  BY DEF Ends
<1>2. /\ s \in Seq(Items) /\ Len(s) = M + N - 1 /\ M \in Nat
      /\ \A k \in 1 .. M : s[k] = new[k]
      /\ \A k \in 2 .. N : s[M + k - 1] = code[k]
  BY <1>1, Splices
<1>3. N \in Nat \ {0}
  BY <1>1, Tails
<1>4. M = 0 <=> new = <<>>
  <2> HIDE DEF Items
  <2> QED
    BY EmptySeq
<1>5. s # <<>> <=> Len(s) # 0
  <2> HIDE DEF Items, s
  <2> QED
    BY <1>2, EmptySeq
<1> HIDE DEF s, N, M
<1>6. CASE N = 1
  <2>1. Ends(new)
    BY <1>6 DEF Ends, N
  <2>2. Len(s) = M /\ M \in 1 .. M
    BY <1>2, <1>4, <1>6, <2>1 DEF Ends
  <2>3. s[Len(s)] = new[Len(new)]
    BY <1>2, <2>2 DEF M
  <2> QED
    BY <1>3, <1>5, <2>1, <2>2, <2>3 DEF Ends, s
<1>7. CASE N # 1
  <2>1. N \in 2 .. N /\ Len(s) # 0
    BY <1>2, <1>3, <1>7
  <2>2. s[Len(s)] = code[N]
    BY <1>2, <2>1
  <2> QED
    BY <1>5, <2>1, <2>2 DEF Ends, N, s
<1> QED
  BY <1>6, <1>7

\* The outermost block keeps its end.
LEMMA HaltingStep ==
  ASSUME ~UnitValues, Vocabulary, Halting, Next
  PROVE  Halting'
<1> DEFINE N == Len(blocks)
<1>1. ASSUME Busy
      PROVE  /\ N \in Nat \ {0} /\ Top = blocks[N] /\ Top.code \in Seq(Items) /\ Item = Top.code[1]
             /\ blocks # <<>> /\ Ends(blocks[1].code)
             /\ N = 1 \/ (N # 1 /\ 1 \in 1 .. N - 1)
             /\ N = 1 => Ends(Top.code)
  <2>1. N \in Nat \ {0} /\ Top = blocks[N] /\ Top.code \in Seq(Items) /\ blocks # <<>> /\ Top.code # <<>>
    BY <1>1, Tops DEF Busy, Top
  <2>2. Item = Top.code[1]
    BY <1>1, <2>1, Tops
  <2>3. N = 1 \/ (N # 1 /\ 1 \in 1 .. N - 1)
    <3>1. N \in Nat \ {0}
      BY <2>1
    <3> HIDE DEF N
    <3> QED
      BY ONLY <3>1
  <2>4. Ends(blocks[1].code)
    BY <2>1 DEF Halting
  <2> QED
    BY <2>1, <2>2, <2>3, <2>4
<1> HIDE DEF N
<1>2. CASE Emit \/ Let \/ Jump \/ PlaceLabel
  <2>1. Busy /\ Item.op \in Emitted /\ Becomes(blocks', Held, Rest)
    BY <1>2, Advances
  <2>2. blocks' # <<>>
    BY <1>1, <2>1 DEF Becomes, N
  <2>3. CASE N # 1
    BY <1>1, <2>1, <2>2, <2>3 DEF Becomes, Halting, N
  <2>4. CASE N = 1
    <3>1. blocks'[1].code = Rest /\ Len(blocks') = 1
      BY <2>1, <2>4 DEF Becomes, Block, N
    <3>2. Ends(Rest) \/ (Rest = <<>> /\ Item.op \in Enders)
      BY <1>1, <2>1, <2>4, EndsRest DEF Rest
    <3>3. ASSUME Item.op \in Enders
          PROVE  ~live'
      <4>1. Item.op \in Final /\ Item.op \notin {"LET", "JUMP", "JUMPI", "JUMPDEST"}
        BY <2>1, <3>3 DEF Enders, Final, Emitted, Instructions, Mentions
      <4>2. Emit
        BY <1>2, <4>1 DEF Let, Jump, PlaceLabel
      <4>3. live' = (live /\ Item.op \notin Final)
        BY <4>2 DEF Emit
      <4> QED
        BY <4>1, <4>3, Zenon
    <3> QED
      BY <2>2, <3>1, <3>2, <3>3 DEF Halting
  <2> QED
    BY <2>3, <2>4
<1>3. CASE Snippet \/ Lower \/ Dispatch
  <2>1. Busy
    BY <1>3, Replacements
  <2>2. PICK code \in Seq(Items) : Sound(code, Item, New) /\ Becomes(blocks', Top.scope, code \o Rest)
    BY <1>3, Replacements
  <2>3. blocks' # <<>>
    BY <1>1, <2>1, <2>2 DEF Becomes, N
  <2>4. CASE N # 1
    BY <1>1, <2>1, <2>2, <2>3, <2>4 DEF Becomes, Halting, N
  <2>5. CASE N = 1
    <3>1. blocks'[1].code = code \o Rest
      BY <2>2, <2>5 DEF Becomes, Block, N
    <3>2. Item.op \in Enders => Ends(code)
      BY <2>2 DEF Sound, Fine, Ends
    <3>3. Ends(code \o Rest)
      BY <1>1, <2>1, <2>5, <3>2, EndsSplice DEF Rest
    <3> QED
      BY <2>3, <3>1, <3>3 DEF Halting
  <2> QED
    BY <2>4, <2>5
<1>4. CASE Enter
  <2>1. Busy /\ Item.op \in Braces
    BY <1>4, Openings
  <2>2. PICK code \in Seq(Items) : Opens(blocks', code)
    BY <1>4, Openings
  <2>3. blocks' # <<>>
    BY <1>1, <2>1, <2>2 DEF Opens, N
  <2>4. CASE N # 1
    BY <1>1, <2>1, <2>2, <2>3, <2>4 DEF Opens, Halting, N
  <2>5. CASE N = 1
    <3>1. blocks'[1].code = Rest
      BY <2>2, <2>5 DEF Opens, Block, N
    <3>2. Item.op \notin Enders
      BY <2>1 DEF Braces, Enders
    <3>3. Ends(Rest)
      BY <1>1, <2>1, <2>5, <3>2, EndsRest DEF Rest
    <3> QED
      BY <2>3, <3>1, <3>3 DEF Halting
  <2> QED
    BY <2>4, <2>5
<1>5. CASE Close
  <2>1. /\ N \in Nat \ {0} /\ Top.code = <<>> /\ Top = blocks[N] /\ blocks # <<>>
        /\ blocks' \in Seq(Blocks) /\ Len(blocks') = N - 1
        /\ \A b \in 1 .. N - 1 : blocks'[b] = blocks[b]
    BY <1>5, Closings DEF N, Top, Close
  <2>2. live' = live
    BY <1>5 DEF Close
  <2>3. blocks' = <<>> <=> N = 1
    <3>1. blocks' = <<>> <=> Len(blocks') = 0
      <4> HIDE DEF Blocks
      <4> QED
        BY <2>1, EmptySeq
    <3> QED
      BY <2>1, <3>1
  <2>4. CASE N = 1
    BY <2>1, <2>2, <2>3, <2>4 DEF Halting, Ends
  <2>5. CASE N # 1
    <3>1. 1 \in 1 .. N - 1
      BY <2>1, <2>5
    <3>2. Ends(blocks[1].code)
      BY <2>1, <2>5 DEF Halting, N
    <3> QED
      BY <2>1, <2>3, <2>5, <3>1, <3>2 DEF Halting
  <2> QED
    BY <2>4, <2>5
<1>6. CASE Build
  <2> DEFINE n == Head(entries)
             block == Block([Unbound EXCEPT !["entry"] = n], Body(n), 0)
  <2>1. blocks' = <<block>>
    BY <1>6 DEF Build
  <2>2. Ends(block.code)
    BY DEF Block, Ends, Body, Enders, Op, Template
  <2>3. blocks' # <<>> /\ blocks'[1] = block
    <3> HIDE DEF block
    <3> QED
      BY <2>1
  <2> HIDE DEF block
  <2> QED
    BY <2>2, <2>3 DEF Halting
<1> QED
  BY <1>2, <1>3, <1>4, <1>5, <1>6 DEF Next

\* The dispatcher ends in a revert, the constructor in a RETURN.
LEMMA HaltingInit == Init => Halting
<1> SUFFICES ASSUME Init PROVE Halting
  OBVIOUS
<1>1. PICK unit \in {Block(Unbound, Dispatcher, 1), Block(Unbound, LowerConstructor, 0)} :
        blocks = <<unit>>
  BY DEF Init
<1>2. [k \in Nat |-> 0] \in [Nat -> Nat]
  OBVIOUS
<1>3. Ends(unit.code)
  <2>1. Ends(Dispatcher) /\ Ends(LowerConstructor)
    BY <1>2, DispatcherSound, ConstructorSound DEF Unit, Ends
  <2>2. unit.code = Dispatcher \/ unit.code = LowerConstructor
    BY <1>1 DEF Block
  <2> QED
    BY <2>1, <2>2
<1>4. blocks # <<>> /\ blocks[1] = unit
  BY <1>1
<1> QED
  BY <1>3, <1>4 DEF Halting

\* "must end in return/stop/revert": if functions with a result type end with a
\* value, execution does not come past the end of the dispatcher, of a function
\* or of the constructor.
THEOREM BodiesEnd ==
  ASSUME ~UnitValues
  PROVE  Spec => []EveryBodyEnds
<1>1. Init => Halting
  BY HaltingInit
<1>2. Vocabulary /\ Halting /\ [Next]_vars => Halting'
  <2> SUFFICES ASSUME Vocabulary, Halting, [Next]_vars PROVE Halting'
    OBVIOUS
  <2>1. CASE Next
    BY <2>1, HaltingStep
  <2>2. CASE UNCHANGED vars
    BY <2>2 DEF Halting, vars
  <2> QED
    BY <2>1, <2>2
<1>3. Halting => EveryBodyEnds
  BY DEF Halting, EveryBodyEnds
<1> QED
  BY <1>1, <1>2, <1>3, Vocabularies, PTL DEF Spec

----------------------------------------------------------------------------
(* The function entries.                                                   *)

\* block is going to jump to the entry that is label n.
Awaits(block, n) ==
  \E k \in DOMAIN block.code :
    block.code[k].op = "JUMPI" /\ block.code[k].name = "entry" /\ block.code[k].of = n

\* The dispatcher jumps to every function that is yet to be built.
Entered ==
  \A i \in DOMAIN entries :
    \/ <<entries[i], "entry">> \in DOMAIN at
    \/ \E b \in DOMAIN blocks : Awaits(blocks[b], entries[i])

\* A jump to an entry stays ahead until it is emitted,
LEMMA AwaitsRest ==
  ASSUME Vocabulary, Busy, NEW n, Awaits(Top, n), NEW s, NEW e
  PROVE  \/ Awaits(Block(s, Rest, e), n)
         \/ Item.op = "JUMPI" /\ Item.name = "entry" /\ Item.of = n
<1> DEFINE code == Top.code
           N == Len(code)
<1>1. code \in Seq(Items) /\ code # <<>> /\ Item = code[1]
  BY Tops DEF Busy
<1>2. /\ DOMAIN Rest = 1 .. N - 1 /\ N \in Nat \ {0} /\ DOMAIN code = 1 .. N
      /\ \A k \in 1 .. N - 1 : Rest[k] = code[k + 1]
  BY <1>1, Tails DEF Rest
<1>3. PICK k \in DOMAIN code : code[k].op = "JUMPI" /\ code[k].name = "entry" /\ code[k].of = n
  BY DEF Awaits
<1>4. CASE k = 1
  BY <1>1, <1>3, <1>4
<1>5. CASE k # 1
  <2>1. k - 1 \in DOMAIN Rest /\ Rest[k - 1] = code[k]
    BY <1>2, <1>3, <1>5
  <2> QED
    BY <1>3, <2>1 DEF Awaits, Block
<1> QED
  BY <1>4, <1>5

\* and an arm brings one.
LEMMA AwaitsSplice ==
  ASSUME Vocabulary, Busy, NEW n, NEW new \in Seq(Items), NEW s, NEW e,
         (Awaits(Top, n) /\ Item.op # "JUMPI") \/ (\E k \in DOMAIN new : new[k] = Label("JUMPI", n, "entry"))
  PROVE  Awaits(Block(s, new \o Rest, e), n)
<1> DEFINE code == Top.code
           N == Len(code)
           M == Len(new)
           t == new \o Rest
<1>1. code \in Seq(Items) /\ code # <<>> /\ Item = code[1]
  BY Tops DEF Busy
<1>2. /\ M \in Nat /\ DOMAIN t = 1 .. M + N - 1
      /\ \A k \in 1 .. M : t[k] = new[k]
      /\ \A k \in 2 .. N : t[M + k - 1] = code[k]
  <2>1. t = new \o Tail(code)
    BY DEF Rest
  <2> HIDE DEF t, code
  <2> QED
    BY <1>1, <2>1, Splices
<1>3. N \in Nat \ {0} /\ DOMAIN code = 1 .. N /\ DOMAIN new = 1 .. M
  BY <1>1, Tails
<1> HIDE DEF t, N, M
<1>4. CASE Awaits(Top, n) /\ Item.op # "JUMPI"
  <2>1. PICK k \in DOMAIN code : code[k].op = "JUMPI" /\ code[k].name = "entry" /\ code[k].of = n
    BY <1>4 DEF Awaits
  <2>2. k \in 2 .. N
    BY <1>1, <1>3, <1>4, <2>1
  <2>3. M + k - 1 \in DOMAIN t /\ t[M + k - 1] = code[k]
    BY <1>2, <1>3, <2>2
  <2> QED
    BY <2>1, <2>3 DEF Awaits, Block, t
<1>5. CASE \E k \in DOMAIN new : new[k] = Label("JUMPI", n, "entry")
  <2>1. PICK k \in DOMAIN new : new[k] = Label("JUMPI", n, "entry")
    BY <1>5
  <2>2. k \in DOMAIN t /\ t[k] = Label("JUMPI", n, "entry")
    BY <1>2, <1>3, <2>1
  <2> QED
    BY <2>2 DEF Awaits, Block, t, Label
<1> QED
  BY <1>4, <1>5

\* A step leaves no function that nobody jumps to.
LEMMA EnteredStep ==
  ASSUME ~LoopsInside, Vocabulary, Scoped, Entered, Next
  PROVE  Entered'
<1>1. /\ blocks \in Seq(Blocks) /\ DOMAIN blocks = 1 .. Len(blocks) /\ Len(blocks) \in Nat
      /\ blocks # <<>> => Len(blocks) \in Nat \ {0}
      /\ entries \in Seq(Nat) /\ New \in Nat
  BY LenProperties, Tops DEF Vocabulary, Blocks, New
<1>2. blocks' \in Seq(Blocks) /\ DOMAIN blocks' = 1 .. Len(blocks') /\ Len(blocks') \in Nat
  BY BlocksTyped, LenProperties
<1>3. CASE Emit \/ Let \/ Jump \/ PlaceLabel
  <2>1. Busy /\ Becomes(blocks', Held, Rest) /\ blocks # <<>> /\ entries' = entries
    BY <1>3, Advances DEF Busy
  <2>2. DOMAIN at \subseteq DOMAIN at'
    <3>1. CASE Emit \/ Let
      BY <3>1 DEF Emit, Let
    <3>2. CASE Jump \/ PlaceLabel
      BY <2>1, <3>2, Notes, Others DEF Jump, PlaceLabel
    <3> QED
      BY <1>3, <3>1, <3>2
  <2>3. ASSUME NEW n, NEW b \in DOMAIN blocks, Awaits(blocks[b], n)
        PROVE  \/ <<n, "entry">> \in DOMAIN at'
               \/ \E c \in DOMAIN blocks' : Awaits(blocks'[c], n)
    <3>1. DOMAIN blocks' = DOMAIN blocks
      BY <1>1, <1>2, <2>1 DEF Becomes
    <3>2. CASE b = Len(blocks)
      <4>1. Awaits(Top, n)
        BY <2>3, <3>2 DEF Top
      <4>2. CASE Awaits(Block(Held, Rest, Top.exit), n)
        BY <2>1, <2>3, <3>1, <3>2, <4>2 DEF Becomes
      <4>3. CASE Item.op = "JUMPI" /\ Item.name = "entry" /\ Item.of = n
        <5>1. Jump
          BY <1>3, <4>3 DEF Emit, Let, PlaceLabel, Instructions
        <5>2. Meant = <<n, "entry">>
          BY <2>1, <4>3, ScopedNow DEF OwnLabels, Mentions, Meant
        <5>3. Meant \in DOMAIN at'
          BY <2>1, <5>1, Notes, Others DEF Jump
        <5> QED
          BY <5>2, <5>3
      <4> QED
        BY <2>1, <4>1, <4>2, <4>3, AwaitsRest
    <3>3. CASE b # Len(blocks)
      <4>1. b \in 1 .. Len(blocks) - 1
        BY <1>1, <2>3, <3>3
      <4> QED
        BY <2>1, <2>3, <3>1, <4>1 DEF Becomes
    <3> QED
      BY <3>2, <3>3
  <2> QED
    BY <2>1, <2>2, <2>3 DEF Entered
<1>4. CASE Snippet \/ Lower \/ Dispatch
  <2>1. Busy /\ blocks # <<>> /\ Item.op # "JUMPI" /\ at' = at
    BY <1>4, Replacements DEF Busy, Emitted, Mentions
  <2>2. PICK code \in Seq(Items) : /\ Becomes(blocks', Top.scope, code \o Rest)
                                   /\ \/ entries' = entries
                                      \/ entries' = Append(entries, New) /\ code = Arm(New)
    BY <1>4, Replacements
  <2>3. ASSUME NEW n, NEW b \in DOMAIN blocks, Awaits(blocks[b], n)
        PROVE  \E c \in DOMAIN blocks' : Awaits(blocks'[c], n)
    <3>1. DOMAIN blocks' = DOMAIN blocks
      BY <1>1, <1>2, <2>2 DEF Becomes
    <3>2. CASE b = Len(blocks)
      <4>1. Awaits(Top, n)
        BY <2>3, <3>2 DEF Top
      <4>2. Awaits(Block(Top.scope, code \o Rest, Top.exit), n)
        BY <2>1, <4>1, AwaitsSplice
      <4> QED
        BY <2>2, <2>3, <3>1, <3>2, <4>2 DEF Becomes
    <3>3. CASE b # Len(blocks)
      <4>1. b \in 1 .. Len(blocks) - 1
        BY <1>1, <2>3, <3>3
      <4> QED
        BY <2>2, <2>3, <3>1, <4>1 DEF Becomes
    <3> QED
      BY <3>2, <3>3
  <2>4. ASSUME code = Arm(New)
        PROVE  \E c \in DOMAIN blocks' : Awaits(blocks'[c], New)
    <3>1. 5 \in DOMAIN Arm(New) /\ Arm(New)[5] = Label("JUMPI", New, "entry")
      BY DEF Arm
    <3>2. Awaits(Block(Top.scope, code \o Rest, Top.exit), New)
      BY <2>1, <2>4, <3>1, AwaitsSplice
    <3>3. Len(blocks) \in DOMAIN blocks'
      BY <1>1, <1>2, <2>1, <2>2 DEF Becomes
    <3> QED
      BY <2>2, <3>2, <3>3 DEF Becomes
  <2>5. ASSUME NEW i \in DOMAIN entries'
        PROVE  \/ i \in DOMAIN entries /\ entries'[i] = entries[i]
               \/ entries'[i] = New /\ code = Arm(New)
    <3>1. CASE entries' = entries
      BY <2>5, <3>1
    <3>2. CASE entries' = Append(entries, New) /\ code = Arm(New)
      BY <1>1, <2>5, <3>2
    <3> QED
      BY <2>2, <3>1, <3>2
  <2> QED
    BY <2>1, <2>3, <2>4, <2>5 DEF Entered
<1>5. CASE Enter
  <2>1. Busy /\ blocks # <<>> /\ Item.op # "JUMPI" /\ at' = at /\ entries' = entries
    BY <1>5, Openings DEF Busy, Braces
  <2>2. PICK code \in Seq(Items) : Opens(blocks', code)
    BY <1>5, Openings
  <2>3. ASSUME NEW n, NEW b \in DOMAIN blocks, Awaits(blocks[b], n)
        PROVE  \E c \in DOMAIN blocks' : Awaits(blocks'[c], n)
    <3>1. b \in DOMAIN blocks'
      BY <1>1, <1>2, <2>2, <2>3 DEF Opens
    <3>2. CASE b = Len(blocks)
      <4>1. Awaits(Top, n)
        BY <2>3, <3>2 DEF Top
      <4>2. Awaits(Block(Top.scope, Rest, Top.exit), n)
        BY <2>1, <4>1, AwaitsRest
      <4> QED
        BY <2>2, <3>1, <3>2, <4>2 DEF Opens
    <3>3. CASE b # Len(blocks)
      <4>1. b \in 1 .. Len(blocks) - 1
        BY <1>1, <2>3, <3>3
      <4> QED
        BY <2>2, <2>3, <3>1, <4>1 DEF Opens
    <3> QED
      BY <3>2, <3>3
  <2> QED
    BY <2>1, <2>3 DEF Entered
<1>6. CASE Close
  <2>1. UNCHANGED <<at, entries>>
    BY <1>6 DEF Close
  <2>2. ASSUME NEW n, NEW b \in DOMAIN blocks, Awaits(blocks[b], n)
        PROVE  \E c \in DOMAIN blocks' : Awaits(blocks'[c], n)
    <3>1. b # Len(blocks)
      BY <1>6, <2>2, Closings DEF Awaits, Top
    <3>2. b \in 1 .. Len(blocks) - 1
      BY <1>1, <2>2, <3>1
    <3>3. b \in DOMAIN blocks' /\ blocks'[b] = blocks[b]
      BY <1>2, <1>6, <3>2, Closings
    <3> QED
      BY <2>2, <3>3
  <2> QED
    BY <2>1, <2>2 DEF Entered
<1>7. CASE Build
  <2>1. at' = at /\ DOMAIN blocks = {} /\ entries # <<>> /\ entries' = Tail(entries)
    BY <1>7 DEF Build
  <2>2. \A i \in DOMAIN entries' : i + 1 \in DOMAIN entries /\ entries'[i] = entries[i + 1]
    BY <1>1, <2>1
  <2> QED
    BY <2>1, <2>2 DEF Entered
<1> QED
  BY <1>3, <1>4, <1>5, <1>6, <1>7 DEF Next

\* At first no function is owed.
LEMMA EnteredInit == Init => Entered
  BY DEF Init, Entered

----------------------------------------------------------------------------
(* Ways through codes, taken apart and put together.                       *)

\* The way through nothing.
LEMMA WalkEmpty ==
  ASSUME NEW a, NEW c, NEW H, Carries(<<>>, a, c, H)
  PROVE  a = c /\ a \in Nat
<1>1. PICK es : Walk(<<>>, es, a, c, H)
  BY DEF Carries
<1> QED
  BY <1>1 DEF Walk

\* A way through a code goes on behind its first item.
LEMMA WalkRest ==
  ASSUME NEW code \in Seq(Items), code # <<>>, NEW a, NEW c, NEW H, Carries(code, a, c, H)
  PROVE  /\ a \in Nat /\ Suits(code[1].op, a) /\ Beyond(code[1].op, a) \in Nat
         /\ code[1].op \in Mentions => H[code[1].of] = Beyond(code[1].op, a)
         /\ Carries(Tail(code), Beyond(code[1].op, a), c, H)
<1> DEFINE N == Len(code)
<1>1. /\ N \in Nat \ {0} /\ Len(Tail(code)) = N - 1
      /\ \A k \in 1 .. N - 1 : Tail(code)[k] = code[k + 1]
  BY Tails
<1>2. PICK es : Walk(code, es, a, c, H)
  BY DEF Carries
<1> HIDE DEF N
<1>3. /\ es \in [1 .. N + 1 -> Nat] /\ es[1] = a /\ es[N + 1] = c
      /\ \A k \in 1 .. N : Fits(code[k], es[k], es[k + 1], H)
  BY <1>2 DEF Walk, N
<1>4. 1 \in 1 .. N /\ 1 \in 1 .. N + 1 /\ 2 \in 1 .. N + 1 /\ 1 + 1 = 2
  BY <1>1
<1>5. a \in Nat /\ es[2] \in Nat /\ Fits(code[1], a, es[2], H)
  BY <1>3, <1>4
<1> DEFINE fs == [k \in 1 .. (N - 1) + 1 |-> es[k + 1]]
<1>6. fs \in [1 .. (N - 1) + 1 -> Nat] /\ fs[1] = es[2] /\ fs[(N - 1) + 1] = c
  <2>1. \A k \in 1 .. (N - 1) + 1 : k + 1 \in 1 .. N + 1
    BY <1>1
  <2>2. 1 \in 1 .. (N - 1) + 1 /\ (N - 1) + 1 \in 1 .. (N - 1) + 1 /\ ((N - 1) + 1) + 1 = N + 1
    BY <1>1
  <2> QED
    BY <1>3, <1>4, <2>1, <2>2
<1>7. \A k \in 1 .. N - 1 : Fits(Tail(code)[k], fs[k], fs[k + 1], H)
  <2> TAKE k \in 1 .. N - 1
  <2>1. k + 1 \in 1 .. N /\ k \in 1 .. (N - 1) + 1 /\ k + 1 \in 1 .. (N - 1) + 1
    BY <1>1
  <2>2. fs[k] = es[k + 1] /\ fs[k + 1] = es[(k + 1) + 1]
    BY <2>1
  <2> QED
    BY <1>1, <1>3, <2>1, <2>2
<1> HIDE DEF fs
<1>8. Walk(Tail(code), fs, es[2], c, H)
  BY <1>1, <1>6, <1>7 DEF Walk
<1>9. es[2] = Beyond(code[1].op, a)
  BY <1>5 DEF Fits
<1>10. Carries(Tail(code), Beyond(code[1].op, a), c, H)
  BY <1>8, <1>9, Zenon DEF Carries
<1> QED
  BY <1>5, <1>9, <1>10 DEF Fits

\* A way through a code that takes the place of the first item of another.
LEMMA WalkSplice ==
  ASSUME NEW code \in Seq(Items), code # <<>>, NEW new \in Seq(Items), NEW a, NEW b, NEW c, NEW H,
         Carries(new, a, b, H), Carries(Tail(code), b, c, H)
  PROVE  Carries(new \o Tail(code), a, c, H)
<1> DEFINE s == new \o Tail(code)
           N == Len(code)
           M == Len(new)
<1>1. /\ Len(s) = M + N - 1 /\ M \in Nat
      /\ \A k \in 1 .. M : s[k] = new[k]
      /\ \A k \in 2 .. N : s[M + k - 1] = code[k]
  BY Splices
<1>2. N \in Nat \ {0} /\ Len(Tail(code)) = N - 1 /\ \A k \in 1 .. N - 1 : Tail(code)[k] = code[k + 1]
  BY Tails
<1>3. PICK es : Walk(new, es, a, b, H)
  BY DEF Carries
<1>4. PICK fs : Walk(Tail(code), fs, b, c, H)
  BY DEF Carries
<1> HIDE DEF s, N, M
<1>5. /\ es \in [1 .. M + 1 -> Nat] /\ es[1] = a /\ es[M + 1] = b
      /\ \A k \in 1 .. M : Fits(new[k], es[k], es[k + 1], H)
  BY <1>3 DEF Walk, M
<1>6. /\ fs \in [1 .. N -> Nat] /\ fs[1] = b /\ fs[N] = c
      /\ \A k \in 1 .. N - 1 : Fits(code[k + 1], fs[k], fs[k + 1], H)
  <2>1. N - 1 + 1 = N
    BY <1>2
  <2> QED
    BY <1>2, <1>4, <2>1 DEF Walk
<1> DEFINE gs == [k \in 1 .. (M + N - 1) + 1 |-> IF k <= M THEN es[k] ELSE fs[k - M]]
<1>7. \A k \in 1 .. (M + N - 1) + 1 : k <= M \/ k - M \in 1 .. N
  BY <1>1, <1>2
<1>8. gs \in [1 .. (M + N - 1) + 1 -> Nat]
  <2>1. \A k \in 1 .. (M + N - 1) + 1 : k <= M => k \in 1 .. M + 1
    BY <1>1, <1>2
  <2> QED
    BY <1>5, <1>6, <1>7, <2>1
<1>9. gs[1] = a
  <2>1. 1 \in 1 .. (M + N - 1) + 1 /\ (1 <= M \/ (M = 0 /\ ~(1 <= M) /\ 1 - M = 1 /\ M + 1 = 1))
    BY <1>1, <1>2
  <2> QED
    BY <1>5, <1>6, <2>1
<1>10. gs[(M + N - 1) + 1] = c
  <2> DEFINE K == (M + N - 1) + 1
  <2>1. K \in 1 .. K /\ ~(K <= M) /\ K - M = N
    BY <1>1, <1>2
  <2>2. gs = [k \in 1 .. K |-> IF k <= M THEN es[k] ELSE fs[k - M]]
    OBVIOUS
  <2> HIDE DEF K, gs
  <2>3. gs[K] = fs[N]
    BY <2>1, <2>2
  <2> QED
    BY <1>6, <2>3 DEF K
<1>11. ASSUME NEW k \in 1 .. M + N - 1
       PROVE  Fits(s[k], gs[k], gs[k + 1], H)
  <2>1. k \in 1 .. (M + N - 1) + 1 /\ k + 1 \in 1 .. (M + N - 1) + 1
    BY <1>1, <1>2
  <2>2. /\ gs[k] = IF k <= M THEN es[k] ELSE fs[k - M]
        /\ gs[k + 1] = IF k + 1 <= M THEN es[k + 1] ELSE fs[(k + 1) - M]
    BY <2>1
  <2> HIDE DEF gs
  <2>3. CASE k <= M
    <3>1. k \in 1 .. M /\ s[k] = new[k]
      BY <1>1, <2>3
    <3>2. gs[k] = es[k] /\ gs[k + 1] = es[k + 1]
      <4>1. k + 1 <= M \/ (k + 1 = M + 1 /\ ~(k + 1 <= M) /\ (k + 1) - M = 1)
        BY <1>1, <2>3
      <4> QED
        BY <1>5, <1>6, <2>2, <2>3, <4>1
    <3> QED
      BY <1>5, <3>1, <3>2
  <2>4. CASE ~(k <= M)
    <3> DEFINE m == k - M
    <3>1. m \in 1 .. N - 1 /\ m + 1 \in 2 .. N /\ M + (m + 1) - 1 = k /\ ~(k + 1 <= M) /\ (k + 1) - M = m + 1
      BY <1>1, <1>2, <2>4, SMTT(30)
    <3>2. gs[k] = fs[m] /\ gs[k + 1] = fs[m + 1]
      BY <2>2, <2>4, <3>1
    <3> HIDE DEF m
    <3>3. s[k] = code[m + 1]
      BY <1>1, <3>1
    <3> QED
      BY <1>6, <3>1, <3>2, <3>3
  <2> QED
    BY <2>3, <2>4
<1> HIDE DEF gs
<1>12. Walk(s, gs, a, c, H)
  BY <1>1, <1>8, <1>9, <1>10, <1>11 DEF Walk
<1> QED
  BY <1>12, Zenon DEF Carries, s

\* Only the heights of the labels that are mentioned matter.
LEMMA WalkOther ==
  ASSUME NEW code \in Seq(Items), NEW a, NEW c, NEW H, Carries(code, a, c, H), NEW G,
         \A k \in DOMAIN code : G[code[k].of] = H[code[k].of]
  PROVE  Carries(code, a, c, G)
<1>1. PICK es : Walk(code, es, a, c, H)
  BY DEF Carries
<1>2. \A k \in 1 .. Len(code) : k \in DOMAIN code
  BY LenProperties
<1>3. \A k \in 1 .. Len(code) : Fits(code[k], es[k], es[k + 1], G)
  BY <1>1, <1>2 DEF Walk, Fits
<1>4. Walk(code, es, a, c, G)
  BY <1>1, <1>3 DEF Walk
<1> QED
  BY <1>4, Zenon DEF Carries

----------------------------------------------------------------------------
(* The stack.                                                              *)

\* The height a at which the next item of the innermost block is met: the one
\* after what has been emitted, or at a label the one of the jumps to it.
Met(a) ==
  \/ a = height
  \/ /\ ~live /\ Top.code # <<>> /\ Top.code[1].op = "JUMPDEST"
     /\ <<Top.code[1].of, Top.code[1].name>> \in DOMAIN at

\* Every open block can be walked through from where the block inside it leaves
\* to where the code behind it expects, every label mentioned at its height.
Level(H) ==
  /\ \A l \in DOMAIN at : at[l] = H[l[1]]
  /\ \A i \in DOMAIN entries : H[entries[i]] = 1
  /\ \A b \in 1 .. Len(blocks) - 1 : Carries(blocks[b].code, blocks[b + 1].exit, blocks[b].exit, H)
  /\ blocks # <<>> => \E a \in Nat : Met(a) /\ Carries(Top.code, a, Top.exit, H)

Balanced == \E H \in [Nat -> Nat] : Level(H)

\* Wherever execution comes from, it comes with the same stack.
LEMMA Meeting ==
  ASSUME Vocabulary, OwnLabels, blocks # <<>>, NEW H \in [Nat -> Nat], Level(H)
  PROVE  /\ Before \in Nat /\ Carries(Top.code, Before, Top.exit, H)
         /\ ~(Busy /\ Item.op = "JUMPDEST") => Before = height
         /\ Busy /\ Item.op \in Mentions => Meant = <<Item.of, Item.name>>
<1>1. PICK a \in Nat : Met(a) /\ Carries(Top.code, a, Top.exit, H)
  BY DEF Level
<1>2. CASE Top.code = <<>>
  BY <1>1, <1>2 DEF Met, Before, Busy
<1>3. CASE Top.code # <<>>
  <2>1. Busy /\ Item = Top.code[1] /\ Top.code \in Seq(Items)
    BY <1>3, Tops DEF Busy
  <2>2. Item.op \in Mentions => Meant = <<Item.of, Item.name>> /\ H[Item.of] = Beyond(Item.op, a)
    BY <1>1, <1>3, <2>1, WalkRest DEF OwnLabels, Meant
  <2>3. Item.op = "JUMPDEST" /\ Meant \in DOMAIN at => at[Meant] = a
    BY <1>1, <2>2 DEF Level, Beyond, Takes, Leaves, Mentions
  <2>4. Before = a
    <3>1. CASE Item.op = "JUMPDEST" /\ ~live /\ Meant \in DOMAIN at
      BY <2>1, <2>3, <3>1 DEF Before
    <3>2. CASE ~(Item.op = "JUMPDEST" /\ ~live /\ Meant \in DOMAIN at)
      <4>1. Before = height
        BY <3>2 DEF Before
      <4>2. a = height
        BY <1>1, <2>1, <2>2, <3>2 DEF Met, Mentions
      <4> QED
        BY <4>1, <4>2
    <3> QED
      BY <3>1, <3>2
  <2> QED
    BY <1>1, <2>1, <2>2, <2>4 DEF Before
<1> QED
  BY <1>2, <1>3

\* Where every block can be walked through, the next item is safe.
LEMMA LevelSafe ==
  ASSUME Vocabulary, OwnLabels, NEW H \in [Nat -> Nat], Level(H)
  PROVE  StackSafe
<1>1. ASSUME Busy
      PROVE  /\ Takes(Item.op) <= Before
             /\ Item.op \in {"STOP", "RETURN"} => Before = Takes(Item.op)
             /\ Item.op \in Mentions /\ Meant \in DOMAIN at => at[Meant] = Before - Takes(Item.op)
  <2>1. blocks # <<>> /\ Top.code # <<>> /\ Item = Top.code[1] /\ Top.code \in Seq(Items)
    BY <1>1, Tops DEF Busy
  <2>2. Before \in Nat /\ Carries(Top.code, Before, Top.exit, H)
    BY <2>1, Meeting
  <2>3. /\ Suits(Item.op, Before)
        /\ Item.op \in Mentions => H[Item.of] = Beyond(Item.op, Before) /\ Meant = <<Item.of, Item.name>>
    BY <1>1, <2>1, <2>2, WalkRest, Meeting
  <2>4. Item.op \in Mentions => Beyond(Item.op, Before) = Before - Takes(Item.op)
    BY <2>2 DEF Beyond, Takes, Leaves, Mentions
  <2>5. Item.op \in Mentions /\ Meant \in DOMAIN at => at[Meant] = Before - Takes(Item.op)
    BY <2>3, <2>4 DEF Level
  <2> HIDE DEF Before
  <2>6. Takes(Item.op) <= Before /\ (Item.op \in {"STOP", "RETURN"} => Before = Takes(Item.op))
    BY <2>3 DEF Suits, AtBottom
  <2> QED
    BY <2>5, <2>6
<1>2. ASSUME blocks # <<>>, Top.code = <<>>
      PROVE  height = Top.exit
  <2>1. Carries(<<>>, height, Top.exit, H)
    BY <1>2, Meeting DEF Busy
  <2> QED
    BY <2>1, WalkEmpty
<1> QED
  BY <1>1, <1>2 DEF StackSafe

\* A sequence with one element more.
LEMMA Appended ==
  ASSUME NEW s \in Seq(Nat), NEW e \in Nat, NEW t, t = Append(s, e), NEW i \in DOMAIN t
  PROVE  (i \in DOMAIN s /\ t[i] = s[i]) \/ t[i] = e
  OBVIOUS

\* A step leaves ways through all blocks, the new label at a height of its own.
LEMMA BalancedStep ==
  ASSUME ~LoopsInside, ~UnitValues, Vocabulary, Numbered, Scoped, Halting, Entered,
         NEW H \in [Nat -> Nat], Level(H), Next
  PROVE  Balanced'
<1> DEFINE N == Len(blocks)
<1>1. /\ OwnLabels /\ blocks \in Seq(Blocks) /\ DOMAIN blocks = 1 .. N /\ N \in Nat
      /\ blocks # <<>> => N \in Nat \ {0}
      /\ entries \in Seq(Nat) /\ replaced \in Nat /\ New = replaced + 1
      /\ height \in Int
  BY ScopedNow, LenProperties, Tops DEF Vocabulary, Blocks, New
<1>2. ASSUME Busy
      PROVE  /\ blocks # <<>> /\ N \in Nat \ {0} /\ Top.code \in Seq(Items) /\ Top.code # <<>>
             /\ Item = Top.code[1] /\ Rest = Tail(Top.code)
             /\ Before \in Nat /\ Suits(Item.op, Before) /\ Beyond(Item.op, Before) \in Nat
             /\ Item.op \in Mentions => /\ H[Item.of] = Beyond(Item.op, Before)
                                        /\ Meant = <<Item.of, Item.name>>
             /\ Carries(Rest, Beyond(Item.op, Before), Top.exit, H)
             /\ Item.op # "JUMPDEST" => Before = height
  <2>1. blocks # <<>> /\ N \in Nat \ {0} /\ Top.code \in Seq(Items) /\ Top.code # <<>> /\ Item = Top.code[1]
    BY <1>2, Tops DEF Busy
  <2>2. Before \in Nat /\ Carries(Top.code, Before, Top.exit, H)
    BY <1>1, <2>1, Meeting
  <2>3. /\ Item.op \in Mentions => Meant = <<Item.of, Item.name>>
        /\ Item.op # "JUMPDEST" => Before = height
    BY <1>1, <1>2, <2>1, Meeting
  <2> QED
    BY <2>1, <2>2, <2>3, WalkRest DEF Rest
<1> HIDE DEF N
<1>3. CASE Emit \/ Let \/ Jump \/ PlaceLabel
  <2>1. Busy /\ Item.op \in Emitted /\ Becomes(blocks', Held, Rest) /\ entries' = entries
    BY <1>3, Advances
  <2> HIDE DEF Before
  <2>2. height' = Beyond(Item.op, Before)
    <3>1. CASE Emit \/ Jump
      <4>1. height' = After(Item.op) /\ Item.op # "JUMPDEST"
        BY <3>1 DEF Emit, Jump, Instructions
      <4>2. Before = height
        BY <1>2, <2>1, <4>1
      <4> QED
        BY <4>1, <4>2 DEF After, Beyond
    <3>2. CASE Let
      <4>1. height' = height /\ Item.op = "LET"
        BY <3>2 DEF Let
      <4>2. Before = height
        BY <1>2, <2>1, <4>1
      <4> QED
        BY <1>1, <4>1, <4>2 DEF Beyond, Takes, Leaves
    <3>3. CASE PlaceLabel
      <4>1. height' = Before /\ Item.op = "JUMPDEST"
        BY <3>3 DEF PlaceLabel
      <4>2. Before \in Nat
        BY <1>2, <2>1
      <4> QED
        BY <4>1, <4>2 DEF Beyond, Takes, Leaves
    <3> QED
      BY <1>3, <3>1, <3>2, <3>3
  <2>3. height' \in Nat
    BY <1>2, <2>1, <2>2
  <2>4. \A l \in DOMAIN at' : at'[l] = H[l[1]]
    <3>1. CASE Emit \/ Let
      BY <3>1 DEF Emit, Let, Level
    <3>2. CASE Jump \/ PlaceLabel
      <4>1. at' = Noted(height') /\ Item.op \in Mentions
        BY <3>2 DEF Jump, PlaceLabel, Mentions
      <4>2. \A l \in DOMAIN at' : (l \in DOMAIN at /\ at'[l] = at[l]) \/ (l = Meant /\ at'[l] = height')
        BY <2>1, <2>3, <4>1, Notes
      <4>3. Meant[1] = Item.of /\ H[Item.of] = height'
        <5>1. Meant = <<Item.of, Item.name>> /\ H[Item.of] = Beyond(Item.op, Before)
          BY <1>2, <2>1, <4>1
        <5> HIDE DEF Meant, Item
        <5> QED
          BY ONLY <2>2, <5>1
      <4> QED
        BY <4>2, <4>3 DEF Level
    <3> QED
      BY <1>3, <3>1, <3>2
  <2>5. /\ blocks' # <<>> /\ Len(blocks') = N /\ blocks'[N].code = Rest /\ blocks'[N].exit = Top.exit
        /\ \A b \in 1 .. N - 1 : blocks'[b] = blocks[b]
    BY <1>2, <2>1 DEF Becomes, Block, N
  <2>6. Carries(Rest, height', Top.exit, H)
    BY <1>2, <2>1, <2>2
  <2>7. \A b \in 1 .. N - 1 : Carries(blocks'[b].code, blocks'[b + 1].exit, blocks'[b].exit, H)
    <3> TAKE b \in 1 .. N - 1
    <3>1. blocks'[b + 1].exit = blocks[b + 1].exit
      <4>1. b + 1 = N \/ b + 1 \in 1 .. N - 1
        BY <1>1
      <4> QED
        BY <2>5, <4>1 DEF Top, N
    <3> QED
      BY <2>5, <3>1 DEF Level, N
  <2>8. Top'.code = Rest /\ Top'.exit = Top.exit
    BY <2>5 DEF Top
  <2>9. PICK h \in Nat : h = height'
    BY <2>3
  <2>10. Level(H)'
    <3>1. \A i \in DOMAIN entries' : H[entries'[i]] = 1
      BY <2>1 DEF Level
    <3>2. \E a \in Nat : Met(a)' /\ Carries(Top'.code, a, Top'.exit, H)
      <4>1. Met(h)' /\ Carries(Top'.code, h, Top'.exit, H)
        BY <2>6, <2>8, <2>9 DEF Met
      <4> HIDE DEF Met, Top
      <4> QED
        BY <4>1, Zenon
    <3>3. \A b \in 1 .. Len(blocks') - 1 : Carries(blocks'[b].code, blocks'[b + 1].exit, blocks'[b].exit, H)
      BY <2>5, <2>7
    <3> QED
      BY <2>4, <3>1, <3>2, <3>3 DEF Level
  <2> QED
    BY <2>10 DEF Balanced
<1>4. ASSUME NEW h \in Nat
      PROVE  \E G \in [Nat -> Nat] :
               /\ G[New] = h /\ \A k \in Nat : k # New => G[k] = H[k]
  <2>1. [H EXCEPT ![New] = h] \in [Nat -> Nat]
    BY <1>1, <1>4
  <2>2. [H EXCEPT ![New] = h][New] = h /\ \A k \in Nat : k # New => [H EXCEPT ![New] = h][k] = H[k]
    BY <1>1, <1>4
  <2> QED
    BY <2>1, <2>2
<1>5. ASSUME NEW G \in [Nat -> Nat], \A k \in Nat : k # New => G[k] = H[k]
      PROVE  /\ \A l \in DOMAIN at : at[l] = G[l[1]]
             /\ \A i \in DOMAIN entries : G[entries[i]] = 1
             /\ \A b \in 1 .. N - 1 : Carries(blocks[b].code, blocks[b + 1].exit, blocks[b].exit, G)
             /\ Busy => Carries(Rest, Beyond(Item.op, Before), Top.exit, G)
  <2>1. \A k \in Nat : k <= replaced => G[k] = H[k]
    BY <1>1, <1>5
  <2>2. \A l \in DOMAIN at : l[1] \in Nat /\ l[1] <= replaced
    BY DEF Numbered, Vocabulary, Labels
  <2>3. \A i \in DOMAIN entries : entries[i] \in Nat /\ entries[i] <= replaced
    BY <1>1 DEF Numbered
  <2>4. ASSUME NEW b \in DOMAIN blocks, NEW k \in DOMAIN blocks[b].code
        PROVE  G[blocks[b].code[k].of] = H[blocks[b].code[k].of]
    <3>1. blocks[b] \in Blocks
      <4> HIDE DEF Blocks
      <4> QED
        BY <1>1, <2>4
    <3>2. blocks[b].code \in Seq(Items)
      BY <3>1 DEF Blocks
    <3>3. blocks[b].code[k].of \in Nat
      BY <2>4, <3>2, Typed
    <3>4. blocks[b].code[k].of <= replaced
      BY <2>4 DEF Numbered, Early
    <3> QED
      BY <2>1, <3>3, <3>4
  <2>5. ASSUME NEW b \in 1 .. N - 1
        PROVE  Carries(blocks[b].code, blocks[b + 1].exit, blocks[b].exit, G)
    <3>1. b \in DOMAIN blocks
      BY <1>1
    <3>2. blocks[b] \in Blocks
      <4> HIDE DEF Blocks
      <4> QED
        BY <1>1, <3>1
    <3>3. blocks[b].code \in Seq(Items)
      BY <3>2 DEF Blocks
    <3>4. Carries(blocks[b].code, blocks[b + 1].exit, blocks[b].exit, H)
      BY <2>5 DEF Level, N
    <3> QED
      BY <2>4, <3>1, <3>3, <3>4, WalkOther
  <2>6. ASSUME Busy
        PROVE  Carries(Rest, Beyond(Item.op, Before), Top.exit, G)
    <3>1. Rest \in Seq(Items) /\ \A k \in DOMAIN Rest : \E j \in DOMAIN Top.code : Rest[k] = Top.code[j]
      <4>1. /\ DOMAIN Rest = 1 .. Len(Top.code) - 1 /\ Len(Top.code) \in Nat \ {0}
            /\ DOMAIN Top.code = 1 .. Len(Top.code) /\ Rest \in Seq(Items)
            /\ \A k \in 1 .. Len(Top.code) - 1 : Rest[k] = Top.code[k + 1]
        BY <1>2, <2>6, Tails
      <4>2. \A k \in DOMAIN Rest : k + 1 \in DOMAIN Top.code
        <5> HIDE DEF Rest, Top
        <5> DEFINE L == Len(Top.code)
        <5>1. DOMAIN Rest = 1 .. L - 1 /\ L \in Nat \ {0} /\ DOMAIN Top.code = 1 .. L
          BY <4>1
        <5> HIDE DEF L
        <5>2. \A k \in 1 .. L - 1 : k + 1 \in 1 .. L
          BY ONLY <5>1
        <5> QED
          BY ONLY <5>1, <5>2
      <4> QED
        BY <4>1, <4>2
    <3>2. \A j \in DOMAIN Top.code : G[Top.code[j].of] = H[Top.code[j].of]
      <4>1. N \in DOMAIN blocks
        <5>1. N \in Nat \ {0} /\ DOMAIN blocks = 1 .. N
          BY <1>1, <1>2, <2>6
        <5> QED
          BY ONLY <5>1
      <4>2. Top = blocks[N]
        BY DEF Top, N
      <4> HIDE DEF Top
      <4> QED
        BY <2>4, <4>1, <4>2
    <3>3. \A k \in DOMAIN Rest : G[Rest[k].of] = H[Rest[k].of]
      <4> TAKE k \in DOMAIN Rest
      <4>1. PICK j \in DOMAIN Top.code : Rest[k] = Top.code[j]
        BY <3>1
      <4> HIDE DEF Rest, Top
      <4>2. G[Top.code[j].of] = H[Top.code[j].of]
        BY <3>2
      <4> QED
        BY ONLY <4>1, <4>2
    <3>4. Carries(Rest, Beyond(Item.op, Before), Top.exit, H)
      BY <1>2, <2>6
    <3> QED
      BY <3>1, <3>3, <3>4, WalkOther
  <2> QED
    BY <2>1, <2>2, <2>3, <2>5, <2>6 DEF Level
<1>6. CASE Snippet \/ Lower \/ Dispatch
  <2>1. Busy /\ Item.op \notin Emitted \cup Braces /\ UNCHANGED <<height, live, at>>
    BY <1>6, Replacements
  <2>2. PICK code \in Seq(Items) :
          /\ Sound(code, Item, New) /\ Becomes(blocks', Top.scope, code \o Rest)
          /\ \/ entries' = entries
             \/ entries' = Append(entries, New) /\ Item.op = "Arms" /\ code = Arm(New)
    BY <1>6, Replacements
  <2>3. Item.op # "JUMPDEST" /\ Before = height /\ height \in Nat /\ Suits(Item.op, height)
    BY <1>2, <2>1 DEF Emitted, Mentions
  <2>4. PICK G \in [Nat -> Nat] :
          /\ \A k \in Nat : k # New => G[k] = H[k]
          /\ Carries(code, height, Beyond(Item.op, height), G)
          /\ entries' # entries => G[New] = 1
    <3>1. CASE entries' = Append(entries, New) /\ Item.op = "Arms" /\ code = Arm(New)
      <4>1. PICK G \in [Nat -> Nat] : G[New] = 1 /\ \A k \in Nat : k # New => G[k] = H[k]
        BY <1>4, 1 \in Nat
      <4>2. height = 1 /\ Beyond(Item.op, height) = 1
        BY <2>3, <3>1 DEF Suits, Beyond, AtBottom, Takes, Leaves
      <4>3. Item \in Items /\ New \in Nat \ {0}
        BY <1>1, <1>2, <2>1, Tops
      <4>4. Carries(Arm(New), 1, 1, G)
        BY <3>1, <4>1, <4>3, ArmsSound
      <4> QED
        BY <3>1, <4>1, <4>2, <4>4
    <3>2. CASE entries' = entries
      <4>1. Effect(code, Item.op, New)
        BY <2>2 DEF Sound
      <4>2. PICK h \in Nat : \A G \in [Nat -> Nat] : G[New] = h =>
                               Carries(code, height, Beyond(Item.op, height), G)
        BY <2>3, <4>1 DEF Effect
      <4>3. PICK G \in [Nat -> Nat] : G[New] = h /\ \A k \in Nat : k # New => G[k] = H[k]
        BY <1>4
      <4> QED
        BY <3>2, <4>2, <4>3
    <3> QED
      BY <2>2, <3>1, <3>2
  <2>5. /\ \A l \in DOMAIN at : at[l] = G[l[1]]
        /\ \A i \in DOMAIN entries : G[entries[i]] = 1
        /\ \A b \in 1 .. N - 1 : Carries(blocks[b].code, blocks[b + 1].exit, blocks[b].exit, G)
        /\ Carries(Rest, Beyond(Item.op, height), Top.exit, G)
    BY <1>5, <2>1, <2>3, <2>4
  <2>6. Carries(code \o Rest, height, Top.exit, G)
    BY <1>2, <2>1, <2>4, <2>5, WalkSplice
  <2>7. /\ blocks' # <<>> /\ Len(blocks') = N /\ blocks'[N].code = code \o Rest /\ blocks'[N].exit = Top.exit
        /\ \A b \in 1 .. N - 1 : blocks'[b] = blocks[b]
    <3> DEFINE new == code \o Rest
    <3>1. Becomes(blocks', Top.scope, new)
      BY <2>2
    <3>2. N \in Nat \ {0}
      BY <1>2, <2>1
    <3> HIDE DEF new, Top
    <3>3. /\ Len(blocks') = N /\ blocks'[N] = Block(Top.scope, new, Top.exit)
          /\ \A b \in 1 .. N - 1 : blocks'[b] = blocks[b]
      BY <3>1 DEF Becomes, N
    <3>4. blocks' # <<>>
      BY <3>2, <3>3
    <3>5. blocks'[N].code = new /\ blocks'[N].exit = Top.exit
      BY ONLY <3>3 DEF Block
    <3> QED
      BY <3>3, <3>4, <3>5, Zenon DEF new
  <2>8. \A b \in 1 .. N - 1 : Carries(blocks'[b].code, blocks'[b + 1].exit, blocks'[b].exit, G)
    <3> TAKE b \in 1 .. N - 1
    <3>1. blocks'[b + 1].exit = blocks[b + 1].exit
      <4>1. b + 1 = N \/ b + 1 \in 1 .. N - 1
        BY <1>1
      <4> QED
        BY <2>7, <4>1 DEF Top, N
    <3> QED
      BY <2>5, <2>7, <3>1
  <2>9. Top'.code = code \o Rest /\ Top'.exit = Top.exit
    BY <2>7 DEF Top
  <2>10. PICK h \in Nat : h = height
    BY <2>3
  <2>11. \A i \in DOMAIN entries' : G[entries'[i]] = 1
    <3>1. CASE entries' = entries
      BY <2>5, <3>1
    <3>2. CASE entries' # entries
      <4>1. entries' = Append(entries, New) /\ G[New] = 1
        BY <2>2, <2>4, <3>2
      <4>2. \A i \in DOMAIN entries' : (i \in DOMAIN entries /\ entries'[i] = entries[i]) \/ entries'[i] = New
        <5>1. entries \in Seq(Nat) /\ New \in Nat /\ entries' = Append(entries, New)
          BY <1>1, <4>1
        <5> HIDE DEF New
        <5> TAKE i \in DOMAIN entries'
        <5> QED
          BY <5>1, Appended
      <4> QED
        BY <2>5, <4>1, <4>2
    <3> QED
      BY <3>1, <3>2
  <2>12. Level(G)'
    <3>1. \E a \in Nat : Met(a)' /\ Carries(Top'.code, a, Top'.exit, G)
      <4>1. Met(h)' /\ Carries(Top'.code, h, Top'.exit, G)
        BY <2>1, <2>6, <2>9, <2>10 DEF Met
      <4> HIDE DEF Met, Top
      <4> QED
        BY <4>1, Zenon
    <3>2. \A b \in 1 .. Len(blocks') - 1 : Carries(blocks'[b].code, blocks'[b + 1].exit, blocks'[b].exit, G)
      BY <2>7, <2>8
    <3>3. \A l \in DOMAIN at' : at'[l] = G[l[1]]
      BY <2>1, <2>5
    <3> QED
      BY <2>11, <3>1, <3>2, <3>3 DEF Level
  <2> QED
    BY <2>12 DEF Balanced
<1>7. CASE Enter
  <2>1. Busy /\ Item.op \in Braces /\ UNCHANGED <<height, live, at, entries>>
    BY <1>7, Openings
  <2>2. PICK code \in Seq(Items) : Braced(code, Item.op, New) /\ Opens(blocks', code)
    BY <1>7, Openings
  <2>3. Item.op # "JUMPDEST" /\ Before = height /\ height \in Nat /\ Suits(Item.op, height)
    BY <1>2, <2>1 DEF Braces
  <2>4. PICK G \in [Nat -> Nat] :
          /\ \A k \in Nat : k # New => G[k] = H[k]
          /\ Carries(code, height, Beyond(Item.op, height), G)
    <3>1. Effect(code, Item.op, New)
      BY <2>2 DEF Braced
    <3>2. PICK h \in Nat : \A G \in [Nat -> Nat] : G[New] = h =>
                             Carries(code, height, Beyond(Item.op, height), G)
      BY <2>3, <3>1 DEF Effect
    <3>3. PICK G \in [Nat -> Nat] : G[New] = h /\ \A k \in Nat : k # New => G[k] = H[k]
      BY <1>4
    <3> QED
      BY <3>2, <3>3
  <2>5. /\ \A l \in DOMAIN at : at[l] = G[l[1]]
        /\ \A i \in DOMAIN entries : G[entries[i]] = 1
        /\ \A b \in 1 .. N - 1 : Carries(blocks[b].code, blocks[b + 1].exit, blocks[b].exit, G)
        /\ Carries(Rest, Beyond(Item.op, height), Top.exit, G)
    BY <1>5, <2>1, <2>3, <2>4
  <2>6. After(Item.op) = Beyond(Item.op, height)
    BY DEF After, Beyond
  <2>7. /\ blocks' # <<>> /\ Len(blocks') = N + 1
        /\ blocks'[N].code = Rest /\ blocks'[N].exit = Top.exit
        /\ blocks'[N + 1].code = code /\ blocks'[N + 1].exit = Beyond(Item.op, height)
        /\ \A b \in 1 .. N - 1 : blocks'[b] = blocks[b]
    <3>1. /\ Len(blocks') = N + 1
          /\ blocks'[N].code = Rest /\ blocks'[N].exit = Top.exit
          /\ blocks'[N + 1].code = code /\ blocks'[N + 1].exit = Beyond(Item.op, height)
          /\ \A b \in 1 .. N - 1 : blocks'[b] = blocks[b]
      BY <1>2, <2>1, <2>2, <2>6 DEF Opens, Block, N
    <3>2. Len(blocks') # 0
      BY <1>1, <3>1
    <3> QED
      BY <3>1, <3>2
  <2>8. \A b \in 1 .. N : Carries(blocks'[b].code, blocks'[b + 1].exit, blocks'[b].exit, G)
    <3> TAKE b \in 1 .. N
    <3>1. CASE b = N
      BY <2>5, <2>7, <3>1
    <3>2. CASE b # N
      <4>1. b \in 1 .. N - 1 /\ (b + 1 = N \/ b + 1 \in 1 .. N - 1)
        BY <1>1, <3>2
      <4>2. blocks'[b + 1].exit = blocks[b + 1].exit
        BY <2>7, <4>1 DEF Top, N
      <4> QED
        BY <2>5, <2>7, <4>1, <4>2
    <3> QED
      BY <3>1, <3>2
  <2>9. Top'.code = code /\ Top'.exit = Beyond(Item.op, height)
    BY <2>7 DEF Top
  <2>10. PICK h \in Nat : h = height
    BY <2>3
  <2>11. Level(G)'
    <3>1. \E a \in Nat : Met(a)' /\ Carries(Top'.code, a, Top'.exit, G)
      <4>1. Met(h)' /\ Carries(Top'.code, h, Top'.exit, G)
        BY <2>1, <2>4, <2>9, <2>10 DEF Met
      <4> HIDE DEF Met, Top
      <4> QED
        BY <4>1, Zenon
    <3>2. \A b \in 1 .. Len(blocks') - 1 : Carries(blocks'[b].code, blocks'[b + 1].exit, blocks'[b].exit, G)
      <4>1. Len(blocks') - 1 = N
        BY <1>1, <2>7
      <4> QED
        BY <2>8, <4>1
    <3>3. \A l \in DOMAIN at' : at'[l] = G[l[1]]
      BY <2>1, <2>5
    <3>4. \A i \in DOMAIN entries' : G[entries'[i]] = 1
      BY <2>1, <2>5
    <3> QED
      BY <3>1, <3>2, <3>3, <3>4 DEF Level
  <2> QED
    BY <2>11 DEF Balanced
<1>8. CASE Close
  <2>1. /\ N \in Nat \ {0} /\ Top.code = <<>> /\ blocks # <<>>
        /\ blocks' \in Seq(Blocks) /\ Len(blocks') = N - 1
        /\ \A b \in 1 .. N - 1 : blocks'[b] = blocks[b]
        /\ UNCHANGED <<height, at, entries>>
    BY <1>8, Closings DEF Close, N
  <2>2. height = Top.exit /\ height \in Nat
    <3>1. Carries(<<>>, height, Top.exit, H)
      BY <1>1, <2>1, Meeting DEF Busy
    <3> QED
      BY <3>1, WalkEmpty
  <2>3. \A b \in 1 .. (N - 1) - 1 : Carries(blocks'[b].code, blocks'[b + 1].exit, blocks'[b].exit, H)
    <3> TAKE b \in 1 .. (N - 1) - 1
    <3>1. b \in 1 .. N - 1 /\ b + 1 \in 1 .. N - 1
      BY <2>1
    <3> QED
      BY <2>1, <3>1 DEF Level, N
  <2>4. ASSUME blocks' # <<>>
        PROVE  Carries(Top'.code, height, Top'.exit, H)
    <3>1. N - 1 # 0
      <4> HIDE DEF Blocks
      <4> QED
        BY <2>1, <2>4, EmptySeq
    <3>2. N - 1 \in 1 .. N - 1 /\ (N - 1) + 1 = N
      BY <2>1, <3>1
    <3>3. Carries(blocks[N - 1].code, blocks[N].exit, blocks[N - 1].exit, H)
      BY <3>2 DEF Level, N
    <3>4. blocks[N] = Top /\ Top' = blocks[N - 1]
      BY <2>1, <3>2 DEF Top, N
    <3> QED
      BY <2>2, <3>3, <3>4
  <2>5. PICK h \in Nat : h = height
    BY <2>2
  <2>6. Level(H)'
    <3>1. blocks' # <<>> => \E a \in Nat : Met(a)' /\ Carries(Top'.code, a, Top'.exit, H)
      <4>1. Met(h)'
        BY <2>1, <2>5 DEF Met
      <4>2. blocks' # <<>> => Carries(Top'.code, h, Top'.exit, H)
        BY <2>4, <2>5
      <4> HIDE DEF Met, Top
      <4> QED
        BY <4>1, <4>2, Zenon
    <3>2. \A b \in 1 .. Len(blocks') - 1 : Carries(blocks'[b].code, blocks'[b + 1].exit, blocks'[b].exit, H)
      BY <2>1, <2>3
    <3> QED
      BY <2>1, <3>1, <3>2 DEF Level
  <2> QED
    BY <2>6 DEF Balanced
<1>9. CASE Build
  <2> DEFINE n == Head(entries)
             block == Block([Unbound EXCEPT !["entry"] = n], Body(n), 0)
  <2>1. /\ UNCHANGED <<live, at>> /\ blocks = <<>> /\ entries # <<>> /\ entries' = Tail(entries)
        /\ blocks' = <<block>>
    BY <1>9 DEF Build
  <2>2. n = entries[1] /\ 1 \in DOMAIN entries /\ \A i \in DOMAIN entries' : \E j \in DOMAIN entries : entries'[i] = entries[j]
    <3>1. entries \in Seq(Nat) /\ entries # <<>> /\ entries' = Tail(entries)
      BY <1>1, <2>1
    <3>2. n = entries[1] /\ 1 \in DOMAIN entries
      BY <3>1
    <3>3. \A i \in DOMAIN entries' : i + 1 \in DOMAIN entries /\ entries'[i] = entries[i + 1]
      BY ONLY <3>1
    <3> QED
      BY <3>2, <3>3
  <2>3. n \in Nat \ {0} /\ H[n] = 1
    <3>1. n \in 1 .. replaced /\ H[n] = 1
      BY <2>2 DEF Numbered, Level
    <3>2. replaced \in Nat
      BY <1>1
    <3> HIDE DEF n
    <3> QED
      BY ONLY <3>1, <3>2
  <2>4. <<n, "entry">> \in DOMAIN at
    <3>1. DOMAIN blocks = {}
      BY <2>1
    <3> QED
      BY <2>2, <3>1 DEF Entered
  <2>5. ~live
    BY <2>1 DEF Halting
  <2>6. /\ Carries(Body(n), 1, 0, H) /\ Body(n) = <<Label("JUMPDEST", n, "entry"), Op("POP"), Op("Body")>>
    BY <2>3, EntrySound DEF Unit
  <2>7. blocks' # <<>> /\ Len(blocks') = 1 /\ blocks'[1] = block
    <3> HIDE DEF block
    <3> QED
      BY <2>1
  <2>8. Top'.code = Body(n) /\ Top'.exit = 0
    BY <2>7 DEF Top, Block
  <2>9. Met(1)'
    <3> HIDE DEF n
    <3>1. Body(n) # <<>> /\ Body(n)[1] = Label("JUMPDEST", n, "entry")
      BY <2>6
    <3>2. Body(n)[1].op = "JUMPDEST" /\ Body(n)[1].of = n /\ Body(n)[1].name = "entry"
      BY <3>1 DEF Label
    <3>3. Top'.code = Body(n) /\ ~live' /\ <<n, "entry">> \in DOMAIN at'
      BY <2>1, <2>4, <2>5, <2>8
    <3> HIDE DEF Top
    <3> QED
      BY <3>1, <3>2, <3>3 DEF Met
  <2> HIDE DEF block, n
  <2>10. Level(H)'
    <3>1. \E a \in Nat : Met(a)' /\ Carries(Top'.code, a, Top'.exit, H)
      <4>1. Met(1)' /\ Carries(Top'.code, 1, Top'.exit, H) /\ 1 \in Nat
        BY <2>6, <2>8, <2>9
      <4> HIDE DEF Met, Top
      <4> QED
        BY <4>1, Zenon
    <3>2. 1 .. Len(blocks') - 1 = {}
      BY <2>7
    <3>3. \A i \in DOMAIN entries' : H[entries'[i]] = 1
      BY <2>2 DEF Level
    <3>4. \A l \in DOMAIN at' : at'[l] = H[l[1]]
      BY <2>1 DEF Level
    <3> QED
      BY <3>1, <3>2, <3>3, <3>4 DEF Level
  <2> QED
    BY <2>10 DEF Balanced
<1> QED
  BY <1>3, <1>6, <1>7, <1>8, <1>9 DEF Next

\* The ways through the dispatcher and the constructor.
LEMMA BalancedInit == Init => Balanced
<1> SUFFICES ASSUME Init PROVE Balanced
  OBVIOUS
<1> DEFINE H == [k \in Nat |-> 0]
<1>1. H \in [Nat -> Nat]
  OBVIOUS
<1> HIDE DEF H
<1>2. PICK unit \in {Block(Unbound, Dispatcher, 1), Block(Unbound, LowerConstructor, 0)} :
        blocks = <<unit>>
  BY DEF Init
<1>3. Carries(Dispatcher, 0, 1, H) /\ Carries(LowerConstructor, 0, 0, H)
  BY <1>1, DispatcherSound, ConstructorSound DEF Unit
<1>4. Carries(unit.code, 0, unit.exit, H)
  BY <1>2, <1>3 DEF Block
<1>5. Len(blocks) = 1 /\ Top = unit /\ height = 0 /\ DOMAIN at = {} /\ DOMAIN entries = {}
  BY <1>2 DEF Init, Top
<1>6. Met(0)
  BY <1>5 DEF Met
<1>7. Level(H)
  <2>1. 1 .. Len(blocks) - 1 = {}
    BY <1>5
  <2> QED
    BY <1>4, <1>5, <1>6, <2>1, 0 \in Nat DEF Level
<1> QED
  BY <1>1, <1>7 DEF Balanced

\* What the heights of the stack rest on.
Sane == Numbered /\ Scoped /\ Halting /\ Entered /\ Balanced

\* In every contract whose loops are not in an if or in another loop, and whose
\* functions with a result type end in a value, each instruction finds its
\* operands on the stack, each label is reached with one height of the stack,
\* and a transaction ends with nothing on it: of whatever lower_block,
\* lower_constructor and build_runtime emit, for every program.
THEOREM StackIsSafe ==
  ASSUME ~LoopsInside, ~UnitValues
  PROVE  Spec => []StackSafe
<1>1. Init => Sane
  BY NumberedInit, ScopedInit, HaltingInit, EnteredInit, BalancedInit DEF Sane
<1>2. Vocabulary /\ Sane /\ [Next]_vars => Sane'
  <2> SUFFICES ASSUME Vocabulary, Sane, [Next]_vars PROVE Sane'
    OBVIOUS
  <2>1. Numbered /\ Scoped /\ Halting /\ Entered
    BY DEF Sane
  <2>2. PICK H \in [Nat -> Nat] : Level(H)
    BY DEF Sane, Balanced
  <2>3. CASE Next
    <3>1. Numbered' /\ Scoped' /\ Halting' /\ Entered'
      BY <2>1, <2>3, NumberedStep, ScopedStep, HaltingStep, EnteredStep
    <3>2. Balanced'
      BY <2>1, <2>2, <2>3, BalancedStep
    <3> QED
      BY <3>1, <3>2 DEF Sane
  <2>4. CASE UNCHANGED vars
    <3>1. Numbered' /\ Scoped' /\ Halting' /\ Entered'
      BY <2>1, <2>4 DEF vars, Numbered, Scoped, Halting, Entered
    <3>2. Level(H)'
      BY <2>2, <2>4 DEF vars, Level, Met, Top
    <3> QED
      BY <3>1, <3>2 DEF Sane, Balanced
  <2> QED
    BY <2>3, <2>4
<1>3. Vocabulary /\ Sane => StackSafe
  <2> SUFFICES ASSUME Vocabulary, Sane PROVE StackSafe
    OBVIOUS
  <2>1. PICK H \in [Nat -> Nat] : Level(H)
    BY DEF Sane, Balanced
  <2>2. OwnLabels
    BY ScopedNow DEF Sane
  <2> QED
    BY <2>1, <2>2, LevelSafe
<1> QED
  BY <1>1, <1>2, <1>3, Vocabularies, PTL DEF Spec

----------------------------------------------------------------------------
(* Every label is placed, once.                                            *)

\* The label an item mentions, the labels a code mentions with given
\* instructions, those it places and those it jumps to.
LabelOf(x) == <<x.of, x.name>>
Mentioned(code, ops) == {LabelOf(code[k]) : k \in {i \in DOMAIN code : code[i].op \in ops}}
Put(code) == Mentioned(code, {"JUMPDEST"})
Asked(code) == Mentioned(code, {"JUMP", "JUMPI"})

\* No label is placed twice in code.
Distinct(code) ==
  \A j, k \in DOMAIN code :
    code[j].op = "JUMPDEST" /\ code[k].op = "JUMPDEST" /\ LabelOf(code[j]) = LabelOf(code[k]) => j = k

\* The labels of the functions that are yet to be built.
Owed == {<<entries[i], "entry">> : i \in DOMAIN entries}

\* What is to be placed has been allocated and has not been placed, and is to be
\* placed in one place.
Once ==
  /\ \A b \in DOMAIN blocks :
       /\ Distinct(blocks[b].code)
       /\ \A l \in Put(blocks[b].code) : l[1] # 0 /\ l \notin placed /\ l \notin Owed
  /\ \A l \in placed : l[1] # 0
  /\ \A b, c \in DOMAIN blocks :
       b # c => \A l \in Put(blocks[b].code) : l \notin Put(blocks[c].code)
  /\ \A l \in Owed : l \notin placed
  /\ \A i, j \in DOMAIN entries : entries[i] = entries[j] => i = j

\* What is jumped to has been placed or is going to be.
Due(l) == l \in placed \/ l \in Owed \/ \E b \in DOMAIN blocks : l \in Put(blocks[b].code)
Reached ==
  /\ \A l \in DOMAIN at : Due(l)
  /\ \A b \in DOMAIN blocks : \A l \in Asked(blocks[b].code) : Due(l)

\* The labels of a code, without those of its first item,
LEMMA RestMentions ==
  ASSUME NEW code \in Seq(Items), code # <<>>
  PROVE  /\ \A ops : Mentioned(code, ops) =
              Mentioned(Tail(code), ops) \cup (IF code[1].op \in ops THEN {LabelOf(code[1])} ELSE {})
         /\ Distinct(code) =>
              /\ Distinct(Tail(code))
              /\ code[1].op = "JUMPDEST" => LabelOf(code[1]) \notin Put(Tail(code))
<1> DEFINE N == Len(code)
           t == Tail(code)
<1>1. /\ N \in Nat \ {0} /\ DOMAIN code = 1 .. N /\ DOMAIN t = 1 .. N - 1
      /\ \A k \in 1 .. N - 1 : t[k] = code[k + 1]
  BY Tails
<1> HIDE DEF N, t
<1>2. /\ 1 \in DOMAIN code
      /\ \A k \in DOMAIN t : k + 1 \in DOMAIN code /\ k + 1 # 1 /\ t[k] = code[k + 1]
      /\ \A k \in DOMAIN code : k = 1 \/ (k - 1 \in DOMAIN t /\ t[k - 1] = code[k])
      /\ \A j, k \in DOMAIN t : j + 1 = k + 1 => j = k
  <2>1. \A k \in 1 .. N - 1 : k + 1 \in 1 .. N /\ k + 1 # 1
    BY <1>1
  <2>2. \A k \in 1 .. N : k = 1 \/ (k - 1 \in 1 .. N - 1 /\ (k - 1) + 1 = k)
    BY <1>1
  <2>3. 1 \in 1 .. N /\ \A j, k \in 1 .. N - 1 : j + 1 = k + 1 => j = k
    BY <1>1
  <2> QED
    BY <1>1, <2>1, <2>2, <2>3
<1>3. ASSUME NEW ops
      PROVE  Mentioned(code, ops) =
               Mentioned(t, ops) \cup (IF code[1].op \in ops THEN {LabelOf(code[1])} ELSE {})
  BY <1>2 DEF Mentioned
<1>4. ASSUME Distinct(code)
      PROVE  Distinct(t) /\ (code[1].op = "JUMPDEST" => LabelOf(code[1]) \notin Put(t))
  BY <1>2, <1>4 DEF Distinct, Put, Mentioned
<1> QED
  BY <1>3, <1>4 DEF t

\* and with those of what takes its place.
LEMMA SpliceMentions ==
  ASSUME NEW code \in Seq(Items), code # <<>>, NEW new \in Seq(Items),
         NEW s, s = new \o Tail(code)
  PROVE  /\ Put(s) = Put(new) \cup Put(Tail(code))
         /\ Asked(s) = Asked(new) \cup Asked(Tail(code))
         /\ Distinct(new) /\ Distinct(Tail(code)) /\ (\A l \in Put(new) : l \notin Put(Tail(code))) =>
              Distinct(s)
<1> DEFINE N == Len(code)
           M == Len(new)
           t == Tail(code)
<1>1. /\ N \in Nat \ {0} /\ DOMAIN t = 1 .. N - 1 /\ \A k \in 1 .. N - 1 : t[k] = code[k + 1]
  BY Tails
<1>2. /\ M \in Nat /\ DOMAIN s = 1 .. M + N - 1 /\ DOMAIN new = 1 .. M
      /\ \A k \in 1 .. M : s[k] = new[k]
      /\ \A k \in 2 .. N : s[M + k - 1] = code[k]
  BY Splices
<1> HIDE DEF N, M, t
<1>3. /\ \A k \in DOMAIN new : k \in DOMAIN s /\ s[k] = new[k]
      /\ \A k \in DOMAIN t : M + k \in DOMAIN s /\ s[M + k] = t[k]
      /\ \A k \in DOMAIN s : k \in DOMAIN new \/ (k - M \in DOMAIN t /\ M + (k - M) = k)
  <2>1. \A k \in 1 .. M : k \in 1 .. M + N - 1
    BY <1>1, <1>2
  <2>2. \A k \in 1 .. N - 1 : M + k \in 1 .. M + N - 1 /\ k + 1 \in 2 .. N /\ M + (k + 1) - 1 = M + k
    BY <1>1, <1>2
  <2>3. \A k \in 1 .. M + N - 1 : k \in 1 .. M \/ (k - M \in 1 .. N - 1 /\ M + (k - M) = k)
    BY <1>1, <1>2
  <2> QED
    BY <1>1, <1>2, <2>1, <2>2, <2>3
<1>4. ASSUME NEW ops
      PROVE  Mentioned(s, ops) = Mentioned(new, ops) \cup Mentioned(t, ops)
  <2> HIDE DEF LabelOf
  <2>1. ASSUME NEW l \in Mentioned(s, ops)
        PROVE  l \in Mentioned(new, ops) \cup Mentioned(t, ops)
    <3>1. PICK k \in DOMAIN s : s[k].op \in ops /\ l = LabelOf(s[k])
      BY <2>1 DEF Mentioned
    <3>2. CASE k \in DOMAIN new
      BY <1>3, <3>1, <3>2 DEF Mentioned
    <3>3. CASE k - M \in DOMAIN t /\ M + (k - M) = k
      <4>1. s[k] = t[k - M]
        BY <1>3, <3>3
      <4> QED
        BY <3>1, <3>3, <4>1 DEF Mentioned
    <3> QED
      BY <1>3, <3>2, <3>3
  <2>2. ASSUME NEW l \in Mentioned(new, ops)
        PROVE  l \in Mentioned(s, ops)
    BY <1>3, <2>2 DEF Mentioned
  <2>3. ASSUME NEW l \in Mentioned(t, ops)
        PROVE  l \in Mentioned(s, ops)
    <3>1. PICK k \in DOMAIN t : t[k].op \in ops /\ l = LabelOf(t[k])
      BY <2>3 DEF Mentioned
    <3> QED
      BY <1>3, <3>1 DEF Mentioned
  <2> QED
    BY <2>1, <2>2, <2>3
<1>5. ASSUME Distinct(new), Distinct(t), \A l \in Put(new) : l \notin Put(t)
      PROVE  Distinct(s)
  <2> SUFFICES ASSUME NEW j \in DOMAIN s, NEW k \in DOMAIN s, s[j].op = "JUMPDEST", s[k].op = "JUMPDEST",
                      LabelOf(s[j]) = LabelOf(s[k])
               PROVE  j = k
    BY DEF Distinct
  <2>1. \A i \in DOMAIN new : new[i].op = "JUMPDEST" => LabelOf(new[i]) \in Put(new)
    BY DEF Put, Mentioned
  <2>2. \A i \in DOMAIN t : t[i].op = "JUMPDEST" => LabelOf(t[i]) \in Put(t)
    BY DEF Put, Mentioned
  <2> HIDE DEF Put, LabelOf
  <2>3. CASE j \in DOMAIN new /\ k \in DOMAIN new
    BY <1>3, <1>5, <2>3 DEF Distinct
  <2>4. CASE j \in DOMAIN new /\ k - M \in DOMAIN t /\ M + (k - M) = k
    BY <1>3, <1>5, <2>1, <2>2, <2>4
  <2>5. CASE k \in DOMAIN new /\ j - M \in DOMAIN t /\ M + (j - M) = j
    BY <1>3, <1>5, <2>1, <2>2, <2>5
  <2>6. CASE k - M \in DOMAIN t /\ M + (k - M) = k /\ j - M \in DOMAIN t /\ M + (j - M) = j
    <3>1. s[k] = t[k - M] /\ s[j] = t[j - M]
      BY <1>3, <2>6
    <3>2. \A g, h \in DOMAIN t :
            t[g].op = "JUMPDEST" /\ t[h].op = "JUMPDEST" /\ LabelOf(t[g]) = LabelOf(t[h]) => g = h
      BY <1>5 DEF Distinct
    <3>3. k - M = j - M
      BY <2>6, <3>1, <3>2
    <3> QED
      BY <2>6, <3>3
  <2> QED
    BY <1>3, <2>3, <2>4, <2>5, <2>6
<1> QED
  BY <1>4, <1>5 DEF t, Put, Asked

\* A code of the n-th replacement mentions nothing, or labels of its own.
LEMMA NewMentions ==
  ASSUME NEW code \in Seq(Items), NEW n, Plain(code) \/ Places(code, n)
  PROVE  /\ Distinct(code)
         /\ \A l \in Put(code) : l[1] = n
         /\ \A l \in Asked(code) : l \in Put(code)
<1>1. CASE Plain(code)
  BY <1>1 DEF Plain, Distinct, Put, Asked, Mentioned, Mentions
<1>2. CASE Places(code, n)
  <2>1. Distinct(code) /\ \A l \in Put(code) : l[1] = n
    BY <1>2 DEF Places, Distinct, Put, Mentioned, Mentions, LabelOf
  <2>2. ASSUME NEW k \in DOMAIN code, code[k].op \in {"JUMP", "JUMPI"}
        PROVE  LabelOf(code[k]) \in Put(code)
    <3>1. PICK j \in DOMAIN code : code[j].op = "JUMPDEST" /\ code[j].name = code[k].name
      BY <1>2, <2>2 DEF Places, Mentions
    <3>2. code[j].of = n /\ code[k].of = n
      BY <1>2, <2>2, <3>1 DEF Places, Mentions
    <3>3. LabelOf(code[j]) = LabelOf(code[k])
      BY <3>1, <3>2 DEF LabelOf
    <3> QED
      BY <3>1, <3>3 DEF Put, Mentioned
  <2> QED
    BY <2>1, <2>2 DEF Asked, Mentioned
<1> QED
  BY <1>1, <1>2

\* Labels that are mentioned are older than the next replacement.
LEMMA OldMentions ==
  ASSUME Vocabulary, Numbered
  PROVE  /\ \A b \in DOMAIN blocks : \A l \in Put(blocks[b].code) : l[1] # New
         /\ \A l \in placed \cup Owed : l[1] # New
         /\ <<New, "entry">> \notin placed \cup Owed
         /\ \A i \in DOMAIN entries : entries[i] # New
<1>1. /\ replaced \in Nat /\ New = replaced + 1 /\ entries \in Seq(Nat) /\ placed \subseteq Labels
      /\ \A x \in Nat : x <= replaced => x # New
  BY DEF Vocabulary, New
<1> HIDE DEF New
<1>2. ASSUME NEW b \in DOMAIN blocks, NEW l \in Put(blocks[b].code)
      PROVE  l[1] # New
  <2>1. blocks[b].code \in Seq(Items)
    <3>1. blocks \in Seq(Blocks)
      BY DEF Vocabulary, Blocks
    <3>2. blocks[b] \in Blocks
      <4> HIDE DEF Blocks
      <4> QED
        BY <1>2, <3>1
    <3> QED
      BY <3>2 DEF Blocks
  <2>2. PICK k \in DOMAIN blocks[b].code : l = LabelOf(blocks[b].code[k])
    BY <1>2 DEF Put, Mentioned
  <2>3. blocks[b].code[k].of \in Nat
    BY <2>1, <2>2, Typed
  <2>4. blocks[b].code[k].of <= replaced
    BY <1>2, <2>2 DEF Numbered, Early
  <2> QED
    BY <1>1, <2>2, <2>3, <2>4 DEF LabelOf
<1>3. \A i \in DOMAIN entries : entries[i] # New
  <2>1. \A i \in DOMAIN entries : entries[i] \in Nat /\ entries[i] <= replaced
    BY <1>1 DEF Numbered
  <2> QED
    BY <1>1, <2>1
<1>4. \A l \in placed \cup Owed : l[1] # New
  <2>1. \A l \in placed : l[1] \in Nat /\ l[1] <= replaced
    BY <1>1 DEF Numbered, Labels
  <2>2. \A l \in Owed : l[1] # New
    BY <1>3 DEF Owed
  <2> QED
    BY <1>1, <2>1, <2>2
<1>5. <<New, "entry">> \notin placed \cup Owed
  BY <1>4
<1> QED
  BY <1>2, <1>3, <1>4, <1>5

\* A step gives the block d the labels own to place, and no other block any.
Gains(d, own) ==
  \A b \in DOMAIN blocks' :
    /\ Distinct(blocks'[b].code)
    /\ \A l \in Put(blocks'[b].code) :
         (b \in DOMAIN blocks /\ l \in Put(blocks[b].code)) \/ (b = d /\ l \in own)

\* A step makes at most one function more, if it gives no block a label.
Owes(own) ==
  /\ \A l \in Owed' : l \in Owed \/ (l = <<New, "entry">> /\ own = {})
  /\ \A i, j \in DOMAIN entries' : entries'[i] = entries'[j] => i = j

\* A step that places no label, and gives labels of the new replacement only.
LEMMA OnceKept ==
  ASSUME Vocabulary, Numbered, Once, placed' = placed,
         NEW d, NEW own, \A l \in own : l[1] = New, Gains(d, own), Owes(own)
  PROVE  Once'
<1>1. /\ \A b \in DOMAIN blocks : \A l \in Put(blocks[b].code) : l[1] # New
      /\ \A l \in placed \cup Owed : l[1] # New
      /\ <<New, "entry">> \notin placed \cup Owed
  BY OldMentions
<1>2. <<New, "entry">>[1] = New /\ New # 0
  <2>1. replaced \in Nat
    BY DEF Vocabulary
  <2> QED
    BY <2>1 DEF New
<1> HIDE DEF New
<1>3. ASSUME NEW b \in DOMAIN blocks', NEW l \in Put(blocks'[b].code)
      PROVE  l[1] # 0 /\ l \notin placed' /\ l \notin Owed'
  <2>1. CASE b \in DOMAIN blocks /\ l \in Put(blocks[b].code)
    <3>1. l[1] # 0 /\ l \notin placed /\ l \notin Owed /\ l[1] # New
      BY <1>1, <2>1 DEF Once
    <3> QED
      BY <1>2, <3>1 DEF Owes
  <2>2. CASE b = d /\ l \in own
    <3>1. l[1] = New /\ own # {}
      BY <2>2
    <3> QED
      BY <1>1, <1>2, <3>1 DEF Owes
  <2> QED
    BY <1>3, <2>1, <2>2 DEF Gains
<1>4. ASSUME NEW b \in DOMAIN blocks', NEW c \in DOMAIN blocks', b # c, NEW l \in Put(blocks'[b].code)
      PROVE  l \notin Put(blocks'[c].code)
  <2> SUFFICES ASSUME l \in Put(blocks'[c].code)
               PROVE  FALSE
    OBVIOUS
  <2>1. CASE b = d /\ l \in own
    BY <1>1, <1>4, <2>1 DEF Gains
  <2>2. CASE c = d /\ l \in own
    BY <1>1, <1>4, <2>2 DEF Gains
  <2>3. CASE b \in DOMAIN blocks /\ c \in DOMAIN blocks /\ l \in Put(blocks[b].code) /\ l \in Put(blocks[c].code)
    BY <1>4, <2>3 DEF Once
  <2> QED
    BY <1>4, <2>1, <2>2, <2>3 DEF Gains
<1>5. \A l \in Owed' : l \notin placed'
  BY <1>1 DEF Once, Owes
<1> QED
  BY <1>3, <1>4, <1>5 DEF Once, Gains, Owes

\* A step after which whatever was going to be placed still is, and that asks
\* for no label without placing it.
LEMMA ReachedKept ==
  ASSUME Reached,
         \A l : Due(l) => Due(l)',
         \A l \in DOMAIN at' : l \in DOMAIN at \/ Due(l)',
         \A b \in DOMAIN blocks' : \A l \in Asked(blocks'[b].code) :
           (b \in DOMAIN blocks /\ l \in Asked(blocks[b].code)) \/ Due(l)'
  PROVE  Reached'
<1> HIDE DEF Due
<1>1. \A l \in DOMAIN at' : Due(l)'
  BY DEF Reached
<1>2. \A b \in DOMAIN blocks' : \A l \in Asked(blocks'[b].code) : Due(l)'
  BY DEF Reached
<1> QED
  BY <1>1, <1>2 DEF Reached

\* What emitting or replacing an item leaves of the blocks,
LEMMA Becoming ==
  ASSUME Vocabulary, blocks # <<>>, NEW bs, NEW s, NEW c, Becomes(bs, s, c)
  PROVE  /\ DOMAIN bs = DOMAIN blocks /\ Len(blocks) \in DOMAIN blocks
         /\ bs[Len(blocks)].code = c
         /\ \A b \in DOMAIN blocks : b # Len(blocks) => bs[b] = blocks[b]
<1> DEFINE N == Len(blocks)
<1>1. /\ N \in Nat \ {0} /\ DOMAIN blocks = 1 .. N
      /\ bs \in Seq(Blocks) /\ Len(bs) = N /\ bs[N] = Block(s, c, Top.exit)
      /\ \A b \in 1 .. N - 1 : bs[b] = blocks[b]
  BY Tops DEF Becomes
<1>2. DOMAIN bs = 1 .. N
  <2> HIDE DEF Blocks, N
  <2> QED
    BY <1>1, LenProperties
<1>3. bs[N].code = c
  <2> HIDE DEF N
  <2> QED
    BY <1>1 DEF Block
<1> HIDE DEF N
<1>4. \A b \in 1 .. N : b # N => b \in 1 .. N - 1
  BY ONLY <1>1
<1>5. N \in 1 .. N
  BY ONLY <1>1
<1> QED
  BY <1>1, <1>2, <1>3, <1>4, <1>5 DEF N

\* and what opening one does.
LEMMA Opened ==
  ASSUME Vocabulary, blocks # <<>>, NEW bs, NEW c, Opens(bs, c)
  PROVE  /\ \A b \in DOMAIN bs : b = Len(blocks) + 1 \/ b \in DOMAIN blocks
         /\ \A b \in DOMAIN blocks : b \in DOMAIN bs
         /\ Len(blocks) \in DOMAIN blocks /\ Len(blocks) + 1 \in DOMAIN bs
         /\ Len(blocks) + 1 \notin DOMAIN blocks
         /\ bs[Len(blocks)].code = Rest /\ bs[Len(blocks) + 1].code = c
         /\ \A b \in DOMAIN blocks : b # Len(blocks) => bs[b] = blocks[b]
<1> DEFINE N == Len(blocks)
<1>1. /\ N \in Nat \ {0} /\ DOMAIN blocks = 1 .. N
      /\ bs \in Seq(Blocks) /\ Len(bs) = N + 1
      /\ bs[N] = Block(Top.scope, Rest, Top.exit) /\ bs[N + 1] = Block(Top.scope, c, After(Item.op))
      /\ \A b \in 1 .. N - 1 : bs[b] = blocks[b]
  BY Tops DEF Opens
<1>2. DOMAIN bs = 1 .. N + 1
  <2> HIDE DEF Blocks, N
  <2> QED
    BY <1>1, LenProperties
<1>3. bs[N].code = Rest /\ bs[N + 1].code = c
  <2> HIDE DEF N, Rest
  <2> QED
    BY <1>1 DEF Block
<1> HIDE DEF N
<1>4. \A b \in 1 .. N : b # N => b \in 1 .. N - 1
  BY ONLY <1>1
<1>5. N \in 1 .. N /\ N + 1 \in 1 .. N + 1 /\ N + 1 \notin 1 .. N /\ \A b \in 1 .. N : b \in 1 .. N + 1
  BY ONLY <1>1
<1>6. \A b \in 1 .. N + 1 : b = N + 1 \/ b \in 1 .. N
  BY ONLY <1>1
<1> HIDE DEF Rest
<1> QED
  BY <1>1, <1>2, <1>3, <1>4, <1>5, <1>6 DEF N

\* Everything is placed once: as a step leaves it.
LEMMA OnceStep ==
  ASSUME ~LoopsInside, Vocabulary, Numbered, Scoped, Once, Next
  PROVE  Once'
<1> DEFINE N == Len(blocks)
<1>1. /\ blocks \in Seq(Blocks) /\ DOMAIN blocks = 1 .. N /\ N \in Nat
      /\ blocks # <<>> => N \in Nat \ {0} /\ N \in DOMAIN blocks
      /\ entries \in Seq(Nat) /\ New \in Nat
  BY LenProperties, Tops DEF Vocabulary, Blocks, New
<1>2. DOMAIN blocks' = 1 .. Len(blocks')
  BY BlocksTyped, LenProperties
<1>3. CASE Emit \/ Let \/ Jump \/ PlaceLabel
  <2>1. Busy /\ Becomes(blocks', Held, Rest) /\ blocks # <<>> /\ entries' = entries
    BY <1>3, Advances DEF Busy
  <2>2. /\ DOMAIN blocks' = DOMAIN blocks /\ blocks'[N].code = Rest
        /\ \A b \in DOMAIN blocks : b # N => blocks'[b] = blocks[b]
    BY <2>1, Becoming
  <2>3. Top.code \in Seq(Items) /\ Top.code # <<>> /\ Item = Top.code[1]
    BY <2>1, Tops DEF Busy
  <2>4. /\ Put(Top.code) = Put(Rest) \cup (IF Item.op \in {"JUMPDEST"} THEN {LabelOf(Item)} ELSE {})
        /\ Distinct(Top.code) => /\ Distinct(Rest)
                                 /\ Item.op = "JUMPDEST" => LabelOf(Item) \notin Put(Rest)
    BY <2>3, RestMentions DEF Put, Rest
  <2>5. placed' = placed \/ (Item.op = "JUMPDEST" /\ placed' = placed \cup {LabelOf(Item)})
    <3>1. CASE Emit \/ Let \/ Jump
      BY <3>1 DEF Emit, Let, Jump
    <3>2. CASE PlaceLabel
      BY <2>1, <3>2, ScopedNow DEF PlaceLabel, OwnLabels, Mentions, Meant, LabelOf
    <3> QED
      BY <1>3, <3>1, <3>2
  <2>6. Top = blocks[N] /\ N \in DOMAIN blocks
    BY <1>1, <2>1 DEF Top
  <2> HIDE DEF N, Top, Item, Rest
  <2>7. \A b \in DOMAIN blocks' : Distinct(blocks'[b].code) /\ Put(blocks'[b].code) \subseteq Put(blocks[b].code)
    <3> TAKE b \in DOMAIN blocks'
    <3>1. CASE b = N
      BY <2>2, <2>4, <2>6, <3>1 DEF Once
    <3>2. CASE b # N
      BY <2>2, <3>2 DEF Once
    <3> QED
      BY <3>1, <3>2
  <2>8. ASSUME NEW l \in placed', l \notin placed
        PROVE  /\ \A b \in DOMAIN blocks' : l \notin Put(blocks'[b].code)
               /\ l \notin Owed /\ l[1] # 0
    <3>1. Item.op = "JUMPDEST" /\ l = LabelOf(Item)
      BY <2>5, <2>8
    <3>2. l \in Put(blocks[N].code) /\ l \notin Put(Rest)
      BY <2>4, <2>6, <3>1 DEF Once
    <3>3. \A b \in DOMAIN blocks' : b # N => l \notin Put(blocks'[b].code)
      BY <2>2, <2>6, <3>2 DEF Once
    <3> QED
      BY <2>2, <2>6, <3>2, <3>3 DEF Once
  <2>9. Owed' = Owed
    BY <2>1 DEF Owed
  <2>10. ASSUME NEW b \in DOMAIN blocks', NEW l \in Put(blocks'[b].code)
         PROVE  l[1] # 0 /\ l \notin placed' /\ l \notin Owed'
    BY <2>2, <2>7, <2>8, <2>9, <2>10 DEF Once
  <2>11. ASSUME NEW b \in DOMAIN blocks', NEW c \in DOMAIN blocks', b # c, NEW l \in Put(blocks'[b].code)
         PROVE  l \notin Put(blocks'[c].code)
    BY <2>2, <2>7, <2>11 DEF Once
  <2>12. /\ \A l \in placed' : l[1] # 0
         /\ \A l \in Owed' : l \notin placed'
         /\ \A i, j \in DOMAIN entries' : entries'[i] = entries'[j] => i = j
    BY <2>1, <2>8, <2>9 DEF Once
  <2> QED
    BY <2>7, <2>10, <2>11, <2>12 DEF Once
<1>4. CASE Snippet \/ Lower \/ Dispatch
  <2>1. Busy /\ blocks # <<>> /\ placed' = placed
    BY <1>4, Replacements DEF Busy
  <2>2. PICK code \in Seq(Items) :
          /\ Becomes(blocks', Top.scope, code \o Rest)
          /\ \/ entries' = entries /\ (Plain(code) \/ Places(code, New))
             \/ entries' = Append(entries, New) /\ code = Arm(New)
    BY <1>4, Replacements
  <2>3. /\ DOMAIN blocks' = DOMAIN blocks /\ blocks'[N].code = code \o Rest
        /\ \A b \in DOMAIN blocks : b # N => blocks'[b] = blocks[b]
    <3> DEFINE new == code \o Rest
    <3>1. Becomes(blocks', Top.scope, new)
      BY <2>2
    <3> HIDE DEF new
    <3>2. /\ DOMAIN blocks' = DOMAIN blocks /\ blocks'[N].code = new
          /\ \A b \in DOMAIN blocks : b # N => blocks'[b] = blocks[b]
      BY <2>1, <3>1, Becoming
    <3> QED
      BY <3>2 DEF new
  <2>4. /\ Distinct(code)
        /\ \A l \in Put(code) : l[1] = New
        /\ entries' # entries => Put(code) = {}
    <3>1. CASE entries' = entries /\ (Plain(code) \/ Places(code, New))
      BY <3>1, NewMentions
    <3>2. CASE code = Arm(New)
      <4>1. \A k \in DOMAIN code : code[k].op # "JUMPDEST"
        BY <3>2 DEF Arm, Label, Op, Template, Push
      <4> QED
        BY <4>1 DEF Distinct, Put, Mentioned
    <3> QED
      BY <2>2, <3>1, <3>2
  <2>5. Top.code \in Seq(Items) /\ Top.code # <<>> /\ Item = Top.code[1] /\ Top = blocks[N] /\ N \in DOMAIN blocks
    BY <1>1, <2>1, Tops DEF Busy, Top
  <2>6. Distinct(Top.code) => Distinct(Rest) /\ Put(Rest) \subseteq Put(Top.code)
    BY <2>5, RestMentions DEF Put, Rest
  <2>7. \A l \in Put(Top.code) : l[1] # New
    BY <2>5, OldMentions
  <2>8. /\ Put(code \o Rest) = Put(code) \cup Put(Rest)
        /\ Distinct(code) /\ Distinct(Rest) /\ (\A l \in Put(code) : l \notin Put(Rest)) => Distinct(code \o Rest)
    <3> DEFINE s == code \o Tail(Top.code)
           t == Top.code
    <3>1. t \in Seq(Items) /\ t # <<>> /\ code \in Seq(Items) /\ s = code \o Tail(t)
      BY <2>5
    <3> HIDE DEF s, t
    <3>2. Put(s) = Put(code) \cup Put(Tail(t))
      BY ONLY <3>1, SpliceMentions, Zenon
    <3>3. Distinct(code) /\ Distinct(Tail(t)) /\ (\A l \in Put(code) : l \notin Put(Tail(t))) =>
            Distinct(s)
      BY ONLY <3>1, SpliceMentions, Zenon
    <3> QED
      BY <3>2, <3>3 DEF s, t, Rest
  <2>9. Distinct(Top.code)
    BY <2>5 DEF Once
  <2> DEFINE new == code \o Rest
  <2> HIDE DEF N, Top, Item, Rest, new
  <2>10. Distinct(new) /\ \A l \in Put(new) : l \in Put(Top.code) \/ l \in Put(code)
    BY <2>4, <2>6, <2>7, <2>8, <2>9 DEF new
  <2>11. Gains(N, Put(code))
    <3> SUFFICES ASSUME NEW b \in DOMAIN blocks'
                 PROVE  /\ Distinct(blocks'[b].code)
                        /\ \A l \in Put(blocks'[b].code) :
                             (b \in DOMAIN blocks /\ l \in Put(blocks[b].code)) \/ (b = N /\ l \in Put(code))
      BY DEF Gains
    <3>1. CASE b = N
      <4>1. blocks'[b].code = new /\ blocks[b] = Top /\ b \in DOMAIN blocks
        BY <2>3, <2>5, <3>1 DEF new
      <4> QED
        BY <2>10, <3>1, <4>1
    <3>2. CASE b # N
      BY <2>3, <3>2 DEF Once
    <3> QED
      BY <3>1, <3>2
  <2>12. Owes(Put(code))
    <3>1. CASE entries' = entries
      BY <3>1 DEF Owed, Once, Owes
    <3>2. CASE entries' # entries
      <4>1. entries' = Append(entries, New) /\ Put(code) = {}
        BY <2>2, <2>4, <3>2
      <4>2. \A i \in DOMAIN entries : entries[i] # New
        BY OldMentions
      <4> DEFINE L == Len(entries)
      <4>3. /\ L \in Nat /\ DOMAIN entries = 1 .. L /\ DOMAIN entries' = 1 .. L + 1
            /\ entries'[L + 1] = New /\ \A i \in 1 .. L : entries'[i] = entries[i]
        <5>1. entries \in Seq(Nat) /\ New \in Nat /\ entries' = Append(entries, New)
          BY <1>1, <4>1
        <5> HIDE DEF New
        <5> QED
          BY <5>1
      <4> HIDE DEF L
      <4>4. \A i \in 1 .. L + 1 : i = L + 1 \/ i \in 1 .. L
        BY <4>3
      <4>5. \A l \in Owed' : l \in Owed \/ l = <<New, "entry">>
        BY <4>3, <4>4 DEF Owed
      <4> HIDE DEF New
      <4>6. \A i, j \in DOMAIN entries' : entries'[i] = entries'[j] => i = j
        BY <4>2, <4>3, <4>4 DEF Once
      <4> QED
        BY <4>1, <4>5, <4>6 DEF Owes
    <3> QED
      BY <3>1, <3>2
  <2> QED
    BY <2>1, <2>4, <2>11, <2>12, OnceKept
<1>5. CASE Enter
  <2>1. Busy /\ blocks # <<>> /\ UNCHANGED <<placed, entries>>
    BY <1>5, Openings DEF Busy
  <2>2. PICK code \in Seq(Items) : Places(code, New) /\ Opens(blocks', code)
    BY <1>5, Openings
  <2>3. Distinct(code) /\ \A l \in Put(code) : l[1] = New
    BY <2>2, NewMentions
  <2>4. Top.code \in Seq(Items) /\ Top.code # <<>> /\ Item = Top.code[1] /\ Top = blocks[N] /\ N \in DOMAIN blocks
    BY <1>1, <2>1, Tops DEF Busy, Top
  <2>5. Distinct(Rest) /\ Put(Rest) \subseteq Put(blocks[N].code)
    BY <2>4, RestMentions DEF Put, Rest, Once
  <2>6. /\ \A b \in DOMAIN blocks' : b = N + 1 \/ b \in DOMAIN blocks
        /\ \A b \in DOMAIN blocks : b # N => blocks'[b] = blocks[b]
        /\ blocks'[N].code = Rest /\ blocks'[N + 1].code = code
    BY <2>1, <2>2, Opened
  <2> HIDE DEF N, Top, Item, Rest
  <2>7. Gains(N + 1, Put(code))
    <3> SUFFICES ASSUME NEW b \in DOMAIN blocks'
                 PROVE  /\ Distinct(blocks'[b].code)
                        /\ \A l \in Put(blocks'[b].code) :
                             (b \in DOMAIN blocks /\ l \in Put(blocks[b].code)) \/ (b = N + 1 /\ l \in Put(code))
      BY DEF Gains
    <3>1. CASE b = N + 1
      BY <2>3, <2>6, <3>1
    <3>2. CASE b = N
      BY <2>4, <2>5, <2>6, <3>2
    <3>3. CASE b \in DOMAIN blocks /\ b # N
      BY <2>6, <3>3 DEF Once
    <3> QED
      BY <2>6, <3>1, <3>2, <3>3
  <2>8. Owes(Put(code)) /\ placed' = placed
    BY <2>1 DEF Owed, Once, Owes
  <2> QED
    BY <2>3, <2>7, <2>8, OnceKept
<1>6. CASE Close
  <2>1. UNCHANGED <<placed, entries>>
    BY <1>6 DEF Close
  <2>2. \A b \in DOMAIN blocks' : b \in DOMAIN blocks /\ blocks'[b] = blocks[b]
    <3>1. N \in Nat /\ Len(blocks') = N - 1 /\ \A b \in 1 .. N - 1 : blocks'[b] = blocks[b]
      BY <1>6, Closings
    <3> HIDE DEF N
    <3>2. \A b \in 1 .. N - 1 : b \in 1 .. N
      BY <3>1
    <3> QED
      BY <1>1, <1>2, <3>1, <3>2
  <2>3. Gains(0, {})
    BY <2>2 DEF Once, Gains
  <2>4. Owes({}) /\ placed' = placed
    BY <2>1 DEF Owed, Once, Owes
  <2> QED
    BY <2>3, <2>4, OnceKept
<1>7. CASE Build
  <2> DEFINE n == Head(entries)
             block == Block([Unbound EXCEPT !["entry"] = n], Body(n), 0)
  <2>1. placed' = placed /\ entries # <<>> /\ entries' = Tail(entries) /\ blocks' = <<block>>
    BY <1>7 DEF Build
  <2>2. /\ n = entries[1] /\ 1 \in DOMAIN entries
        /\ \A i \in DOMAIN entries' : i \in Nat /\ i + 1 \in DOMAIN entries /\ i + 1 # 1 /\ entries'[i] = entries[i + 1]
    <3>1. entries \in Seq(Nat) /\ entries # <<>> /\ entries' = Tail(entries)
      BY <1>1, <2>1
    <3>2. n = entries[1] /\ 1 \in DOMAIN entries
      BY <3>1
    <3>3. \A i \in DOMAIN entries' : i \in Nat /\ i + 1 \in DOMAIN entries /\ i + 1 # 1 /\ entries'[i] = entries[i + 1]
      BY ONLY <3>1
    <3> QED
      BY <3>2, <3>3
  <2> HIDE DEF n
  <2>3. DOMAIN blocks' = {1} /\ blocks'[1].code = Body(n)
    <3>1. DOMAIN blocks' = {1} /\ blocks'[1] = block
      <4> HIDE DEF block
      <4> QED
        BY <2>1
    <3> QED
      BY <3>1 DEF Block
  <2>4. Distinct(Body(n)) /\ Put(Body(n)) = {<<n, "entry">>}
    <3>1. /\ DOMAIN Body(n) = {1, 2, 3} /\ Body(n)[1].op = "JUMPDEST" /\ LabelOf(Body(n)[1]) = <<n, "entry">>
          /\ Body(n)[2].op = "POP" /\ Body(n)[3].op = "Body"
      BY DEF Body, Label, Op, Template, LabelOf
    <3> HIDE DEF LabelOf
    <3> QED
      BY <3>1 DEF Distinct, Put, Mentioned
  <2>5. <<n, "entry">> \in Owed /\ <<n, "entry">>[1] # 0
    <3>1. entries[1] \in 1 .. replaced /\ replaced \in Nat
      BY <2>2 DEF Numbered, Vocabulary
    <3>2. n # 0
      BY <2>2, <3>1
    <3> QED
      BY <2>2, <3>2 DEF Owed
  <2>6. \A i \in DOMAIN entries' : entries'[i] # n /\ <<entries'[i], "entry">> \in Owed
    <3> TAKE i \in DOMAIN entries'
    <3>1. entries[i + 1] # entries[1]
      BY <2>2 DEF Once
    <3> QED
      BY <2>2, <3>1 DEF Owed
  <2>7. \A l \in Owed' : l \in Owed /\ l # <<n, "entry">>
    BY <2>6 DEF Owed
  <2>8. \A i, j \in DOMAIN entries' : entries'[i] = entries'[j] => i = j
    <3> TAKE i, j \in DOMAIN entries'
    <3> HAVE entries'[i] = entries'[j]
    <3>1. i + 1 = j + 1
      BY <2>2 DEF Once
    <3> QED
      BY <2>2, <3>1
  <2> QED
    BY <2>1, <2>3, <2>4, <2>5, <2>7, <2>8 DEF Once
<1> QED
  BY <1>3, <1>4, <1>5, <1>6, <1>7 DEF Next

\* Everything that is jumped to is placed or going to be: as a step leaves it.
LEMMA ReachedStep ==
  ASSUME ~LoopsInside, Vocabulary, Numbered, Scoped, Reached, Next
  PROVE  Reached'
<1> DEFINE N == Len(blocks)
<1>1. blocks # <<>> => Top = blocks[N] /\ N \in DOMAIN blocks
  BY Tops DEF Top
<1>2. entries \in Seq(Nat) /\ New \in Nat
  BY DEF Vocabulary, New
<1> HIDE DEF N
<1>3. CASE Emit \/ Let \/ Jump \/ PlaceLabel
  <2>1. Busy /\ Becomes(blocks', Held, Rest) /\ blocks # <<>> /\ entries' = entries
    BY <1>3, Advances DEF Busy
  <2>2. /\ DOMAIN blocks' = DOMAIN blocks /\ blocks'[N].code = Rest
        /\ \A b \in DOMAIN blocks : b # N => blocks'[b] = blocks[b]
    BY <2>1, Becoming DEF N
  <2>3. Top.code \in Seq(Items) /\ Top.code # <<>> /\ Item = Top.code[1]
    BY <2>1, Tops DEF Busy
  <2>4. /\ Put(Top.code) = Put(Rest) \cup (IF Item.op \in {"JUMPDEST"} THEN {LabelOf(Item)} ELSE {})
        /\ Asked(Top.code) = Asked(Rest) \cup (IF Item.op \in {"JUMP", "JUMPI"} THEN {LabelOf(Item)} ELSE {})
    BY <2>3, RestMentions DEF Put, Asked, Rest
  <2>5. /\ placed \subseteq placed'
        /\ Item.op = "JUMPDEST" => LabelOf(Item) \in placed'
        /\ \A l \in DOMAIN at' : l \in DOMAIN at \/ l \in placed' \/ (Item.op \in {"JUMP", "JUMPI"} /\ l = LabelOf(Item))
    <3>1. CASE Emit \/ Let
      BY <3>1 DEF Emit, Let, Instructions
    <3>2. CASE Jump \/ PlaceLabel
      <4>1. Meant = LabelOf(Item)
        BY <2>1, <3>2, ScopedNow DEF Jump, PlaceLabel, OwnLabels, Mentions, Meant, LabelOf
      <4>2. DOMAIN at' = DOMAIN at \cup {Meant}
        BY <2>1, <3>2, Notes, Others DEF Jump, PlaceLabel
      <4> HIDE DEF Meant, LabelOf, Item
      <4>3. CASE Jump
        BY <4>1, <4>2, <4>3 DEF Jump
      <4>4. CASE PlaceLabel
        BY <4>1, <4>2, <4>4 DEF PlaceLabel
      <4> QED
        BY <3>2, <4>3, <4>4
    <3> QED
      BY <1>3, <3>1, <3>2
  <2>6. Owed' = Owed
    BY <2>1 DEF Owed
  <2>7. Top = blocks[N] /\ N \in DOMAIN blocks
    BY <1>1, <2>1
  <2> HIDE DEF Top, Item, Rest
  <2>8. ASSUME NEW l, Due(l)
        PROVE  Due(l)'
    <3>1. CASE l \in placed \/ l \in Owed
      BY <2>5, <2>6, <3>1 DEF Due
    <3>2. ASSUME NEW b \in DOMAIN blocks, l \in Put(blocks[b].code)
          PROVE  Due(l)'
      <4>1. CASE b # N
        BY <2>2, <3>2, <4>1 DEF Due
      <4>2. CASE b = N
        <5>1. l \in Put(Rest) \/ (Item.op = "JUMPDEST" /\ l = LabelOf(Item))
          BY <2>4, <2>7, <3>2, <4>2
        <5>2. l \in Put(blocks'[N].code) \/ l \in placed'
          BY <2>2, <2>5, <5>1
        <5> QED
          BY <2>2, <2>7, <5>2 DEF Due
      <4> QED
        BY <4>1, <4>2
    <3> QED
      BY <2>8, <3>1, <3>2 DEF Due
  <2>9. ASSUME NEW l \in DOMAIN at'
        PROVE  l \in DOMAIN at \/ Due(l)'
    <3>1. CASE l \in DOMAIN at \/ l \in placed'
      BY <3>1 DEF Due
    <3>2. CASE Item.op \in {"JUMP", "JUMPI"} /\ l = LabelOf(Item)
      <4>1. l \in Asked(blocks[N].code)
        BY <2>4, <2>7, <3>2
      <4>2. Due(l)
        BY <2>7, <4>1 DEF Reached
      <4> QED
        BY <2>8, <4>2
    <3> QED
      BY <2>5, <2>9, <3>1, <3>2
  <2>10. \A b \in DOMAIN blocks' : \A l \in Asked(blocks'[b].code) :
           b \in DOMAIN blocks /\ l \in Asked(blocks[b].code)
    <3> TAKE b \in DOMAIN blocks'
    <3>1. CASE b = N
      BY <2>2, <2>4, <2>7, <3>1
    <3>2. CASE b # N
      BY <2>2, <3>2
    <3> QED
      BY <3>1, <3>2
  <2> HIDE DEF Due
  <2> QED
    BY <2>8, <2>9, <2>10, ReachedKept
<1>4. CASE Snippet \/ Lower \/ Dispatch
  <2>1. Busy /\ blocks # <<>> /\ placed' = placed /\ at' = at /\ Item.op \notin {"JUMPDEST", "JUMP", "JUMPI"}
    BY <1>4, Replacements DEF Busy, Emitted, Mentions
  <2>2. PICK code \in Seq(Items) :
          /\ Becomes(blocks', Top.scope, code \o Rest)
          /\ \/ entries' = entries /\ (Plain(code) \/ Places(code, New))
             \/ entries' = Append(entries, New) /\ code = Arm(New)
    BY <1>4, Replacements
  <2> DEFINE new == code \o Rest
             t == Top.code
  <2>3. /\ DOMAIN blocks' = DOMAIN blocks /\ blocks'[N].code = new
        /\ \A b \in DOMAIN blocks : b # N => blocks'[b] = blocks[b]
    <3>1. Becomes(blocks', Top.scope, new)
      BY <2>2
    <3> HIDE DEF new
    <3> QED
      BY <2>1, <3>1, Becoming DEF N
  <2>4. t \in Seq(Items) /\ t # <<>> /\ Item = t[1] /\ Rest = Tail(t)
    BY <2>1, Tops DEF Busy, Rest
  <2>5. t = blocks[N].code /\ N \in DOMAIN blocks
    BY <1>1, <2>1
  <2>6. Put(t) = Put(Rest) /\ Asked(t) = Asked(Rest)
    <3> HIDE DEF Rest, t
    <3>1. /\ Put(t) = Put(Rest) \cup (IF Item.op \in {"JUMPDEST"} THEN {LabelOf(Item)} ELSE {})
          /\ Asked(t) = Asked(Rest) \cup (IF Item.op \in {"JUMP", "JUMPI"} THEN {LabelOf(Item)} ELSE {})
      BY <2>4, RestMentions DEF Put, Asked
    <3> QED
      BY <2>1, <3>1
  <2>7. Put(new) = Put(code) \cup Put(Rest) /\ Asked(new) = Asked(code) \cup Asked(Rest)
    <3>1. code \in Seq(Items) /\ new = code \o Tail(t)
      BY <2>4
    <3> HIDE DEF new, t, Rest
    <3>2. Put(new) = Put(code) \cup Put(Tail(t))
      BY ONLY <2>4, <3>1, SpliceMentions, Zenon
    <3>3. Asked(new) = Asked(code) \cup Asked(Tail(t))
      BY ONLY <2>4, <3>1, SpliceMentions, Zenon
    <3> QED
      BY <2>4, <3>2, <3>3
  <2>8. /\ \A l \in Asked(code) : l \in Put(code) \/ l \in Owed'
        /\ \A l \in Owed : l \in Owed'
    <3>1. CASE entries' = entries /\ (Plain(code) \/ Places(code, New))
      BY <3>1, NewMentions DEF Owed
    <3>2. CASE entries' = Append(entries, New) /\ code = Arm(New)
      <4> DEFINE L == Len(entries)
      <4>1. /\ L \in Nat /\ DOMAIN entries = 1 .. L /\ DOMAIN entries' = 1 .. L + 1
            /\ entries'[L + 1] = New /\ \A i \in 1 .. L : entries'[i] = entries[i]
        <5>1. entries \in Seq(Nat) /\ New \in Nat /\ entries' = Append(entries, New)
          BY <1>2, <3>2
        <5> HIDE DEF New
        <5> QED
          BY <5>1
      <4> HIDE DEF L
      <4>2. L + 1 \in 1 .. L + 1 /\ \A i \in 1 .. L : i \in 1 .. L + 1
        BY <4>1
      <4>3. /\ <<New, "entry">> \in Owed'
            /\ \A l \in Owed : l \in Owed'
        BY <4>1, <4>2 DEF Owed
      <4>4. \A k \in DOMAIN code : code[k].op \in {"JUMP", "JUMPI"} => LabelOf(code[k]) = <<New, "entry">>
        <5> HIDE DEF New
        <5>1. /\ DOMAIN code = 1 .. 6 /\ code[1] = Label("LET", New, "entry") /\ code[2] = Op("DUP1")
              /\ code[3] = Push /\ code[4] = Op("BINARY") /\ code[5] = Label("JUMPI", New, "entry")
              /\ code[6] = Op("Arms")
          BY <3>2 DEF Arm
        <5>2. \A k \in 1 .. 6 : k \in {1, 2, 3, 4, 5, 6}
          OBVIOUS
        <5>3. \A k \in DOMAIN code : code[k].op \in {"JUMP", "JUMPI"} => code[k] = Label("JUMPI", New, "entry")
          <6>1. /\ code[1].op = "LET" /\ code[2].op = "DUP1" /\ code[3].op = "PUSH"
                /\ code[4].op = "BINARY" /\ code[6].op = "Arms"
            BY <5>1 DEF Label, Op, Template, Push
          <6>2. \A k \in DOMAIN code : k = 5 \/ code[k].op \notin {"JUMP", "JUMPI"}
            BY <5>1, <5>2, <6>1
          <6> QED
            BY <5>1, <6>2
        <5> QED
          BY <5>3 DEF Label, LabelOf
      <4>5. \A l \in Asked(code) : l = <<New, "entry">>
        BY <4>4 DEF Asked, Mentioned
      <4> QED
        BY <4>3, <4>5
    <3> QED
      BY <2>2, <3>1, <3>2
  <2> HIDE DEF Top, Item, Rest, new, t
  <2>9. ASSUME NEW l, Due(l)
        PROVE  Due(l)'
    <3>1. CASE l \in placed \/ l \in Owed
      BY <2>1, <2>8, <3>1 DEF Due
    <3>2. ASSUME NEW b \in DOMAIN blocks, l \in Put(blocks[b].code)
          PROVE  Due(l)'
      <4>1. CASE b # N
        BY <2>3, <3>2, <4>1 DEF Due
      <4>2. CASE b = N
        <5>1. l \in Put(blocks'[N].code)
          BY <2>3, <2>5, <2>6, <2>7, <3>2, <4>2
        <5> QED
          BY <2>3, <2>5, <5>1 DEF Due
      <4> QED
        BY <4>1, <4>2
    <3> QED
      BY <2>9, <3>1, <3>2 DEF Due
  <2>10. \A b \in DOMAIN blocks' : \A l \in Asked(blocks'[b].code) :
           (b \in DOMAIN blocks /\ l \in Asked(blocks[b].code)) \/ Due(l)'
    <3> SUFFICES ASSUME NEW b \in DOMAIN blocks', NEW l \in Asked(blocks'[b].code)
                 PROVE  (b \in DOMAIN blocks /\ l \in Asked(blocks[b].code)) \/ Due(l)'
      OBVIOUS
    <3>1. CASE b # N
      BY <2>3, <3>1
    <3>2. CASE b = N /\ l \in Asked(Rest)
      BY <2>5, <2>6, <3>2
    <3>3. CASE b = N /\ l \in Asked(code)
      <4>1. l \in Put(blocks'[N].code) \/ l \in Owed'
        BY <2>3, <2>7, <2>8, <3>3
      <4> QED
        BY <2>3, <2>5, <4>1 DEF Due
    <3> QED
      BY <2>3, <2>7, <3>1, <3>2, <3>3
  <2>11. \A l \in DOMAIN at' : l \in DOMAIN at \/ Due(l)'
    BY <2>1
  <2> HIDE DEF Due
  <2> QED
    BY <2>9, <2>10, <2>11, ReachedKept
<1>5. CASE Enter
  <2>1. Busy /\ blocks # <<>> /\ UNCHANGED <<placed, entries, at>> /\ Item.op \notin {"JUMPDEST", "JUMP", "JUMPI"}
    BY <1>5, Openings DEF Busy, Braces
  <2>2. PICK code \in Seq(Items) : Places(code, New) /\ Opens(blocks', code)
    BY <1>5, Openings
  <2>3. \A l \in Asked(code) : l \in Put(code)
    BY <2>2, NewMentions
  <2>4. Top.code \in Seq(Items) /\ Top.code # <<>> /\ Item = Top.code[1] /\ Top = blocks[N] /\ N \in DOMAIN blocks
    BY <1>1, <2>1, Tops DEF Busy
  <2>5. Put(blocks[N].code) = Put(Rest) /\ Asked(blocks[N].code) = Asked(Rest)
    <3>1. /\ Put(Top.code) = Put(Rest) \cup (IF Item.op \in {"JUMPDEST"} THEN {LabelOf(Item)} ELSE {})
          /\ Asked(Top.code) = Asked(Rest) \cup (IF Item.op \in {"JUMP", "JUMPI"} THEN {LabelOf(Item)} ELSE {})
      BY <2>4, RestMentions DEF Put, Asked, Rest
    <3> QED
      BY <2>1, <2>4, <3>1
  <2>6. /\ \A b \in DOMAIN blocks' : b = N + 1 \/ b \in DOMAIN blocks
        /\ \A b \in DOMAIN blocks : b \in DOMAIN blocks'
        /\ N + 1 \in DOMAIN blocks'
        /\ \A b \in DOMAIN blocks : b # N => blocks'[b] = blocks[b]
        /\ blocks'[N].code = Rest /\ blocks'[N + 1].code = code
    BY <2>1, <2>2, Opened DEF N
  <2> HIDE DEF Top, Item, Rest
  <2>7. ASSUME NEW l, Due(l)
        PROVE  Due(l)'
    <3>1. CASE l \in placed \/ l \in Owed
      BY <2>1, <3>1 DEF Due, Owed
    <3>2. ASSUME NEW b \in DOMAIN blocks, l \in Put(blocks[b].code)
          PROVE  Due(l)'
      <4>1. b \in DOMAIN blocks' /\ l \in Put(blocks'[b].code)
        BY <2>5, <2>6, <3>2
      <4> QED
        BY <4>1 DEF Due
    <3> QED
      BY <2>7, <3>1, <3>2 DEF Due
  <2>8. \A b \in DOMAIN blocks' : \A l \in Asked(blocks'[b].code) :
          (b \in DOMAIN blocks /\ l \in Asked(blocks[b].code)) \/ Due(l)'
    <3> SUFFICES ASSUME NEW b \in DOMAIN blocks', NEW l \in Asked(blocks'[b].code)
                 PROVE  (b \in DOMAIN blocks /\ l \in Asked(blocks[b].code)) \/ Due(l)'
      OBVIOUS
    <3>1. CASE b = N + 1
      BY <2>3, <2>6, <3>1 DEF Due
    <3>2. CASE b \in DOMAIN blocks
      BY <2>5, <2>6, <3>2
    <3> QED
      BY <2>6, <3>1, <3>2
  <2>9. \A l \in DOMAIN at' : l \in DOMAIN at \/ Due(l)'
    BY <2>1
  <2> HIDE DEF Due
  <2> QED
    BY <2>7, <2>8, <2>9, ReachedKept
<1>6. CASE Close
  <2>1. UNCHANGED <<placed, entries, at>> /\ blocks # <<>>
    BY <1>6 DEF Close
  <2>2. /\ Top.code = <<>>
        /\ \A b \in DOMAIN blocks' : b \in DOMAIN blocks /\ blocks'[b] = blocks[b]
        /\ \A b \in DOMAIN blocks : b # N => b \in DOMAIN blocks' /\ blocks'[b] = blocks[b]
    <3>1. /\ N \in Nat /\ Len(blocks') = N - 1 /\ \A b \in 1 .. N - 1 : blocks'[b] = blocks[b]
          /\ DOMAIN blocks = 1 .. N /\ Top.code = <<>>
      BY <1>6, <2>1, Closings, Tops DEF N
    <3>2. DOMAIN blocks' = 1 .. N - 1
      BY <3>1, BlocksTyped, LenProperties
    <3>3. /\ \A b \in 1 .. N - 1 : b \in 1 .. N
          /\ \A b \in 1 .. N : b # N => b \in 1 .. N - 1
      BY ONLY <3>1
    <3> QED
      BY <3>1, <3>2, <3>3
  <2>3. Put(blocks[N].code) = {}
    BY <1>1, <2>1, <2>2 DEF Put, Mentioned
  <2>4. ASSUME NEW l, Due(l)
        PROVE  Due(l)'
    BY <2>1, <2>2, <2>3, <2>4 DEF Due, Owed
  <2>5. \A b \in DOMAIN blocks' : \A l \in Asked(blocks'[b].code) :
          (b \in DOMAIN blocks /\ l \in Asked(blocks[b].code)) \/ Due(l)'
    BY <2>2
  <2>6. \A l \in DOMAIN at' : l \in DOMAIN at \/ Due(l)'
    BY <2>1
  <2> HIDE DEF Due
  <2> QED
    BY <2>4, <2>5, <2>6, ReachedKept
<1>7. CASE Build
  <2> DEFINE n == Head(entries)
             block == Block([Unbound EXCEPT !["entry"] = n], Body(n), 0)
  <2>1. /\ UNCHANGED <<placed, at>> /\ blocks = <<>> /\ entries # <<>>
        /\ entries' = Tail(entries) /\ blocks' = <<block>>
    BY <1>7 DEF Build
  <2>2. \A i \in DOMAIN entries : entries[i] = n \/ \E j \in DOMAIN entries' : entries'[j] = entries[i]
    <3> DEFINE L == Len(entries)
    <3>1. entries \in Seq(Nat) /\ entries # <<>> /\ entries' = Tail(entries)
      BY <1>2, <2>1
    <3>2. /\ L \in Nat \ {0} /\ DOMAIN entries = 1 .. L /\ n = entries[1] /\ DOMAIN entries' = 1 .. L - 1
          /\ \A i \in 1 .. L - 1 : entries'[i] = entries[i + 1]
      BY ONLY <3>1
    <3> HIDE DEF L, n
    <3>3. \A i \in 1 .. L : i = 1 \/ (i - 1 \in 1 .. L - 1 /\ (i - 1) + 1 = i)
      BY ONLY <3>2
    <3> QED
      BY <3>2, <3>3
  <2> HIDE DEF n
  <2>3. DOMAIN blocks' = {1} /\ blocks'[1].code = Body(n)
    <3>1. DOMAIN blocks' = {1} /\ blocks'[1] = block
      <4> HIDE DEF block
      <4> QED
        BY <2>1
    <3> QED
      BY <3>1 DEF Block
  <2>4. Put(Body(n)) = {<<n, "entry">>} /\ Asked(Body(n)) = {}
    <3>1. /\ DOMAIN Body(n) = {1, 2, 3} /\ Body(n)[1].op = "JUMPDEST" /\ LabelOf(Body(n)[1]) = <<n, "entry">>
          /\ Body(n)[2].op = "POP" /\ Body(n)[3].op = "Body"
      BY DEF Body, Label, Op, Template, LabelOf
    <3> HIDE DEF LabelOf
    <3> QED
      BY <3>1 DEF Put, Asked, Mentioned
  <2>5. \A l \in Owed : l = <<n, "entry">> \/ l \in Owed'
    BY <2>2 DEF Owed
  <2>6. ASSUME NEW l, Due(l)
        PROVE  Due(l)'
    <3>1. l \in placed \/ l \in Owed
      BY <2>1, <2>6 DEF Due
    <3>2. <<n, "entry">> \in Put(blocks'[1].code)
      BY <2>3, <2>4
    <3> QED
      BY <2>1, <2>3, <2>5, <3>1, <3>2 DEF Due
  <2>7. /\ \A b \in DOMAIN blocks' : \A l \in Asked(blocks'[b].code) :
             (b \in DOMAIN blocks /\ l \in Asked(blocks[b].code)) \/ Due(l)'
        /\ \A l \in DOMAIN at' : l \in DOMAIN at \/ Due(l)'
    BY <2>1, <2>3, <2>4
  <2> HIDE DEF Due
  <2> QED
    BY <2>6, <2>7, ReachedKept
<1> QED
  BY <1>3, <1>4, <1>5, <1>6, <1>7 DEF Next

\* At first there is nothing to place.
LEMMA PlacingInit == Init => Once /\ Reached
<1> SUFFICES ASSUME Init PROVE Once /\ Reached
  OBVIOUS
<1>1. PICK unit \in {Block(Unbound, Dispatcher, 1), Block(Unbound, LowerConstructor, 0)} :
        blocks = <<unit>>
  BY DEF Init
<1>2. \A code \in {Dispatcher, LowerConstructor} : \A k \in DOMAIN code : code[k].op \notin {"JUMPDEST", "JUMP", "JUMPI"}
  BY DEF Dispatcher, LowerConstructor, Op, Template, Push, Stmts
<1>3. \A k \in DOMAIN unit.code : unit.code[k].op \notin {"JUMPDEST", "JUMP", "JUMPI"}
  BY <1>1, <1>2 DEF Block
<1>4. Put(unit.code) = {} /\ Asked(unit.code) = {} /\ Distinct(unit.code)
  BY <1>3 DEF Put, Asked, Mentioned, Distinct
<1>5. DOMAIN blocks = {1} /\ blocks[1] = unit
  BY <1>1
<1>6. DOMAIN entries = {} /\ Owed = {} /\ DOMAIN at = {} /\ placed = {}
  BY DEF Init, Owed
<1> QED
  BY <1>4, <1>5, <1>6 DEF Once, Reached

\* Labels are allocated, each in one variable, and those that are jumped to are
\* placed or going to be, once.
Placing == Numbered /\ Scoped /\ Once /\ Reached

\* So it is in every contract whose loops are not in an if or in another loop.
LEMMA Placings ==
  ASSUME ~LoopsInside
  PROVE  Spec => []Placing
<1>1. Init => Placing
  BY NumberedInit, ScopedInit, PlacingInit DEF Placing
<1>2. Vocabulary /\ Placing /\ [Next]_vars => Placing'
  <2> SUFFICES ASSUME Vocabulary, Placing, [Next]_vars PROVE Placing'
    OBVIOUS
  <2>1. CASE Next
    BY <2>1, NumberedStep, ScopedStep, OnceStep, ReachedStep DEF Placing
  <2>2. CASE UNCHANGED vars
    BY <2>2 DEF vars, Placing, Numbered, Scoped, Once, Reached, Due, Owed
  <2> QED
    BY <2>1, <2>2
<1> QED
  BY <1>1, <1>2, Vocabularies, PTL DEF Spec

\* In every contract whose loops are not in an if or in another loop, no label
\* is placed twice, and when everything is built every label that a jump
\* mentions has been placed: what assemble needs to resolve it.
THEOREM LabelsPlacedOnce ==
  ASSUME ~LoopsInside
  PROVE  Spec => []PlacedOnce
<1>1. Vocabulary /\ Placing => PlacedOnce
  <2> SUFFICES ASSUME Vocabulary, Placing PROVE PlacedOnce
    OBVIOUS
  <2>1. ASSUME Busy, Item.op = "JUMPDEST"
        PROVE  Meant \notin placed
    <3>1. Meant = LabelOf(Item)
      BY <2>1, ScopedNow DEF Placing, OwnLabels, Mentions, Meant, LabelOf
    <3>2. Top.code \in Seq(Items) /\ Top.code # <<>> /\ Item = Top.code[1] /\ 1 \in DOMAIN Top.code
      BY <2>1, Tops, Tails DEF Busy
    <3>3. LabelOf(Item) \in Put(Top.code)
      BY <2>1, <3>2 DEF Put, Mentioned
    <3>4. Len(blocks) \in DOMAIN blocks /\ Top = blocks[Len(blocks)]
      BY <2>1, Tops DEF Busy, Top
    <3> HIDE DEF Top, Item, Meant
    <3> QED
      BY <3>1, <3>3, <3>4 DEF Placing, Once
  <2>2. ASSUME blocks = <<>>, entries = <<>>
        PROVE  DOMAIN at \subseteq placed
    <3>1. DOMAIN blocks = {} /\ Owed = {}
      BY <2>2 DEF Owed
    <3> QED
      BY <3>1 DEF Placing, Reached, Due
  <2> QED
    BY <2>1, <2>2 DEF PlacedOnce
<1> QED
  BY <1>1, Vocabularies, Placings, PTL

----------------------------------------------------------------------------
(* The type invariant.                                                     *)

\* The stack never holds less than nothing.
Counted ==
  /\ height \in Nat /\ \A l \in DOMAIN at : at[l] \in Nat
  /\ \A b \in DOMAIN blocks : blocks[b].exit \in Nat

\* An item that finds its operands leaves no less.
LEMMA AfterNat ==
  ASSUME Vocabulary, StackSafe, Counted, Busy, Item.op # "JUMPDEST"
  PROVE  After(Item.op) \in Nat
<1>1. Takes(Item.op) <= height /\ height \in Nat
  BY DEF StackSafe, Counted, Before
<1>2. Takes(Item.op) \in Nat /\ Leaves(Item.op) \in Nat
  BY DEF Takes, Leaves
<1> QED
  BY <1>1, <1>2 DEF After

\* A step leaves nothing less on the stack than nothing: no block is expected to,
LEMMA ExitsCounted ==
  ASSUME Vocabulary, StackSafe, Counted, Next
  PROVE  \A b \in DOMAIN blocks' : blocks'[b].exit \in Nat
<1> DEFINE N == Len(blocks)
           S == blocks'
<1>1. /\ DOMAIN S = 1 .. Len(S) /\ DOMAIN blocks = 1 .. N /\ N \in Nat
      /\ blocks # <<>> => Top.exit \in Nat
  BY BlocksTyped, LenProperties, Tops DEF Vocabulary, Counted, Top
<1>2. \A b \in 1 .. N : blocks[b].exit \in Nat
  BY <1>1 DEF Counted
<1>3. ASSUME NEW s, NEW c, blocks # <<>>, Becomes(S, s, c)
      PROVE  \A b \in DOMAIN S : S[b].exit \in Nat
  <2>1. /\ Len(S) = N /\ S[N].exit = Top.exit
        /\ \A b \in 1 .. N - 1 : S[b] = blocks[b]
    BY <1>3 DEF Becomes, Block
  <2> HIDE DEF N, S
  <2>2. \A b \in 1 .. N : b = N \/ b \in 1 .. N - 1
    BY <1>1
  <2> QED
    BY <1>1, <1>2, <1>3, <2>1, <2>2
<1>4. CASE Emit \/ Let \/ Jump \/ PlaceLabel
  BY <1>3, <1>4, Advances DEF Busy
<1>5. CASE Snippet \/ Lower \/ Dispatch
  <2>1. Busy /\ \E code \in Seq(Items) : Becomes(blocks', Top.scope, code \o Rest)
    BY <1>5, Replacements
  <2> QED
    BY <1>3, <2>1 DEF Busy
<1>6. CASE Enter
  <2>1. Busy /\ Item.op \in Braces
    BY <1>6, Openings
  <2>2. PICK code : Opens(S, code)
    BY <1>6, Openings
  <2>3. After(Item.op) \in Nat /\ blocks # <<>>
    BY <2>1, AfterNat DEF Braces, Busy
  <2>4. /\ Len(S) = N + 1 /\ S[N].exit = Top.exit /\ S[N + 1].exit = After(Item.op)
        /\ \A b \in 1 .. N - 1 : S[b] = blocks[b]
    BY <2>2 DEF Opens, Block
  <2> HIDE DEF N
  <2>5. \A b \in 1 .. N + 1 : b = N + 1 \/ b = N \/ (b \in 1 .. N - 1 /\ b \in 1 .. N)
    BY <1>1
  <2>6. DOMAIN S = 1 .. N + 1
    BY <1>1, <2>4
  <2> HIDE DEF S, Top, Item
  <2>7. \A b \in DOMAIN S : S[b].exit \in Nat
    BY <1>1, <1>2, <2>3, <2>4, <2>5, <2>6
  <2> QED
    BY <2>7 DEF S
<1>7. CASE Close
  <2>1. Len(S) = N - 1 /\ \A b \in 1 .. N - 1 : S[b] = blocks[b]
    BY <1>7, Closings
  <2> HIDE DEF N
  <2>2. \A b \in 1 .. N - 1 : b \in 1 .. N
    BY <1>1
  <2>3. DOMAIN S = 1 .. N - 1
    BY <1>1, <2>1
  <2> HIDE DEF S
  <2>4. \A b \in DOMAIN S : S[b].exit \in Nat
    BY <1>2, <2>1, <2>2, <2>3
  <2> QED
    BY <2>4 DEF S
<1>8. CASE Build
  <2>1. PICK s, c : S = <<Block(s, c, 0)>>
    BY <1>8 DEF Build
  <2> QED
    BY <2>1 DEF Block
<1> QED
  BY <1>4, <1>5, <1>6, <1>7, <1>8 DEF Next

\* and nothing is taken that is not there.
LEMMA CountedStep ==
  ASSUME Vocabulary, StackSafe, Counted, Next
  PROVE  Counted'
<1>1. height \in Nat /\ \A l \in DOMAIN at : at[l] \in Nat
  BY DEF Counted
<1>2. ASSUME NEW h \in Nat, Busy
      PROVE  \A l \in DOMAIN Noted(h) : Noted(h)[l] \in Nat
  BY <1>1, <1>2, Notes
<1>3. CASE Emit
  BY <1>1, <1>3, ExitsCounted, AfterNat DEF Emit, Counted, Instructions
<1>4. CASE Jump
  <2>1. Busy /\ height' \in Nat /\ at' = Noted(height')
    BY <1>4, AfterNat DEF Jump
  <2> QED
    BY <1>2, <2>1, ExitsCounted DEF Counted
<1>5. CASE PlaceLabel
  <2>1. Busy /\ height' = Before /\ at' = Noted(height')
    BY <1>5 DEF PlaceLabel
  <2>2. Before \in Nat
    BY <1>1 DEF Before
  <2> QED
    BY <1>2, <2>1, <2>2, ExitsCounted DEF Counted
<1>6. CASE Let \/ Snippet \/ Lower \/ Enter \/ Close \/ Dispatch \/ Build
  <2>1. UNCHANGED <<height, at>>
    BY <1>6, Replacements, Openings DEF Let, Close, Build
  <2> QED
    BY <1>1, <2>1, ExitsCounted DEF Counted
<1> QED
  BY <1>3, <1>4, <1>5, <1>6 DEF Next

\* The stack is empty at first, and has to be when the constructor's code ends.
LEMMA CountedInit == Init => Counted
<1> SUFFICES ASSUME Init PROVE Counted
  OBVIOUS
<1>1. PICK unit \in {Block(Unbound, Dispatcher, 1), Block(Unbound, LowerConstructor, 0)} :
        blocks = <<unit>>
  BY DEF Init
<1>2. unit.exit \in Nat
  BY <1>1 DEF Block
<1>3. DOMAIN blocks = {1} /\ blocks[1] = unit
  BY <1>1
<1> QED
  BY <1>2, <1>3 DEF Init, Counted

\* Labels that are placed, jumped to, or kept for a function have been allocated.
LEMMA Allocated ==
  ASSUME Vocabulary, Placing
  PROVE  /\ DOMAIN at \subseteq (1 .. replaced) \X Names
         /\ placed \subseteq (1 .. replaced) \X Names
         /\ entries \in Seq(1 .. replaced)
<1>1. replaced \in Nat /\ entries \in Seq(Nat) /\ DOMAIN at \cup placed \subseteq Labels
  BY DEF Vocabulary
<1>2. \A i \in DOMAIN entries : entries[i] \in 1 .. replaced
  BY DEF Placing, Numbered
<1>3. ASSUME NEW l \in DOMAIN at \cup placed
      PROVE  l[1] # 0
  <2>1. Due(l)
    BY <1>3 DEF Placing, Reached, Due
  <2>2. CASE l \in Owed
    BY <1>1, <1>2, <2>2 DEF Owed
  <2> QED
    BY <2>1, <2>2 DEF Due, Placing, Once
<1>4. \A l \in DOMAIN at \cup placed : l[1] <= replaced
  BY DEF Placing, Numbered
<1>5. ASSUME NEW l \in DOMAIN at \cup placed
      PROVE  l \in (1 .. replaced) \X Names
  <2>1. PICK n \in Nat, name \in Names : l = <<n, name>>
    BY <1>1 DEF Labels
  <2>2. n # 0 /\ n <= replaced
    BY <1>3, <1>4, <2>1
  <2>3. n \in 1 .. replaced
    BY <1>1, <2>2
  <2> QED
    BY <2>1, <2>3
<1>6. entries \in Seq(1 .. replaced)
  BY <1>1, <1>2
<1> QED
  BY <1>5, <1>6

\* In every contract whose loops are not in an if or in another loop, and whose
\* functions with a result type end in a value: every label that the code of
\* lower.rs, builder.rs and build_runtime mentions, places or keeps for a
\* function is one that fresh_label has returned, and no instruction, wherever
\* execution comes from, takes the stack below empty.
THEOREM TypeCorrect ==
  ASSUME ~LoopsInside, ~UnitValues
  PROVE  Spec => []TypeOK
<1>1. Init => Counted
  BY CountedInit
<1>2. Vocabulary /\ StackSafe /\ Counted /\ [Next]_vars => Counted'
  <2> SUFFICES ASSUME Vocabulary, StackSafe, Counted, [Next]_vars PROVE Counted'
    OBVIOUS
  <2>1. CASE Next
    BY <2>1, CountedStep
  <2>2. CASE UNCHANGED vars
    BY <2>2 DEF vars, Counted
  <2> QED
    BY <2>1, <2>2
<1>3. Vocabulary /\ Placing /\ Counted => TypeOK
  <2> SUFFICES ASSUME Vocabulary, Placing, Counted PROVE TypeOK
    OBVIOUS
  <2> DEFINE Typing == [scope : [Names -> 0 .. replaced], code : Seq(Items), exit : Nat]
  <2>1. blocks \in Seq(Blocks) /\ replaced \in Nat
    BY DEF Vocabulary
  <2>2. ASSUME NEW b \in DOMAIN blocks
        PROVE  blocks[b] \in Typing
    <3>1. blocks[b] \in Blocks
      <4> HIDE DEF Blocks
      <4> QED
        BY <2>1, <2>2
    <3>2. blocks[b].exit \in Nat /\ Early(blocks[b], replaced)
      BY <2>2 DEF Counted, Placing, Numbered
    <3>3. blocks[b].scope \in [Names -> 0 .. replaced]
      <4>1. blocks[b].scope \in [Names -> Nat]
        BY <3>1 DEF Blocks
      <4>2. \A name \in Names : blocks[b].scope[name] \in 0 .. replaced
        BY <2>1, <3>2, <4>1 DEF Early
      <4> QED
        BY <4>1, <4>2
    <3> HIDE DEF Items, Names
    <3> QED
      BY <3>1, <3>2, <3>3 DEF Blocks
  <2>3. blocks \in Seq(Typing)
    <3> HIDE DEF Typing, Blocks
    <3> QED
      BY <2>1, <2>2
  <2> QED
    BY <2>3, Allocated DEF TypeOK, Vocabulary, Counted
<1> QED
  BY <1>1, <1>2, <1>3, Vocabularies, Placings, StackIsSafe, PTL DEF Spec
=============================================================================
