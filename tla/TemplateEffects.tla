--------------------------- MODULE TemplateEffects ---------------------------
(***************************************************************************)
(* What each code of module Templates does, whatever is around it: it can  *)
(* be walked through with every stack that suits the template it stands    *)
(* for, mentions its own labels only, and rebinds no label variable that   *)
(* the template may not rebind.                                            *)
(***************************************************************************)
EXTENDS Templates, TLAPS

\* Templates that any statement or expression may come out of.
Free == {"Expr", "Place", "Fields", "Stored", "Stmt", "Stmts",
         "InternalCall", "InternalVoid", "ExternalCall"}

\* The label variables that an item may bind in the block it is in.
Rebinds(x) ==
  IF x.op = "LET" THEN {x.name}
  ELSE IF x.op \in Free THEN IF x.inside THEN {"ok"} ELSE {"ok", "top", "end"}
  ELSE IF x.op \in {"While", "Body", "Return"} THEN {"ok", "top", "end"}
  ELSE IF x.op = "Checked" THEN {"ok"}
  ELSE IF x.op = "Arms" THEN {"entry"} ELSE {}

\* code[k] mentions what code[j] binds, and nothing between rebinds it.
Bound(code, k, j) ==
  /\ code[j].op = "LET" /\ code[j].name = code[k].name /\ code[j].of = code[k].of
  /\ \A i \in j + 1 .. k - 1 : code[k].name \notin Rebinds(code[i])
Own(code) ==
  \A k \in DOMAIN code : code[k].op \in Mentions => \E j \in 1 .. k - 1 : Bound(code, k, j)

\* Items that execution does not leave.
Enders == {"STOP", "RETURN", "REVERT", "RevertEmpty", "ReturnWord", "ReturnShortString", "Return", "Body"}

\* Code of the n-th replacement, and code that may stand where x did.
Kept(code, n) ==
  /\ code \in Seq(Items)
  /\ \A k \in DOMAIN code : code[k].of \in {0, n}
  /\ Own(code)
Fine(code, x, n) ==
  /\ Kept(code, n)
  /\ ~LoopsInside => \A k \in DOMAIN code : Rebinds(code[k]) \subseteq Rebinds(x)
  /\ ~UnitValues /\ x.op \in Enders => code # <<>> /\ code[Len(code)].op \in Enders

----------------------------------------------------------------------------
(* Heights of the stack.  H gives every replacement the height at which    *)
(* its labels are mentioned.                                               *)

\* Items that need a stack with nothing under what they take.
AtBottom == {"STOP", "RETURN", "ReturnWord", "ReturnShortString", "Return", "Body", "Arms"}
Suits(op, a) == Takes(op) <= a /\ (op \in AtBottom => a = Takes(op))
Beyond(op, a) == a - Takes(op) + Leaves(op)

\* x leads from height a to height c.
Fits(x, a, c, H) ==
  /\ Suits(x.op, a) /\ c = Beyond(x.op, a)
  /\ x.op \in Mentions => H[x.of] = c

\* The heights es lead through code, from a to c.
Walk(code, es, a, c, H) ==
  /\ es \in [1 .. Len(code) + 1 -> Nat]
  /\ es[1] = a /\ es[Len(code) + 1] = c
  /\ \A k \in 1 .. Len(code) : Fits(code[k], es[k], es[k + 1], H)
Carries(code, a, c, H) == \E es : Walk(code, es, a, c, H)

\* code does to every stack what op does, if its labels are given some height.
Effect(code, op, n) ==
  \A a \in Nat :
    Suits(op, a) =>
      \E h \in Nat : \A H \in [Nat -> Nat] : H[n] = h => Carries(code, a, Beyond(op, a), H)

Sound(code, x, n) == Fine(code, x, n) /\ (~UnitValues => Effect(code, x.op, n))

\* The vocabulary.
LEMMA AllOps ==
  Ops = {"PUSH", "ENV", "LOAD", "MLOAD", "ISZERO", "NOT", "BINARY", "KECCAK256", "CALL", "STATICCALL",
         "DUP1", "SWAP1", "POP", "MSTORE", "SSTORE", "CODECOPY", "LOG1", "STOP", "RETURN", "REVERT",
         "JUMP", "JUMPI", "JUMPDEST", "LET", "LoadSlot", "StoreSlot", "StoreLocal", "RevertEmpty",
         "ReturnWord", "Unpacked", "ReturnShortString", "MappingSlotFromStack", "ArrayElemSlot",
         "ArrayElemSlotFromStack", "CopyWord", "Expr", "Place", "Fields", "Stored", "Stmt", "Stmts",
         "InternalCall", "InternalVoid", "ExternalCall", "Body", "Return", "Params", "Args", "While",
         "Checked", "Arms", "IfThen", "IfElse", "Require", "DecodeParam", "DecodeArg"}
  BY DEF Ops, Snippets, Instructions, Mentions

\* For codes without labels one height of the labels is as good as another.
LEMMA Uniform ==
  ASSUME NEW codes, NEW op, NEW n,
         \A a \in Nat, H \in [Nat -> Nat] : Suits(op, a) =>
           \A code \in codes : Carries(code, a, Beyond(op, a), H)
  PROVE  \A code \in codes : Effect(code, op, n)
  BY DEF Effect

USE DEF Kept, Fine, Own, Rebinds, Free, Enders, Items, Names, Mentions, Walk, Suits, Fits, AtBottom,
        Beyond, Takes, Leaves, Template, Op, Label, Push, Expr, Stmts, Stored

\* A storage location: its slot, one word more.
LEMMA PlaceSound ==
  ASSUME NEW x \in Items, x.op = "Place", NEW n \in Nat \ {0}
  PROVE  \A code \in LowerPlace(x.inside) : Sound(code, x, n)
<1> DEFINE b == x.inside
           field == <<Push>>
           entry == <<Template("Place", b), Expr(b), Op("MappingSlotFromStack")>>
           element == <<Template("Place", b), Expr(b), Op("ArrayElemSlotFromStack")>>
<1>b. b \in BOOLEAN
  OBVIOUS
<1>1. /\ Fine(field, x, n)
      /\ Fine(entry, x, n)
      /\ Fine(element, x, n)
  BY <1>b, AllOps
<1>2. ASSUME NEW a \in Nat, NEW H \in [Nat -> Nat], Suits("Place", a)
      PROVE  /\ Carries(field, a, Beyond("Place", a), H)
             /\ Carries(entry, a, Beyond("Place", a), H)
             /\ Carries(element, a, Beyond("Place", a), H)
  <2>1. /\ Walk(field, <<a, a + 1>>, a, Beyond("Place", a), H)
        /\ Walk(entry, <<a, a + 1, a + 2, a + 1>>, a, Beyond("Place", a), H)
        /\ Walk(element, <<a, a + 1, a + 2, a + 1>>, a, Beyond("Place", a), H)
    BY <1>2, SMTT(60)
  <2> HIDE DEF Walk, Beyond, field, entry, element
  <2> QED
    BY <2>1, Zenon DEF Carries
<1>3. LowerPlace(b) = {field, entry, element}
  <2> HIDE DEF Push, Template, Expr, Stmts, Stored, Op, b
  <2> QED
    BY DEF LowerPlace
<1> HIDE DEF b, field, entry, element, Fine, Push, Suits, Beyond
<1>4. ~UnitValues => \A code \in LowerPlace(b) : Effect(code, "Place", n)
  <2>1. ~UnitValues =>
          \A a \in Nat, H \in [Nat -> Nat] : Suits("Place", a) =>
            \A code \in LowerPlace(b) : Carries(code, a, Beyond("Place", a), H)
    BY <1>2, <1>3
  <2> QED
    BY <2>1, Uniform
<1> QED
  BY <1>1, <1>3, <1>4 DEF Sound, b

\* An expression: its value, one word more.
LEMMA ExprSound ==
  ASSUME NEW x \in Items, x.op = "Expr", NEW n \in Nat \ {0}
  PROVE  \A code \in LowerExpr(x.inside) : Sound(code, x, n)
<1> DEFINE b == x.inside
           literal == <<Push>>
           env == <<Op("ENV")>>
           variable == <<Push, Op("LOAD")>>
           field == <<Op("LoadSlot")>>
           entry == <<Template("Place", b), Op("LOAD")>>
           binary == <<Expr(b), Expr(b), Op("BINARY")>>
           negated == <<Expr(b), Expr(b), Op("BINARY"), Op("ISZERO")>>
           call == <<Template("InternalCall", b)>>
           answer == <<Template("ExternalCall", b), Push, Op("MLOAD")>>
           void == <<Template("InternalVoid", b)>>
           sent == <<Template("ExternalCall", b)>>
<1>b. b \in BOOLEAN
  OBVIOUS
<1>1. /\ Fine(literal, x, n)
      /\ Fine(env, x, n)
      /\ Fine(variable, x, n)
      /\ Fine(field, x, n)
      /\ Fine(entry, x, n)
      /\ Fine(binary, x, n)
      /\ Fine(negated, x, n)
      /\ Fine(call, x, n)
      /\ Fine(answer, x, n)
      /\ UnitValues => Fine(void, x, n)
      /\ UnitValues => Fine(sent, x, n)
  <2>1. /\ Fine(literal, x, n)
        /\ Fine(env, x, n)
        /\ Fine(variable, x, n)
        /\ Fine(field, x, n)
    BY <1>b, AllOps
  <2>2. /\ Fine(entry, x, n)
        /\ Fine(binary, x, n)
        /\ Fine(negated, x, n)
        /\ Fine(call, x, n)
    BY <1>b, AllOps
  <2>3. /\ Fine(answer, x, n)
        /\ UnitValues => Fine(void, x, n)
        /\ UnitValues => Fine(sent, x, n)
    BY <1>b, AllOps
  <2> HIDE DEF Fine
  <2> QED
    BY <2>1, <2>2, <2>3
<1>2. ASSUME NEW a \in Nat, NEW H \in [Nat -> Nat], Suits("Expr", a)
      PROVE  /\ Carries(literal, a, Beyond("Expr", a), H)
             /\ Carries(env, a, Beyond("Expr", a), H)
             /\ Carries(variable, a, Beyond("Expr", a), H)
             /\ Carries(field, a, Beyond("Expr", a), H)
             /\ Carries(entry, a, Beyond("Expr", a), H)
             /\ Carries(binary, a, Beyond("Expr", a), H)
             /\ Carries(negated, a, Beyond("Expr", a), H)
             /\ Carries(call, a, Beyond("Expr", a), H)
             /\ Carries(answer, a, Beyond("Expr", a), H)
  <2>1. /\ Walk(literal, <<a, a + 1>>, a, Beyond("Expr", a), H)
        /\ Walk(env, <<a, a + 1>>, a, Beyond("Expr", a), H)
        /\ Walk(variable, <<a, a + 1, a + 1>>, a, Beyond("Expr", a), H)
    BY <1>2, SMTT(60)
  <2>2. /\ Walk(field, <<a, a + 1>>, a, Beyond("Expr", a), H)
        /\ Walk(entry, <<a, a + 1, a + 1>>, a, Beyond("Expr", a), H)
        /\ Walk(binary, <<a, a + 1, a + 2, a + 1>>, a, Beyond("Expr", a), H)
    BY <1>2, SMTT(60)
  <2>3. /\ Walk(negated, <<a, a + 1, a + 2, a + 1, a + 1>>, a, Beyond("Expr", a), H)
        /\ Walk(call, <<a, a + 1>>, a, Beyond("Expr", a), H)
        /\ Walk(answer, <<a, a, a + 1, a + 1>>, a, Beyond("Expr", a), H)
    BY <1>2, SMTT(60)
  <2> HIDE DEF Walk, Beyond, literal, env, variable, field, entry, binary, negated, call, answer
  <2> QED
    BY <2>1, <2>2, <2>3, Zenon DEF Carries
<1>3. LowerExpr(b) = {literal, env, variable, field, entry, binary, negated, call, answer}
        \cup (IF UnitValues THEN {void, sent} ELSE {})
  <2> HIDE DEF Push, Template, Expr, Stmts, Stored, Op, b
  <2> QED
    BY DEF LowerExpr
<1> HIDE DEF b, literal, env, variable, field, entry, binary, negated, call, answer, void, sent,
             Fine, Push, Suits, Beyond
<1>4. ~UnitValues => \A code \in LowerExpr(b) : Effect(code, "Expr", n)
  <2>1. ~UnitValues =>
          \A a \in Nat, H \in [Nat -> Nat] : Suits("Expr", a) =>
            \A code \in LowerExpr(b) : Carries(code, a, Beyond("Expr", a), H)
    BY <1>2, <1>3
  <2> QED
    BY <2>1, Uniform
<1> QED
  BY <1>1, <1>3, <1>4 DEF Sound, b

\* The fields of an event: as many values as stores.
LEMMA FieldsSound ==
  ASSUME NEW x \in Items, x.op = "Fields", NEW n \in Nat \ {0}
  PROVE  \A code \in LowerFields(x.inside) : Sound(code, x, n)
<1> DEFINE b == x.inside
           none == <<>>
           more == <<Expr(b), Template("Fields", b), Op("StoreLocal")>>
<1>b. b \in BOOLEAN
  OBVIOUS
<1>1. /\ Fine(none, x, n)
      /\ Fine(more, x, n)
  BY <1>b, AllOps
<1>2. ASSUME NEW a \in Nat, NEW H \in [Nat -> Nat], Suits("Fields", a)
      PROVE  /\ Carries(none, a, Beyond("Fields", a), H)
             /\ Carries(more, a, Beyond("Fields", a), H)
  <2>1. /\ Walk(none, <<a>>, a, Beyond("Fields", a), H)
        /\ Walk(more, <<a, a + 1, a + 1, a>>, a, Beyond("Fields", a), H)
    BY <1>2, SMTT(60)
  <2> HIDE DEF Walk, Beyond, none, more
  <2> QED
    BY <2>1, Zenon DEF Carries
<1>3. LowerFields(b) = {none, more}
  <2> HIDE DEF Push, Template, Expr, Stmts, Stored, Op, b
  <2> QED
    BY DEF LowerFields
<1> HIDE DEF b, none, more, Fine, Push, Suits, Beyond
<1>4. ~UnitValues => \A code \in LowerFields(b) : Effect(code, "Fields", n)
  <2>1. ~UnitValues =>
          \A a \in Nat, H \in [Nat -> Nat] : Suits("Fields", a) =>
            \A code \in LowerFields(b) : Carries(code, a, Beyond("Fields", a), H)
    BY <1>2, <1>3
  <2> QED
    BY <2>1, Uniform
<1> QED
  BY <1>1, <1>3, <1>4 DEF Sound, b

\* Values that are stored when they are computed.
LEMMA StoredSound ==
  ASSUME NEW x \in Items, x.op = "Stored", NEW n \in Nat \ {0}
  PROVE  \A code \in LowerStored(x.inside) : Sound(code, x, n)
<1> DEFINE b == x.inside
           none == <<>>
           more == <<Expr(b), Op("StoreLocal"), Stored(b)>>
<1>b. b \in BOOLEAN
  OBVIOUS
<1>1. /\ Fine(none, x, n)
      /\ Fine(more, x, n)
  BY <1>b, AllOps
<1>2. ASSUME NEW a \in Nat, NEW H \in [Nat -> Nat], Suits("Stored", a)
      PROVE  /\ Carries(none, a, Beyond("Stored", a), H)
             /\ Carries(more, a, Beyond("Stored", a), H)
  <2>1. /\ Walk(none, <<a>>, a, Beyond("Stored", a), H)
        /\ Walk(more, <<a, a + 1, a, a>>, a, Beyond("Stored", a), H)
    BY <1>2, SMTT(60)
  <2> HIDE DEF Walk, Beyond, none, more
  <2> QED
    BY <2>1, Zenon DEF Carries
<1>3. LowerStored(b) = {none, more}
  <2> HIDE DEF Push, Template, Expr, Stmts, Stored, Op, b
  <2> QED
    BY DEF LowerStored
<1> HIDE DEF b, none, more, Fine, Push, Suits, Beyond
<1>4. ~UnitValues => \A code \in LowerStored(b) : Effect(code, "Stored", n)
  <2>1. ~UnitValues =>
          \A a \in Nat, H \in [Nat -> Nat] : Suits("Stored", a) =>
            \A code \in LowerStored(b) : Carries(code, a, Beyond("Stored", a), H)
    BY <1>2, <1>3
  <2> QED
    BY <2>1, Uniform
<1> QED
  BY <1>1, <1>3, <1>4 DEF Sound, b

\* Statements: a stack as it was.
LEMMA StmtsSound ==
  ASSUME NEW x \in Items, x.op = "Stmts", NEW n \in Nat \ {0}
  PROVE  \A code \in LowerStmts(x.inside) : Sound(code, x, n)
<1> DEFINE b == x.inside
           none == <<>>
           more == <<Template("Stmt", b), Stmts(b)>>
<1>b. b \in BOOLEAN
  OBVIOUS
<1>1. /\ Fine(none, x, n)
      /\ Fine(more, x, n)
  BY <1>b, AllOps
<1>2. ASSUME NEW a \in Nat, NEW H \in [Nat -> Nat], Suits("Stmts", a)
      PROVE  /\ Carries(none, a, Beyond("Stmts", a), H)
             /\ Carries(more, a, Beyond("Stmts", a), H)
  <2>1. /\ Walk(none, <<a>>, a, Beyond("Stmts", a), H)
        /\ Walk(more, <<a, a, a>>, a, Beyond("Stmts", a), H)
    BY <1>2, SMTT(60)
  <2> HIDE DEF Walk, Beyond, none, more
  <2> QED
    BY <2>1, Zenon DEF Carries
<1>3. LowerStmts(b) = {none, more}
  <2> HIDE DEF Push, Template, Expr, Stmts, Stored, Op, b
  <2> QED
    BY DEF LowerStmts
<1> HIDE DEF b, none, more, Fine, Push, Suits, Beyond
<1>4. ~UnitValues => \A code \in LowerStmts(b) : Effect(code, "Stmts", n)
  <2>1. ~UnitValues =>
          \A a \in Nat, H \in [Nat -> Nat] : Suits("Stmts", a) =>
            \A code \in LowerStmts(b) : Carries(code, a, Beyond("Stmts", a), H)
    BY <1>2, <1>3
  <2> QED
    BY <2>1, Uniform
<1> QED
  BY <1>1, <1>3, <1>4 DEF Sound, b

\* An inlined function without a result: a stack as it was.
LEMMA InternalVoidSound ==
  ASSUME NEW x \in Items, x.op = "InternalVoid", NEW n \in Nat \ {0}
  PROVE  \A code \in LowerInternalVoid(x.inside) : Sound(code, x, n)
<1> DEFINE b == x.inside
           body == <<Stored(b), Stmts(b)>>
<1>b. b \in BOOLEAN
  OBVIOUS
<1>1. Fine(body, x, n)
  BY <1>b, AllOps
<1>2. ASSUME NEW a \in Nat, NEW H \in [Nat -> Nat], Suits("InternalVoid", a)
      PROVE  Carries(body, a, Beyond("InternalVoid", a), H)
  <2>1. Walk(body, <<a, a, a>>, a, Beyond("InternalVoid", a), H)
    BY <1>2, SMTT(60)
  <2> HIDE DEF Walk, Beyond, body
  <2> QED
    BY <2>1, Zenon DEF Carries
<1>3. LowerInternalVoid(b) = {body}
  <2> HIDE DEF Push, Template, Expr, Stmts, Stored, Op, b
  <2> QED
    BY DEF LowerInternalVoid
<1> HIDE DEF b, body, Fine, Push, Suits, Beyond
<1>4. ~UnitValues => \A code \in LowerInternalVoid(b) : Effect(code, "InternalVoid", n)
  <2>1. ~UnitValues =>
          \A a \in Nat, H \in [Nat -> Nat] : Suits("InternalVoid", a) =>
            \A code \in LowerInternalVoid(b) : Carries(code, a, Beyond("InternalVoid", a), H)
    BY <1>2, <1>3
  <2> QED
    BY <2>1, Uniform
<1> QED
  BY <1>1, <1>3, <1>4 DEF Sound, b

\* An inlined function with a result: one word more.
LEMMA InternalCallSound ==
  ASSUME NEW x \in Items, x.op = "InternalCall", NEW n \in Nat \ {0}
  PROVE  \A code \in LowerInternalCall(x.inside) : Sound(code, x, n)
<1> DEFINE b == x.inside
           body == <<Stored(b), Stmts(b), Expr(b)>>
           void == <<Stored(b), Stmts(b)>>
<1>b. b \in BOOLEAN
  OBVIOUS
<1>1. /\ Fine(body, x, n)
      /\ UnitValues => Fine(void, x, n)
  BY <1>b, AllOps
<1>2. ASSUME NEW a \in Nat, NEW H \in [Nat -> Nat], Suits("InternalCall", a)
      PROVE  Carries(body, a, Beyond("InternalCall", a), H)
  <2>1. Walk(body, <<a, a, a, a + 1>>, a, Beyond("InternalCall", a), H)
    BY <1>2, SMTT(60)
  <2> HIDE DEF Walk, Beyond, body
  <2> QED
    BY <2>1, Zenon DEF Carries
<1>3. LowerInternalCall(b) = {body}
        \cup (IF UnitValues THEN {void} ELSE {})
  <2> HIDE DEF Push, Template, Expr, Stmts, Stored, Op, b
  <2> QED
    BY DEF LowerInternalCall, LowerInternalVoid
<1> HIDE DEF b, body, void, Fine, Push, Suits, Beyond
<1>4. ~UnitValues => \A code \in LowerInternalCall(b) : Effect(code, "InternalCall", n)
  <2>1. ~UnitValues =>
          \A a \in Nat, H \in [Nat -> Nat] : Suits("InternalCall", a) =>
            \A code \in LowerInternalCall(b) : Carries(code, a, Beyond("InternalCall", a), H)
    BY <1>2, <1>3
  <2> QED
    BY <2>1, Uniform
<1> QED
  BY <1>1, <1>3, <1>4 DEF Sound, b

\* A call: its seven or six operands are there, and its answer is consumed.
LEMMA ExternalCallSound ==
  ASSUME NEW x \in Items, x.op = "ExternalCall", NEW n \in Nat \ {0}
  PROVE  \A code \in LowerExternalCall(x.inside) : Sound(code, x, n)
<1> DEFINE b == x.inside
           call == <<Push, Op("StoreLocal"), Stored(b), Push, Push, Push, Push, Push, Expr(b),
                 Op("ENV"), Op("CALL"), Op("Checked")>>
           static == <<Push, Op("StoreLocal"), Stored(b), Push, Push, Push, Push, Expr(b),
                 Op("ENV"), Op("STATICCALL"), Op("Checked")>>
<1>b. b \in BOOLEAN
  OBVIOUS
<1>1. /\ Fine(call, x, n)
      /\ Fine(static, x, n)
  BY <1>b, AllOps
<1>2. ASSUME NEW a \in Nat, NEW H \in [Nat -> Nat], Suits("ExternalCall", a)
      PROVE  /\ Carries(call, a, Beyond("ExternalCall", a), H)
             /\ Carries(static, a, Beyond("ExternalCall", a), H)
  <2>1. Walk(call, <<a, a + 1, a, a, a + 1, a + 2, a + 3, a + 4, a + 5, a + 6, a + 7, a + 1, a>>,
            a, Beyond("ExternalCall", a), H)
    BY <1>2, SMTT(60)
  <2>2. Walk(static, <<a, a + 1, a, a, a + 1, a + 2, a + 3, a + 4, a + 5, a + 6, a + 1, a>>,
            a, Beyond("ExternalCall", a), H)
    BY <1>2, SMTT(60)
  <2> HIDE DEF Walk, Beyond, call, static
  <2> QED
    BY <2>1, <2>2, Zenon DEF Carries
<1>3. LowerExternalCall(b) = {call, static}
  <2> HIDE DEF Push, Template, Expr, Stmts, Stored, Op, b
  <2> QED
    BY DEF LowerExternalCall
<1> HIDE DEF b, call, static, Fine, Push, Suits, Beyond
<1>4. ~UnitValues => \A code \in LowerExternalCall(b) : Effect(code, "ExternalCall", n)
  <2>1. ~UnitValues =>
          \A a \in Nat, H \in [Nat -> Nat] : Suits("ExternalCall", a) =>
            \A code \in LowerExternalCall(b) : Carries(code, a, Beyond("ExternalCall", a), H)
    BY <1>2, <1>3
  <2> QED
    BY <2>1, Uniform
<1> QED
  BY <1>1, <1>3, <1>4 DEF Sound, b

\* A statement: a stack as it was, whatever its expressions push.
LEMMA StmtSound ==
  ASSUME NEW x \in Items, x.op = "Stmt", NEW n \in Nat \ {0}
  PROVE  \A code \in LowerStmt(x.inside) : Sound(code, x, n)
<1> DEFINE b == x.inside
           local == <<Expr(b), Op("StoreLocal")>>
           store == <<Expr(b), Op("StoreSlot")>>
           insert == <<Expr(b), Template("Place", b), Expr(b), Op("MappingSlotFromStack"),
                 Op("SSTORE")>>
           set == <<Expr(b), Expr(b), Op("ArrayElemSlot"), Op("SSTORE")>>
           push == <<Expr(b), Op("LoadSlot"), Op("ArrayElemSlot"), Op("SSTORE"), Op("LoadSlot"),
                 Push, Op("BINARY"), Op("StoreSlot")>>
           require == <<Expr(b), Op("Require")>>
           emit == <<Template("Fields", b), Push, Push, Push, Op("LOG1")>>
           ifthen == <<Expr(b), Op("IfThen")>>
           ifelse == <<Expr(b), Op("IfElse")>>
           void == <<Template("InternalVoid", b)>>
           dropped == <<Template("InternalCall", b), Op("POP")>>
           sent == <<Template("ExternalCall", b)>>
           loop == <<Template("While", b)>>
<1>b. b \in BOOLEAN
  OBVIOUS
<1>1. /\ Fine(local, x, n)
      /\ Fine(store, x, n)
      /\ Fine(insert, x, n)
      /\ Fine(set, x, n)
      /\ Fine(push, x, n)
      /\ Fine(require, x, n)
      /\ Fine(emit, x, n)
      /\ Fine(ifthen, x, n)
      /\ Fine(ifelse, x, n)
      /\ Fine(void, x, n)
      /\ Fine(dropped, x, n)
      /\ Fine(sent, x, n)
      /\ (b => LoopsInside) => Fine(loop, x, n)
  <2>1. /\ Fine(local, x, n)
        /\ Fine(store, x, n)
        /\ Fine(insert, x, n)
        /\ Fine(set, x, n)
    BY <1>b, AllOps
  <2>2. /\ Fine(push, x, n)
        /\ Fine(require, x, n)
        /\ Fine(emit, x, n)
        /\ Fine(ifthen, x, n)
    BY <1>b, AllOps
  <2>3. /\ Fine(ifelse, x, n)
        /\ Fine(void, x, n)
        /\ Fine(dropped, x, n)
        /\ Fine(sent, x, n)
    BY <1>b, AllOps
  <2>4. (b => LoopsInside) => Fine(loop, x, n)
    BY <1>b, AllOps
  <2> HIDE DEF Fine
  <2> QED
    BY <2>1, <2>2, <2>3, <2>4
<1>2. ASSUME NEW a \in Nat, NEW H \in [Nat -> Nat], Suits("Stmt", a)
      PROVE  /\ Carries(local, a, Beyond("Stmt", a), H)
             /\ Carries(store, a, Beyond("Stmt", a), H)
             /\ Carries(insert, a, Beyond("Stmt", a), H)
             /\ Carries(set, a, Beyond("Stmt", a), H)
             /\ Carries(push, a, Beyond("Stmt", a), H)
             /\ Carries(require, a, Beyond("Stmt", a), H)
             /\ Carries(emit, a, Beyond("Stmt", a), H)
             /\ Carries(ifthen, a, Beyond("Stmt", a), H)
             /\ Carries(ifelse, a, Beyond("Stmt", a), H)
             /\ Carries(void, a, Beyond("Stmt", a), H)
             /\ Carries(dropped, a, Beyond("Stmt", a), H)
             /\ Carries(sent, a, Beyond("Stmt", a), H)
             /\ Carries(loop, a, Beyond("Stmt", a), H)
  <2>1. Walk(local, <<a, a + 1, a>>, a, Beyond("Stmt", a), H)
    BY <1>2, SMTT(60)
  <2>2. Walk(store, <<a, a + 1, a>>, a, Beyond("Stmt", a), H)
    BY <1>2, SMTT(60)
  <2>3. Walk(insert, <<a, a + 1, a + 2, a + 3, a + 2, a>>, a, Beyond("Stmt", a), H)
    BY <1>2, SMTT(60)
  <2>4. Walk(set, <<a, a + 1, a + 2, a + 2, a>>, a, Beyond("Stmt", a), H)
    BY <1>2, SMTT(60)
  <2>5. Walk(push, <<a, a + 1, a + 2, a + 2, a, a + 1, a + 2, a + 1, a>>, a, Beyond("Stmt", a), H)
    BY <1>2, SMTT(60)
  <2>6. Walk(require, <<a, a + 1, a>>, a, Beyond("Stmt", a), H)
    BY <1>2, SMTT(60)
  <2>7. Walk(emit, <<a, a, a + 1, a + 2, a + 3, a>>, a, Beyond("Stmt", a), H)
    BY <1>2, SMTT(60)
  <2>8. Walk(ifthen, <<a, a + 1, a>>, a, Beyond("Stmt", a), H)
    BY <1>2, SMTT(60)
  <2>9. Walk(ifelse, <<a, a + 1, a>>, a, Beyond("Stmt", a), H)
    BY <1>2, SMTT(60)
  <2>10. Walk(void, <<a, a>>, a, Beyond("Stmt", a), H)
    BY <1>2, SMTT(60)
  <2>11. Walk(dropped, <<a, a + 1, a>>, a, Beyond("Stmt", a), H)
    BY <1>2, SMTT(60)
  <2>12. Walk(sent, <<a, a>>, a, Beyond("Stmt", a), H)
    BY <1>2, SMTT(60)
  <2>13. Walk(loop, <<a, a>>, a, Beyond("Stmt", a), H)
    BY <1>2, SMTT(60)
  <2> HIDE DEF Walk, Beyond, local, store, insert, set, push, require, emit, ifthen, ifelse, void,
               dropped, sent, loop
  <2> QED
    BY <2>1, <2>2, <2>3, <2>4, <2>5, <2>6, <2>7, <2>8, <2>9, <2>10, <2>11, <2>12, <2>13, Zenon DEF Carries
<1>3. LowerStmt(b) = {local, store, insert, set, push, require, emit, ifthen, ifelse, void, dropped, sent}
        \cup (IF b => LoopsInside THEN {loop} ELSE {})
  <2> HIDE DEF Push, Template, Expr, Stmts, Stored, Op, b
  <2> QED
    BY DEF LowerStmt
<1> HIDE DEF b, local, store, insert, set, push, require, emit, ifthen, ifelse, void, dropped,
             sent, loop, Fine, Push, Suits, Beyond
<1>4. ~UnitValues => \A code \in LowerStmt(b) : Effect(code, "Stmt", n)
  <2>1. ~UnitValues =>
          \A a \in Nat, H \in [Nat -> Nat] : Suits("Stmt", a) =>
            \A code \in LowerStmt(b) : Carries(code, a, Beyond("Stmt", a), H)
    BY <1>2, <1>3
  <2> QED
    BY <2>1, Uniform
<1> QED
  BY <1>1, <1>3, <1>4 DEF Sound, b

\* Ways through its codes, with nothing below on the stack.
LEMMA ReturnWalks ==
  ASSUME NEW H \in [Nat -> Nat]
  PROVE  /\ Walk(<<Stmts(FALSE), Expr(FALSE), Op("ReturnWord")>>, <<0, 0, 1, 0>>, 0, 0, H)
         /\ Walk(<<Stmts(FALSE), Expr(FALSE), Op("ReturnShortString")>>, <<0, 0, 1, 0>>, 0, 0, H)
         /\ Walk(<<Stmts(FALSE), Stored(FALSE), Push, Push, Op("RETURN")>>, <<0, 0, 0, 1, 2, 0>>, 0, 0, H)
<1>1. Walk(<<Stmts(FALSE), Expr(FALSE), Op("ReturnWord")>>, <<0, 0, 1, 0>>, 0, 0, H)
  <2> DEFINE code == <<Stmts(FALSE), Expr(FALSE), Op("ReturnWord")>>
             es == <<0, 0, 1, 0>>
             Fit(k) == Fits(code[k], es[k], es[k + 1], H)
  <2>1. Len(code) = 3 /\ es \in [1 .. 4 -> Nat] /\ es[1] = 0 /\ es[4] = 0
    OBVIOUS
  <2>2. Fit(1) /\ Fit(2) /\ Fit(3)
    OBVIOUS
  <2> HIDE DEF Fit, code, es, Fits
  <2>3. \A k \in 1 .. 3 : Fit(k)
    BY <2>2
  <2>4. Walk(code, es, 0, 0, H)
    BY <2>1, <2>3 DEF Fit
  <2> HIDE DEF Walk
  <2> QED
    BY <2>4 DEF code, es
<1>2. Walk(<<Stmts(FALSE), Expr(FALSE), Op("ReturnShortString")>>, <<0, 0, 1, 0>>, 0, 0, H)
  <2> DEFINE code == <<Stmts(FALSE), Expr(FALSE), Op("ReturnShortString")>>
             es == <<0, 0, 1, 0>>
             Fit(k) == Fits(code[k], es[k], es[k + 1], H)
  <2>1. Len(code) = 3 /\ es \in [1 .. 4 -> Nat] /\ es[1] = 0 /\ es[4] = 0
    OBVIOUS
  <2>2. Fit(1) /\ Fit(2) /\ Fit(3)
    OBVIOUS
  <2> HIDE DEF Fit, code, es, Fits
  <2>3. \A k \in 1 .. 3 : Fit(k)
    BY <2>2
  <2>4. Walk(code, es, 0, 0, H)
    BY <2>1, <2>3 DEF Fit
  <2> HIDE DEF Walk
  <2> QED
    BY <2>4 DEF code, es
<1>3. Walk(<<Stmts(FALSE), Stored(FALSE), Push, Push, Op("RETURN")>>, <<0, 0, 0, 1, 2, 0>>, 0, 0, H)
  <2> DEFINE code == <<Stmts(FALSE), Stored(FALSE), Push, Push, Op("RETURN")>>
             es == <<0, 0, 0, 1, 2, 0>>
             Fit(k) == Fits(code[k], es[k], es[k + 1], H)
  <2>1. Len(code) = 5 /\ es \in [1 .. 6 -> Nat] /\ es[1] = 0 /\ es[6] = 0
    OBVIOUS
  <2>2. Fit(1) /\ Fit(2) /\ Fit(3) /\ Fit(4) /\ Fit(5)
    OBVIOUS
  <2> HIDE DEF Fit, code, es, Fits
  <2>3. \A k \in 1 .. 5 : Fit(k)
    BY <2>2
  <2>4. Walk(code, es, 0, 0, H)
    BY <2>1, <2>3 DEF Fit
  <2> HIDE DEF Walk
  <2> QED
    BY <2>4 DEF code, es
<1> HIDE DEF Walk
<1> QED
  BY <1>1, <1>2, <1>3

\* A function's statements and its result: nothing is left on the stack.
LEMMA ReturnSound ==
  ASSUME NEW x \in Items, x.op = "Return", NEW n \in Nat \ {0}
  PROVE  \A code \in LowerReturn : Sound(code, x, n)
<1> DEFINE word == <<Stmts(FALSE), Expr(FALSE), Op("ReturnWord")>>
           string == <<Stmts(FALSE), Expr(FALSE), Op("ReturnShortString")>>
           tuple == <<Stmts(FALSE), Stored(FALSE), Push, Push, Op("RETURN")>>
           unit == <<Stmts(FALSE)>>
<1>1. /\ Fine(word, x, n)
      /\ Fine(string, x, n)
      /\ Fine(tuple, x, n)
      /\ UnitValues => Fine(unit, x, n)
  BY AllOps
<1>2. ASSUME NEW a \in Nat, NEW H \in [Nat -> Nat], Suits("Return", a)
      PROVE  /\ Carries(word, a, Beyond("Return", a), H)
             /\ Carries(string, a, Beyond("Return", a), H)
             /\ Carries(tuple, a, Beyond("Return", a), H)
  <2>1. a = 0 /\ Beyond("Return", a) = 0
    BY <1>2
  <2> HIDE DEF Walk, Beyond, word, string, tuple
  <2> QED
    BY <2>1, ReturnWalks, Zenon DEF Carries, word, string, tuple
<1>3. LowerReturn = {word, string, tuple}
        \cup (IF UnitValues THEN {unit} ELSE {})
  <2> HIDE DEF Push, Template, Expr, Stmts, Stored, Op
  <2> QED
    BY DEF LowerReturn
<1> HIDE DEF word, string, tuple, unit, Fine, Push, Suits, Beyond
<1>4. ~UnitValues => \A code \in LowerReturn : Effect(code, "Return", n)
  <2>1. ~UnitValues =>
          \A a \in Nat, H \in [Nat -> Nat] : Suits("Return", a) =>
            \A code \in LowerReturn : Carries(code, a, Beyond("Return", a), H)
    BY <1>2, <1>3
  <2> QED
    BY <2>1, Uniform
<1> QED
  BY <1>1, <1>3, <1>4 DEF Sound

\* Ways through its codes, with nothing below on the stack.
LEMMA BodyWalks ==
  ASSUME NEW H \in [Nat -> Nat]
  PROVE  /\ Walk(<<Op("Params"), Op("Return")>>, <<0, 0, 0>>, 0, 0, H)
         /\ Walk(<<Op("Params"), Stmts(FALSE), Op("STOP")>>, <<0, 0, 0, 0>>, 0, 0, H)
<1>1. Walk(<<Op("Params"), Op("Return")>>, <<0, 0, 0>>, 0, 0, H)
  <2> DEFINE code == <<Op("Params"), Op("Return")>>
             es == <<0, 0, 0>>
             Fit(k) == Fits(code[k], es[k], es[k + 1], H)
  <2>1. Len(code) = 2 /\ es \in [1 .. 3 -> Nat] /\ es[1] = 0 /\ es[3] = 0
    OBVIOUS
  <2>2. Fit(1) /\ Fit(2)
    OBVIOUS
  <2> HIDE DEF Fit, code, es, Fits
  <2>3. \A k \in 1 .. 2 : Fit(k)
    BY <2>2
  <2>4. Walk(code, es, 0, 0, H)
    BY <2>1, <2>3 DEF Fit
  <2> HIDE DEF Walk
  <2> QED
    BY <2>4 DEF code, es
<1>2. Walk(<<Op("Params"), Stmts(FALSE), Op("STOP")>>, <<0, 0, 0, 0>>, 0, 0, H)
  <2> DEFINE code == <<Op("Params"), Stmts(FALSE), Op("STOP")>>
             es == <<0, 0, 0, 0>>
             Fit(k) == Fits(code[k], es[k], es[k + 1], H)
  <2>1. Len(code) = 3 /\ es \in [1 .. 4 -> Nat] /\ es[1] = 0 /\ es[4] = 0
    OBVIOUS
  <2>2. Fit(1) /\ Fit(2) /\ Fit(3)
    OBVIOUS
  <2> HIDE DEF Fit, code, es, Fits
  <2>3. \A k \in 1 .. 3 : Fit(k)
    BY <2>2
  <2>4. Walk(code, es, 0, 0, H)
    BY <2>1, <2>3 DEF Fit
  <2> HIDE DEF Walk
  <2> QED
    BY <2>4 DEF code, es
<1> HIDE DEF Walk
<1> QED
  BY <1>1, <1>2

\* A function's parameters, statements and end: nothing is left on the stack.
LEMMA BodySound ==
  ASSUME NEW x \in Items, x.op = "Body", NEW n \in Nat \ {0}
  PROVE  \A code \in LowerBlock : Sound(code, x, n)
<1> DEFINE result == <<Op("Params"), Op("Return")>>
           none == <<Op("Params"), Stmts(FALSE), Op("STOP")>>
<1>1. /\ Fine(result, x, n)
      /\ Fine(none, x, n)
  BY AllOps
<1>2. ASSUME NEW a \in Nat, NEW H \in [Nat -> Nat], Suits("Body", a)
      PROVE  /\ Carries(result, a, Beyond("Body", a), H)
             /\ Carries(none, a, Beyond("Body", a), H)
  <2>1. a = 0 /\ Beyond("Body", a) = 0
    BY <1>2
  <2> HIDE DEF Walk, Beyond, result, none
  <2> QED
    BY <2>1, BodyWalks, Zenon DEF Carries, result, none
<1>3. LowerBlock = {result, none}
  <2> HIDE DEF Push, Template, Expr, Stmts, Stored, Op
  <2> QED
    BY DEF LowerBlock
<1> HIDE DEF result, none, Fine, Push, Suits, Beyond
<1>4. ~UnitValues => \A code \in LowerBlock : Effect(code, "Body", n)
  <2>1. ~UnitValues =>
          \A a \in Nat, H \in [Nat -> Nat] : Suits("Body", a) =>
            \A code \in LowerBlock : Carries(code, a, Beyond("Body", a), H)
    BY <1>2, <1>3
  <2> QED
    BY <2>1, Uniform
<1> QED
  BY <1>1, <1>3, <1>4 DEF Sound

\* The prologue of a function.
LEMMA ParamsSound ==
  ASSUME NEW x \in Items, x.op = "Params", NEW n \in Nat \ {0}
  PROVE  \A code \in LowerParams : Sound(code, x, n)
<1> DEFINE none == <<>>
           more == <<Op("DecodeParam"), Op("Params")>>
<1>1. /\ Fine(none, x, n)
      /\ Fine(more, x, n)
  BY AllOps
<1>2. ASSUME NEW a \in Nat, NEW H \in [Nat -> Nat], Suits("Params", a)
      PROVE  /\ Carries(none, a, Beyond("Params", a), H)
             /\ Carries(more, a, Beyond("Params", a), H)
  <2>1. /\ Walk(none, <<a>>, a, Beyond("Params", a), H)
        /\ Walk(more, <<a, a, a>>, a, Beyond("Params", a), H)
    BY <1>2, SMTT(60)
  <2> HIDE DEF Walk, Beyond, none, more
  <2> QED
    BY <2>1, Zenon DEF Carries
<1>3. LowerParams = {none, more}
  <2> HIDE DEF Push, Template, Expr, Stmts, Stored, Op
  <2> QED
    BY DEF LowerParams
<1> HIDE DEF none, more, Fine, Push, Suits, Beyond
<1>4. ~UnitValues => \A code \in LowerParams : Effect(code, "Params", n)
  <2>1. ~UnitValues =>
          \A a \in Nat, H \in [Nat -> Nat] : Suits("Params", a) =>
            \A code \in LowerParams : Carries(code, a, Beyond("Params", a), H)
    BY <1>2, <1>3
  <2> QED
    BY <2>1, Uniform
<1> QED
  BY <1>1, <1>3, <1>4 DEF Sound

\* The prologue of a constructor.
LEMMA ArgsSound ==
  ASSUME NEW x \in Items, x.op = "Args", NEW n \in Nat \ {0}
  PROVE  \A code \in LowerArgs : Sound(code, x, n)
<1> DEFINE none == <<>>
           word == <<Op("CopyWord"), Op("Args")>>
           string == <<Op("DecodeArg"), Op("Args")>>
<1>1. /\ Fine(none, x, n)
      /\ Fine(word, x, n)
      /\ Fine(string, x, n)
  BY AllOps
<1>2. ASSUME NEW a \in Nat, NEW H \in [Nat -> Nat], Suits("Args", a)
      PROVE  /\ Carries(none, a, Beyond("Args", a), H)
             /\ Carries(word, a, Beyond("Args", a), H)
             /\ Carries(string, a, Beyond("Args", a), H)
  <2>1. /\ Walk(none, <<a>>, a, Beyond("Args", a), H)
        /\ Walk(word, <<a, a, a>>, a, Beyond("Args", a), H)
        /\ Walk(string, <<a, a, a>>, a, Beyond("Args", a), H)
    BY <1>2, SMTT(60)
  <2> HIDE DEF Walk, Beyond, none, word, string
  <2> QED
    BY <2>1, Zenon DEF Carries
<1>3. LowerArgs = {none, word, string}
  <2> HIDE DEF Push, Template, Expr, Stmts, Stored, Op
  <2> QED
    BY DEF LowerArgs
<1> HIDE DEF none, word, string, Fine, Push, Suits, Beyond
<1>4. ~UnitValues => \A code \in LowerArgs : Effect(code, "Args", n)
  <2>1. ~UnitValues =>
          \A a \in Nat, H \in [Nat -> Nat] : Suits("Args", a) =>
            \A code \in LowerArgs : Carries(code, a, Beyond("Args", a), H)
    BY <1>2, <1>3
  <2> QED
    BY <2>1, Uniform
<1> QED
  BY <1>1, <1>3, <1>4 DEF Sound

----------------------------------------------------------------------------
(* Codes with labels: their own, at one height.                            *)

\* What a block does, whatever the block around it is.
Braced(code, op, n) == Kept(code, n) /\ Effect(code, op, n)

\* A loop: its condition is consumed, on the way in and on the way out.
LEMMA WhileSound ==
  ASSUME NEW x \in Items, x.op = "While", NEW n \in Nat \ {0}
  PROVE  Sound(LowerWhile(n), x, n)
<1> DEFINE code == LowerWhile(n)
<1>1. code \in Seq(Items)
  BY AllOps DEF LowerWhile
<1>2. \A k \in DOMAIN code : code[k].of \in {0, n} /\ Rebinds(code[k]) \subseteq {"ok", "top", "end"}
  BY DEF LowerWhile
<1>3. Own(code)
  <2>1. Bound(code, 3, 1) /\ Bound(code, 6, 2) /\ Bound(code, 8, 1) /\ Bound(code, 9, 2)
    BY DEF Bound, LowerWhile
  <2> QED
    BY <2>1 DEF LowerWhile
<1>4. ASSUME NEW a \in Nat, NEW H \in [Nat -> Nat], Suits("While", a), H[n] = a
      PROVE  Carries(code, a, Beyond("While", a), H)
  <2>1. Walk(code, <<a, a, a, a, a + 1, a + 1, a, a, a, a>>, a, Beyond("While", a), H)
    BY <1>4, SMTT(60) DEF LowerWhile
  <2> HIDE DEF Walk, Beyond, code
  <2> QED
    BY <2>1, Zenon DEF Carries
<1>5. Effect(code, "While", n)
  <2> HIDE DEF Suits, Beyond, code
  <2> QED
    BY <1>4 DEF Effect
<1> QED
  BY <1>1, <1>2, <1>3, <1>5 DEF Sound, LowerWhile

\* The answer of a call is consumed.
LEMMA CheckedSound ==
  ASSUME NEW x \in Items, x.op = "Checked", NEW n \in Nat \ {0}
  PROVE  Sound(Checked(n), x, n)
<1> DEFINE code == Checked(n)
<1>1. code \in Seq(Items)
  BY AllOps DEF Checked
<1>2. \A k \in DOMAIN code : code[k].of \in {0, n} /\ Rebinds(code[k]) \subseteq {"ok"}
  BY DEF Checked
<1>3. Own(code)
  <2>1. Bound(code, 2, 1) /\ Bound(code, 4, 1)
    BY DEF Bound, Checked
  <2> QED
    BY <2>1 DEF Checked
<1>4. ASSUME NEW a \in Nat, NEW H \in [Nat -> Nat], Suits("Checked", a), H[n] = a - 1
      PROVE  Carries(code, a, Beyond("Checked", a), H)
  <2>1. Walk(code, <<a, a, a - 1, a - 1, a - 1>>, a, Beyond("Checked", a), H)
    BY <1>4, SMTT(60) DEF Checked
  <2> HIDE DEF Walk, Beyond, code
  <2> QED
    BY <2>1, Zenon DEF Carries
<1>5. Effect(code, "Checked", n)
  <2>1. \A a \in Nat : Suits("Checked", a) => a - 1 \in Nat
    OBVIOUS
  <2> HIDE DEF Suits, Beyond, code
  <2> QED
    BY <2>1, <1>4 DEF Effect
<1> QED
  BY <1>1, <1>2, <1>3, <1>5 DEF Sound, Checked

\* A branch: both ways lead to the same stack.
LEMMA IfThenBraced ==
  ASSUME NEW n \in Nat \ {0}
  PROVE  Braced(IfThen(n), "IfThen", n)
<1> DEFINE code == IfThen(n)
<1>1. code \in Seq(Items)
  BY AllOps DEF IfThen
<1>2. \A k \in DOMAIN code : code[k].of \in {0, n}
  BY DEF IfThen
<1>3. Own(code)
  <2>1. Bound(code, 3, 1) /\ Bound(code, 5, 1)
    BY DEF Bound, IfThen
  <2> QED
    BY <2>1 DEF IfThen
<1>4. ASSUME NEW a \in Nat, NEW H \in [Nat -> Nat], Suits("IfThen", a), H[n] = a - 1
      PROVE  Carries(code, a, Beyond("IfThen", a), H)
  <2>1. Walk(code, <<a, a, a, a - 1, a - 1, a - 1>>, a, Beyond("IfThen", a), H)
    BY <1>4, SMTT(60) DEF IfThen
  <2> HIDE DEF Walk, Beyond, code
  <2> QED
    BY <2>1, Zenon DEF Carries
<1>5. Effect(code, "IfThen", n)
  <2>1. \A a \in Nat : Suits("IfThen", a) => a - 1 \in Nat
    OBVIOUS
  <2> HIDE DEF Suits, Beyond, code
  <2> QED
    BY <2>1, <1>4 DEF Effect
<1> QED
  BY <1>1, <1>2, <1>3, <1>5 DEF Braced

\* Two branches: both lead to the same stack.
LEMMA IfElseBraced ==
  ASSUME NEW n \in Nat \ {0}
  PROVE  Braced(IfElse(n), "IfElse", n)
<1> DEFINE code == IfElse(n)
<1>1. code \in Seq(Items)
  BY AllOps DEF IfElse
<1>2. \A k \in DOMAIN code : code[k].of \in {0, n}
  BY DEF IfElse
<1>3. Own(code)
  <2>1. Bound(code, 4, 1) /\ Bound(code, 6, 2) /\ Bound(code, 7, 1) /\ Bound(code, 9, 2)
    BY DEF Bound, IfElse
  <2> QED
    BY <2>1 DEF IfElse
<1>4. ASSUME NEW a \in Nat, NEW H \in [Nat -> Nat], Suits("IfElse", a), H[n] = a - 1
      PROVE  Carries(code, a, Beyond("IfElse", a), H)
  <2>1. Walk(code, <<a, a, a, a, a - 1, a - 1, a - 1, a - 1, a - 1, a - 1>>,
          a, Beyond("IfElse", a), H)
    BY <1>4, SMTT(60) DEF IfElse
  <2> HIDE DEF Walk, Beyond, code
  <2> QED
    BY <2>1, Zenon DEF Carries
<1>5. Effect(code, "IfElse", n)
  <2>1. \A a \in Nat : Suits("IfElse", a) => a - 1 \in Nat
    OBVIOUS
  <2> HIDE DEF Suits, Beyond, code
  <2> QED
    BY <2>1, <1>4 DEF Effect
<1> QED
  BY <1>1, <1>2, <1>3, <1>5 DEF Braced

\* A condition is consumed.
LEMMA RequireBraced ==
  ASSUME NEW n \in Nat \ {0}
  PROVE  Braced(Require(n), "Require", n)
<1> DEFINE code == Require(n)
<1>1. code \in Seq(Items)
  BY AllOps DEF Require
<1>2. \A k \in DOMAIN code : code[k].of \in {0, n}
  BY DEF Require
<1>3. Own(code)
  <2>1. Bound(code, 2, 1) /\ Bound(code, 4, 1)
    BY DEF Bound, Require
  <2> QED
    BY <2>1 DEF Require
<1>4. ASSUME NEW a \in Nat, NEW H \in [Nat -> Nat], Suits("Require", a), H[n] = a - 1
      PROVE  Carries(code, a, Beyond("Require", a), H)
  <2>1. Walk(code, <<a, a, a - 1, a - 1, a - 1>>, a, Beyond("Require", a), H)
    BY <1>4, SMTT(60) DEF Require
  <2> HIDE DEF Walk, Beyond, code
  <2> QED
    BY <2>1, Zenon DEF Carries
<1>5. Effect(code, "Require", n)
  <2>1. \A a \in Nat : Suits("Require", a) => a - 1 \in Nat
    OBVIOUS
  <2> HIDE DEF Suits, Beyond, code
  <2> QED
    BY <2>1, <1>4 DEF Effect
<1> QED
  BY <1>1, <1>2, <1>3, <1>5 DEF Braced

\* A string parameter: the stack that came in goes out.
LEMMA DecodeParamBraced ==
  ASSUME NEW n \in Nat \ {0}
  PROVE  Braced(DecodeShortStringParam(n), "DecodeParam", n)
<1> DEFINE code == DecodeShortStringParam(n)
<1>1. code \in Seq(Items) /\ Len(code) = 23 /\ DOMAIN code = 1 .. 23
  BY AllOps DEF DecodeShortStringParam
<1>2. \A k \in 1 .. 23 : code[k].of \in {0, n}
  <2>1. \A k \in 1 .. 12 : code[k].of \in {0, n}
    BY DEF DecodeShortStringParam
  <2>2. \A k \in 13 .. 23 : code[k].of \in {0, n}
    BY DEF DecodeShortStringParam
  <2> HIDE DEF code
  <2> QED
    BY <2>1, <2>2
<1>3. Own(code)
  <2>1. Bound(code, 11, 1) /\ Bound(code, 13, 1)
    BY DEF Bound, DecodeShortStringParam
  <2> QED
    BY <2>1 DEF DecodeShortStringParam
<1>4. ASSUME NEW a \in Nat, NEW H \in [Nat -> Nat], Suits("DecodeParam", a), H[n] = a + 2
      PROVE  Carries(code, a, Beyond("DecodeParam", a), H)
  <2> DEFINE es == <<a, a, a + 1, a + 1, a + 2, a + 1, a + 2, a + 2, a + 3, a + 4, a + 3, a + 2,
                     a + 2, a + 2, a + 2, a + 3, a + 2, a + 2, a + 2, a + 2, a + 3, a + 2, a + 1, a>>
             Fit(k) == Fits(code[k], es[k], es[k + 1], H)
  <2>1. es \in [1 .. 24 -> Nat] /\ es[1] = a /\ es[24] = Beyond("DecodeParam", a)
    OBVIOUS
  <2>2. \A k \in 1 .. 8 : Fit(k)
    BY <1>4 DEF DecodeShortStringParam
  <2>3. \A k \in 9 .. 16 : Fit(k)
    BY <1>4 DEF DecodeShortStringParam
  <2>4. \A k \in 17 .. 20 : Fit(k)
    BY <1>4 DEF DecodeShortStringParam
  <2>5. Fit(21) /\ Fit(22) /\ Fit(23)
    BY <1>4 DEF DecodeShortStringParam
  <2> HIDE DEF Fit, code, es, Fits, Beyond
  <2>6. \A k \in 1 .. 23 : Fit(k)
    <3> TAKE k \in 1 .. 23
    <3>1. k \in 1 .. 8 \/ k \in 9 .. 16 \/ k \in 17 .. 20 \/ k = 21 \/ k = 22 \/ k = 23
      OBVIOUS
    <3> QED
      BY <3>1, <2>2, <2>3, <2>4, <2>5
  <2>7. Walk(code, es, a, Beyond("DecodeParam", a), H)
    BY <1>1, <2>1, <2>6 DEF Fit
  <2> QED
    BY <2>7, Zenon DEF Carries
<1>5. Effect(code, "DecodeParam", n)
  <2>1. \A a \in Nat : a + 2 \in Nat
    OBVIOUS
  <2> HIDE DEF Suits, Beyond, code
  <2> QED
    BY <2>1, <1>4 DEF Effect
<1> QED
  BY <1>1, <1>2, <1>3, <1>5 DEF Braced

\* A string argument of a constructor: the stack that came in goes out.
LEMMA DecodeArgBraced ==
  ASSUME NEW n \in Nat \ {0}
  PROVE  Braced(DecodeShortStringConstructorArg(n), "DecodeArg", n)
<1> DEFINE code == DecodeShortStringConstructorArg(n)
<1>1. code \in Seq(Items)
  BY AllOps DEF DecodeShortStringConstructorArg
<1>2. \A k \in DOMAIN code : code[k].of \in {0, n}
  BY DEF DecodeShortStringConstructorArg
<1>3. Own(code)
  <2>1. Bound(code, 9, 1) /\ Bound(code, 11, 1)
    BY DEF Bound, DecodeShortStringConstructorArg
  <2> QED
    BY <2>1 DEF DecodeShortStringConstructorArg
<1>4. ASSUME NEW a \in Nat, NEW H \in [Nat -> Nat], Suits("DecodeArg", a), H[n] = a + 1
      PROVE  Carries(code, a, Beyond("DecodeArg", a), H)
  <2>1. Walk(code, <<a, a, a, a, a + 1, a + 1, a + 2, a + 3, a + 2, a + 1, a + 1, a + 1, a + 2,
          a + 1, a + 2, a + 2, a + 2, a + 1, a>>, a, Beyond("DecodeArg", a), H)
    BY <1>4, SMTT(60) DEF DecodeShortStringConstructorArg
  <2> HIDE DEF Walk, Beyond, code
  <2> QED
    BY <2>1, Zenon DEF Carries
<1>5. Effect(code, "DecodeArg", n)
  <2>1. \A a \in Nat : a + 1 \in Nat
    OBVIOUS
  <2> HIDE DEF Suits, Beyond, code
  <2> QED
    BY <2>1, <1>4 DEF Effect
<1> QED
  BY <1>1, <1>2, <1>3, <1>5 DEF Braced

----------------------------------------------------------------------------
(* The functions of the builder.                                           *)

\* What a builder function emits does what its template stands for.
LEMMA SnippetSound ==
  ASSUME NEW x \in Items, x.op \in DOMAIN Snippets, NEW n \in Nat \ {0}
  PROVE  Sound(Snippets[x.op], x, n)
<1>1. ASSUME x.op = "LoadSlot"
      PROVE  Sound(LoadSlot, x, n)
  <2>1. Fine(LoadSlot, x, n)
    BY <1>1, AllOps DEF LoadSlot
  <2>2. ASSUME NEW a \in Nat, NEW H \in [Nat -> Nat], Suits("LoadSlot", a)
        PROVE  Carries(LoadSlot, a, Beyond("LoadSlot", a), H)
    <3>1. Walk(LoadSlot, <<a, a + 1, a + 1>>, a, Beyond("LoadSlot", a), H)
      BY <2>2, SMTT(60) DEF LoadSlot
    <3> HIDE DEF Walk, Beyond
    <3> QED
      BY <3>1, Zenon DEF Carries
  <2>3. Effect(LoadSlot, "LoadSlot", n)
    <3> HIDE DEF Suits, Beyond
    <3> QED
      BY <2>2 DEF Effect
  <2> HIDE DEF Fine
  <2> QED
    BY <1>1, <2>1, <2>3 DEF Sound
<1>2. ASSUME x.op = "StoreSlot"
      PROVE  Sound(StoreSlot, x, n)
  <2>1. Fine(StoreSlot, x, n)
    BY <1>2, AllOps DEF StoreSlot
  <2>2. ASSUME NEW a \in Nat, NEW H \in [Nat -> Nat], Suits("StoreSlot", a)
        PROVE  Carries(StoreSlot, a, Beyond("StoreSlot", a), H)
    <3>1. Walk(StoreSlot, <<a, a + 1, a - 1>>, a, Beyond("StoreSlot", a), H)
      BY <2>2, SMTT(60) DEF StoreSlot
    <3> HIDE DEF Walk, Beyond
    <3> QED
      BY <3>1, Zenon DEF Carries
  <2>3. Effect(StoreSlot, "StoreSlot", n)
    <3> HIDE DEF Suits, Beyond
    <3> QED
      BY <2>2 DEF Effect
  <2> HIDE DEF Fine
  <2> QED
    BY <1>2, <2>1, <2>3 DEF Sound
<1>3. ASSUME x.op = "StoreLocal"
      PROVE  Sound(StoreLocal, x, n)
  <2>1. Fine(StoreLocal, x, n)
    BY <1>3, AllOps DEF StoreLocal
  <2>2. ASSUME NEW a \in Nat, NEW H \in [Nat -> Nat], Suits("StoreLocal", a)
        PROVE  Carries(StoreLocal, a, Beyond("StoreLocal", a), H)
    <3>1. Walk(StoreLocal, <<a, a + 1, a - 1>>, a, Beyond("StoreLocal", a), H)
      BY <2>2, SMTT(60) DEF StoreLocal
    <3> HIDE DEF Walk, Beyond
    <3> QED
      BY <3>1, Zenon DEF Carries
  <2>3. Effect(StoreLocal, "StoreLocal", n)
    <3> HIDE DEF Suits, Beyond
    <3> QED
      BY <2>2 DEF Effect
  <2> HIDE DEF Fine
  <2> QED
    BY <1>3, <2>1, <2>3 DEF Sound
<1>4. ASSUME x.op = "RevertEmpty"
      PROVE  Sound(RevertEmpty, x, n)
  <2>1. Fine(RevertEmpty, x, n)
    BY <1>4, AllOps DEF RevertEmpty
  <2>2. ASSUME NEW a \in Nat, NEW H \in [Nat -> Nat], Suits("RevertEmpty", a)
        PROVE  Carries(RevertEmpty, a, Beyond("RevertEmpty", a), H)
    <3>1. Walk(RevertEmpty, <<a, a + 1, a + 2, a>>, a, Beyond("RevertEmpty", a), H)
      BY <2>2, SMTT(60) DEF RevertEmpty
    <3> HIDE DEF Walk, Beyond
    <3> QED
      BY <3>1, Zenon DEF Carries
  <2>3. Effect(RevertEmpty, "RevertEmpty", n)
    <3> HIDE DEF Suits, Beyond
    <3> QED
      BY <2>2 DEF Effect
  <2> HIDE DEF Fine
  <2> QED
    BY <1>4, <2>1, <2>3 DEF Sound
<1>5. ASSUME x.op = "ReturnWord"
      PROVE  Sound(ReturnWord, x, n)
  <2>1. Fine(ReturnWord, x, n)
    BY <1>5, AllOps DEF ReturnWord
  <2>2. ASSUME NEW a \in Nat, NEW H \in [Nat -> Nat], Suits("ReturnWord", a)
        PROVE  Carries(ReturnWord, a, Beyond("ReturnWord", a), H)
    <3>1. Walk(ReturnWord, <<a, a - 1, a, a + 1, a - 1>>, a, Beyond("ReturnWord", a), H)
      BY <2>2, SMTT(60) DEF ReturnWord
    <3> HIDE DEF Walk, Beyond
    <3> QED
      BY <3>1, Zenon DEF Carries
  <2>3. Effect(ReturnWord, "ReturnWord", n)
    <3> HIDE DEF Suits, Beyond
    <3> QED
      BY <2>2 DEF Effect
  <2> HIDE DEF Fine
  <2> QED
    BY <1>5, <2>1, <2>3 DEF Sound
<1>6. ASSUME x.op = "Unpacked"
      PROVE  Sound(Unpacked, x, n)
  <2>1. Fine(Unpacked, x, n)
    BY <1>6, AllOps DEF Unpacked
  <2>2. ASSUME NEW a \in Nat, NEW H \in [Nat -> Nat], Suits("Unpacked", a)
        PROVE  Carries(Unpacked, a, Beyond("Unpacked", a), H)
    <3>1. Walk(Unpacked, <<a, a + 1, a + 1, a>>, a, Beyond("Unpacked", a), H)
      BY <2>2, SMTT(60) DEF Unpacked
    <3> HIDE DEF Walk, Beyond
    <3> QED
      BY <3>1, Zenon DEF Carries
  <2>3. Effect(Unpacked, "Unpacked", n)
    <3> HIDE DEF Suits, Beyond
    <3> QED
      BY <2>2 DEF Effect
  <2> HIDE DEF Fine
  <2> QED
    BY <1>6, <2>1, <2>3 DEF Sound
<1>7. ASSUME x.op = "ReturnShortString"
      PROVE  Sound(ReturnShortString, x, n)
  <2>1. Fine(ReturnShortString, x, n)
    BY <1>7, AllOps DEF ReturnShortString
  <2>2. ASSUME NEW a \in Nat, NEW H \in [Nat -> Nat], Suits("ReturnShortString", a)
        PROVE  Carries(ReturnShortString, a, Beyond("ReturnShortString", a), H)
    <3>1. Walk(ReturnShortString, <<a, a + 1, a + 2, a + 1, a + 2, a + 1, a, a, a - 1, a, a - 1, a,
            a + 1, a - 1>>, a, Beyond("ReturnShortString", a), H)
      BY <2>2, SMTT(60) DEF ReturnShortString
    <3> HIDE DEF Walk, Beyond
    <3> QED
      BY <3>1, Zenon DEF Carries
  <2>3. Effect(ReturnShortString, "ReturnShortString", n)
    <3> HIDE DEF Suits, Beyond
    <3> QED
      BY <2>2 DEF Effect
  <2> HIDE DEF Fine
  <2> QED
    BY <1>7, <2>1, <2>3 DEF Sound
<1>8. ASSUME x.op = "MappingSlotFromStack"
      PROVE  Sound(MappingSlotFromStack, x, n)
  <2>1. Fine(MappingSlotFromStack, x, n)
    BY <1>8, AllOps DEF MappingSlotFromStack
  <2>2. ASSUME NEW a \in Nat, NEW H \in [Nat -> Nat], Suits("MappingSlotFromStack", a)
        PROVE  Carries(MappingSlotFromStack, a, Beyond("MappingSlotFromStack", a), H)
    <3>1. Walk(MappingSlotFromStack, <<a, a - 1, a - 2, a - 1, a, a - 1>>,
            a, Beyond("MappingSlotFromStack", a), H)
      BY <2>2, SMTT(60) DEF MappingSlotFromStack
    <3> HIDE DEF Walk, Beyond
    <3> QED
      BY <3>1, Zenon DEF Carries
  <2>3. Effect(MappingSlotFromStack, "MappingSlotFromStack", n)
    <3> HIDE DEF Suits, Beyond
    <3> QED
      BY <2>2 DEF Effect
  <2> HIDE DEF Fine
  <2> QED
    BY <1>8, <2>1, <2>3 DEF Sound
<1>9. ASSUME x.op = "ArrayElemSlot"
      PROVE  Sound(ArrayElemSlot, x, n)
  <2>1. Fine(ArrayElemSlot, x, n)
    BY <1>9, AllOps DEF ArrayElemSlot
  <2>2. ASSUME NEW a \in Nat, NEW H \in [Nat -> Nat], Suits("ArrayElemSlot", a)
        PROVE  Carries(ArrayElemSlot, a, Beyond("ArrayElemSlot", a), H)
    <3>1. Walk(ArrayElemSlot, <<a, a + 1, a, a + 1, a + 2, a + 1, a>>,
            a, Beyond("ArrayElemSlot", a), H)
      BY <2>2, SMTT(60) DEF ArrayElemSlot
    <3> HIDE DEF Walk, Beyond
    <3> QED
      BY <3>1, Zenon DEF Carries
  <2>3. Effect(ArrayElemSlot, "ArrayElemSlot", n)
    <3> HIDE DEF Suits, Beyond
    <3> QED
      BY <2>2 DEF Effect
  <2> HIDE DEF Fine
  <2> QED
    BY <1>9, <2>1, <2>3 DEF Sound
<1>10. ASSUME x.op = "ArrayElemSlotFromStack"
       PROVE  Sound(ArrayElemSlotFromStack, x, n)
  <2>1. Fine(ArrayElemSlotFromStack, x, n)
    BY <1>10, AllOps DEF ArrayElemSlotFromStack
  <2>2. ASSUME NEW a \in Nat, NEW H \in [Nat -> Nat], Suits("ArrayElemSlotFromStack", a)
        PROVE  Carries(ArrayElemSlotFromStack, a, Beyond("ArrayElemSlotFromStack", a), H)
    <3>1. Walk(ArrayElemSlotFromStack, <<a, a, a - 1, a, a + 1, a, a - 1>>,
            a, Beyond("ArrayElemSlotFromStack", a), H)
      BY <2>2, SMTT(60) DEF ArrayElemSlotFromStack
    <3> HIDE DEF Walk, Beyond
    <3> QED
      BY <3>1, Zenon DEF Carries
  <2>3. Effect(ArrayElemSlotFromStack, "ArrayElemSlotFromStack", n)
    <3> HIDE DEF Suits, Beyond
    <3> QED
      BY <2>2 DEF Effect
  <2> HIDE DEF Fine
  <2> QED
    BY <1>10, <2>1, <2>3 DEF Sound
<1>11. ASSUME x.op = "CopyWord"
       PROVE  Sound(CopyWord, x, n)
  <2>1. Fine(CopyWord, x, n)
    BY <1>11, AllOps DEF CopyWord
  <2>2. ASSUME NEW a \in Nat, NEW H \in [Nat -> Nat], Suits("CopyWord", a)
        PROVE  Carries(CopyWord, a, Beyond("CopyWord", a), H)
    <3>1. Walk(CopyWord, <<a, a + 1, a + 2, a + 3, a + 2, a + 3, a>>, a, Beyond("CopyWord", a), H)
      BY <2>2, SMTT(60) DEF CopyWord
    <3> HIDE DEF Walk, Beyond
    <3> QED
      BY <3>1, Zenon DEF Carries
  <2>3. Effect(CopyWord, "CopyWord", n)
    <3> HIDE DEF Suits, Beyond
    <3> QED
      BY <2>2 DEF Effect
  <2> HIDE DEF Fine
  <2> QED
    BY <1>11, <2>1, <2>3 DEF Sound
<1> HIDE DEF Items
<1> QED
  BY <1>1, <1>2, <1>3, <1>4, <1>5, <1>6, <1>7, <1>8, <1>9, <1>10, <1>11 DEF Snippets

----------------------------------------------------------------------------
(* The dispatcher, and the units of a compilation.                         *)

\* One function more, or no more: the selector stays, and a function is entered
\* with nothing else on the stack.
LEMMA ArmsSound ==
  ASSUME NEW x \in Items, x.op = "Arms", NEW n \in Nat \ {0}
  PROVE  /\ Sound(<<>>, x, n) /\ Sound(Arm(n), x, n)
         /\ \A H \in [Nat -> Nat] : H[n] = 1 => Carries(Arm(n), 1, 1, H)
<1>1. Fine(<<>>, x, n)
  OBVIOUS
<1>2. ASSUME NEW H \in [Nat -> Nat]
      PROVE  Carries(<<>>, 1, 1, H)
  <2>1. Walk(<<>>, <<1>>, 1, 1, H)
    OBVIOUS
  <2> QED
    BY <2>1, Zenon DEF Carries
<1>3. Fine(Arm(n), x, n)
  <2>1. Arm(n) \in Seq(Items)
    BY AllOps DEF Arm
  <2>2. \A k \in DOMAIN Arm(n) : Arm(n)[k].of \in {0, n} /\ Rebinds(Arm(n)[k]) \subseteq {"entry"}
    BY DEF Arm
  <2>3. Own(Arm(n))
    <3>1. Bound(Arm(n), 5, 1)
      BY DEF Bound, Arm
    <3> QED
      BY <3>1 DEF Arm
  <2> QED
    BY <2>1, <2>2, <2>3 DEF Arm
<1>4. ASSUME NEW H \in [Nat -> Nat], H[n] = 1
      PROVE  Carries(Arm(n), 1, 1, H)
  <2> DEFINE code == Arm(n)
             es == <<1, 1, 2, 3, 2, 1, 1>>
             Fit(k) == Fits(code[k], es[k], es[k + 1], H)
  <2>1. Len(code) = 6 /\ es \in [1 .. 7 -> Nat] /\ es[1] = 1 /\ es[7] = 1
    BY DEF Arm
  <2>2. Fit(1) /\ Fit(2) /\ Fit(3) /\ Fit(4) /\ Fit(5) /\ Fit(6)
    BY <1>4 DEF Arm
  <2> HIDE DEF Fit, code, es, Fits
  <2>3. \A k \in 1 .. 6 : Fit(k)
    BY <2>2
  <2>4. Walk(code, es, 1, 1, H)
    BY <2>1, <2>3 DEF Fit
  <2> HIDE DEF Walk
  <2> QED
    BY <2>4, Zenon DEF Carries, code
<1>5. Effect(<<>>, "Arms", n) /\ Effect(Arm(n), "Arms", n)
  <2>1. \A a \in Nat : Suits("Arms", a) => a = 1 /\ Beyond("Arms", a) = 1
    OBVIOUS
  <2>2. 1 \in Nat
    OBVIOUS
  <2> HIDE DEF Suits, Beyond
  <2>3. ASSUME NEW a \in Nat, Suits("Arms", a)
        PROVE  \A H \in [Nat -> Nat] : H[n] = 1 =>
                 Carries(<<>>, a, Beyond("Arms", a), H) /\ Carries(Arm(n), a, Beyond("Arms", a), H)
    <3>1. a = 1 /\ Beyond("Arms", a) = 1
      BY <2>1, <2>3
    <3> QED
      BY <3>1, <1>2, <1>4
  <2> QED
    BY <2>2, <2>3 DEF Effect
<1> HIDE DEF Fine
<1> QED
  BY <1>1, <1>3, <1>4, <1>5 DEF Sound

\* A unit of the compilation, begun at height a and to end at height c with the
\* labels at the heights H, and followed by nothing.
Unit(code, a, c, H) ==
  /\ code # <<>> /\ code[Len(code)].op \in Enders
  /\ Carries(code, a, c, H)

\* The code that decides which function is called.
LEMMA DispatcherSound ==
  /\ Dispatcher \in Seq(Items)
  /\ \A k \in DOMAIN Dispatcher : Dispatcher[k].op \notin Mentions /\ Dispatcher[k].of = 0
  /\ \A H \in [Nat -> Nat] : Unit(Dispatcher, 0, 1, H)
<1>1. Dispatcher \in Seq(Items)
  BY AllOps DEF Dispatcher
<1>2. \A k \in DOMAIN Dispatcher : Dispatcher[k].op \notin Mentions /\ Dispatcher[k].of = 0
  BY DEF Dispatcher
<1>3. Dispatcher # <<>> /\ Dispatcher[Len(Dispatcher)].op \in Enders
  BY DEF Dispatcher
<1>4. ASSUME NEW H \in [Nat -> Nat]
      PROVE  Carries(Dispatcher, 0, 1, H)
  <2> DEFINE code == Dispatcher
             es == <<0, 1, 1, 2, 1, 1, 1>>
             Fit(k) == Fits(code[k], es[k], es[k + 1], H)
  <2>1. Len(code) = 6 /\ es \in [1 .. 7 -> Nat] /\ es[1] = 0 /\ es[7] = 1
    BY DEF Dispatcher
  <2>2. Fit(1) /\ Fit(2) /\ Fit(3) /\ Fit(4) /\ Fit(5) /\ Fit(6)
    BY DEF Dispatcher
  <2> HIDE DEF Fit, code, es, Fits
  <2>3. \A k \in 1 .. 6 : Fit(k)
    BY <2>2
  <2>4. Walk(code, es, 0, 1, H)
    BY <2>1, <2>3 DEF Fit
  <2> HIDE DEF Walk
  <2> QED
    BY <2>4, Zenon DEF Carries, code
<1> QED
  BY <1>1, <1>2, <1>3, <1>4 DEF Unit

\* The constructor: its arguments, its statements, and the runtime as its result.
LEMMA ConstructorSound ==
  /\ LowerConstructor \in Seq(Items)
  /\ \A k \in DOMAIN LowerConstructor :
       LowerConstructor[k].op \notin Mentions /\ LowerConstructor[k].of = 0
  /\ \A H \in [Nat -> Nat] : Unit(LowerConstructor, 0, 0, H)
<1>1. LowerConstructor \in Seq(Items)
  BY AllOps DEF LowerConstructor
<1>2. \A k \in DOMAIN LowerConstructor :
        LowerConstructor[k].op \notin Mentions /\ LowerConstructor[k].of = 0
  BY DEF LowerConstructor
<1>3. LowerConstructor # <<>> /\ LowerConstructor[Len(LowerConstructor)].op \in Enders
  BY DEF LowerConstructor
<1>4. ASSUME NEW H \in [Nat -> Nat]
      PROVE  Carries(LowerConstructor, 0, 0, H)
  <2> DEFINE code == LowerConstructor
             es == <<0, 0, 0, 1, 2, 3, 0, 1, 2, 0>>
             Fit(k) == Fits(code[k], es[k], es[k + 1], H)
  <2>1. Len(code) = 9 /\ es \in [1 .. 10 -> Nat] /\ es[1] = 0 /\ es[10] = 0
    BY DEF LowerConstructor
  <2>2. Fit(1) /\ Fit(2) /\ Fit(3) /\ Fit(4) /\ Fit(5)
    BY DEF LowerConstructor
  <2>3. Fit(6) /\ Fit(7) /\ Fit(8) /\ Fit(9)
    BY DEF LowerConstructor
  <2> HIDE DEF Fit, code, es, Fits
  <2>4. \A k \in 1 .. 9 : Fit(k)
    BY <2>2, <2>3
  <2>5. Walk(code, es, 0, 0, H)
    BY <2>1, <2>4 DEF Fit
  <2> HIDE DEF Walk
  <2> QED
    BY <2>5, Zenon DEF Carries, code
<1> QED
  BY <1>1, <1>2, <1>3, <1>4 DEF Unit

\* A function: the selector goes, and nothing is left.
LEMMA EntrySound ==
  ASSUME NEW n \in Nat \ {0}
  PROVE  /\ Body(n) \in Seq(Items)
         /\ Body(n) = <<Label("JUMPDEST", n, "entry"), Op("POP"), Op("Body")>>
         /\ \A H \in [Nat -> Nat] : H[n] = 1 => Unit(Body(n), 1, 0, H)
<1>1. Body(n) \in Seq(Items)
  BY AllOps DEF Body
<1>2. Body(n) # <<>> /\ Body(n)[Len(Body(n))].op \in Enders
  BY DEF Body
<1>3. ASSUME NEW H \in [Nat -> Nat], H[n] = 1
      PROVE  Carries(Body(n), 1, 0, H)
  <2> DEFINE code == Body(n)
             es == <<1, 1, 0, 0>>
             Fit(k) == Fits(code[k], es[k], es[k + 1], H)
  <2>1. Len(code) = 3 /\ es \in [1 .. 4 -> Nat] /\ es[1] = 1 /\ es[4] = 0
    BY DEF Body
  <2>2. Fit(1) /\ Fit(2) /\ Fit(3)
    BY <1>3 DEF Body
  <2> HIDE DEF Fit, code, es, Fits
  <2>3. \A k \in 1 .. 3 : Fit(k)
    BY <2>2
  <2>4. Walk(code, es, 1, 0, H)
    BY <2>1, <2>3 DEF Fit
  <2> HIDE DEF Walk
  <2> QED
    BY <2>4, Zenon DEF Carries, code
<1> QED
  BY <1>1, <1>2, <1>3 DEF Unit, Body

----------------------------------------------------------------------------
(* Where labels are placed.                                                *)

Plain(code) == \A k \in DOMAIN code : code[k].op \notin Mentions

\* Of the labels of the n-th replacement, code places each at most once, and
\* those that it jumps to.
Places(code, n) ==
  /\ \A k \in DOMAIN code : code[k].op \in Mentions => code[k].of = n
  /\ \A j, k \in DOMAIN code :
       code[j].op = "JUMPDEST" /\ code[k].op = "JUMPDEST" /\ code[j].name = code[k].name => j = k
  /\ \A j \in DOMAIN code : code[j].op \in Mentions =>
       \E k \in DOMAIN code : code[k].op = "JUMPDEST" /\ code[k].name = code[j].name

\* Most templates need no label of their own.
LEMMA NoLabels ==
  /\ \A b \in BOOLEAN :
       /\ \A code \in LowerPlace(b) : Plain(code)
       /\ \A code \in LowerExpr(b) : Plain(code)
       /\ \A code \in LowerFields(b) : Plain(code)
       /\ \A code \in LowerStored(b) : Plain(code)
       /\ \A code \in LowerStmt(b) : Plain(code)
       /\ \A code \in LowerStmts(b) : Plain(code)
       /\ \A code \in LowerInternalVoid(b) : Plain(code)
       /\ \A code \in LowerInternalCall(b) : Plain(code)
       /\ \A code \in LowerExternalCall(b) : Plain(code)
  /\ \A code \in LowerBlock : Plain(code)
  /\ \A code \in LowerReturn : Plain(code)
  /\ \A code \in LowerParams : Plain(code)
  /\ \A code \in LowerArgs : Plain(code)
  /\ \A op \in DOMAIN Snippets : Plain(Snippets[op])
<1> USE DEF Plain
<1>1. ASSUME NEW b \in BOOLEAN
      PROVE  /\ \A code \in LowerPlace(b) : Plain(code)
             /\ \A code \in LowerExpr(b) : Plain(code)
             /\ \A code \in LowerFields(b) : Plain(code)
             /\ \A code \in LowerStored(b) : Plain(code)
             /\ \A code \in LowerStmt(b) : Plain(code)
             /\ \A code \in LowerStmts(b) : Plain(code)
             /\ \A code \in LowerInternalVoid(b) : Plain(code)
             /\ \A code \in LowerInternalCall(b) : Plain(code)
             /\ \A code \in LowerExternalCall(b) : Plain(code)
  <2>1. \A code \in LowerPlace(b) : Plain(code)
    BY DEF LowerPlace
  <2>2. \A code \in LowerExpr(b) : Plain(code)
    BY DEF LowerExpr
  <2>3. \A code \in LowerFields(b) : Plain(code)
    BY DEF LowerFields
  <2>4. \A code \in LowerStored(b) : Plain(code)
    BY DEF LowerStored
  <2>5. \A code \in LowerStmt(b) : Plain(code)
    BY DEF LowerStmt
  <2>6. \A code \in LowerStmts(b) : Plain(code)
    BY DEF LowerStmts
  <2>7. \A code \in LowerInternalVoid(b) : Plain(code)
    BY DEF LowerInternalVoid
  <2>8. \A code \in LowerInternalCall(b) : Plain(code)
    BY DEF LowerInternalCall, LowerInternalVoid
  <2>9. \A code \in LowerExternalCall(b) : Plain(code)
    BY DEF LowerExternalCall
  <2> HIDE DEF Plain
  <2> QED
    BY <2>1, <2>2, <2>3, <2>4, <2>5, <2>6, <2>7, <2>8, <2>9
<1>2. \A code \in LowerBlock : Plain(code)
  BY DEF LowerBlock
<1>3. \A code \in LowerReturn : Plain(code)
  BY DEF LowerReturn
<1>4. \A code \in LowerParams : Plain(code)
  BY DEF LowerParams
<1>5. \A code \in LowerArgs : Plain(code)
  BY DEF LowerArgs
<1>6. \A op \in DOMAIN Snippets : Plain(Snippets[op])
  <2>1. /\ Plain(LoadSlot) /\ Plain(StoreSlot) /\ Plain(StoreLocal) /\ Plain(RevertEmpty)
        /\ Plain(ReturnWord) /\ Plain(Unpacked)
    BY DEF LoadSlot, StoreSlot, StoreLocal, RevertEmpty, ReturnWord, Unpacked
  <2>2. Plain(ReturnShortString)
    BY DEF ReturnShortString
  <2>3. /\ Plain(MappingSlotFromStack) /\ Plain(ArrayElemSlot) /\ Plain(ArrayElemSlotFromStack)
        /\ Plain(CopyWord)
    BY DEF MappingSlotFromStack, ArrayElemSlot, ArrayElemSlotFromStack, CopyWord
  <2> HIDE DEF Plain
  <2> QED
    BY <2>1, <2>2, <2>3 DEF Snippets
<1> HIDE DEF Plain
<1> QED
  BY <1>1, <1>2, <1>3, <1>4, <1>5, <1>6

\* The others place the labels that they allocate.
LEMMA OwnPlaces ==
  ASSUME NEW n \in Nat \ {0}
  PROVE  /\ Places(LowerWhile(n), n) /\ Places(Checked(n), n)
         /\ Places(IfThen(n), n) /\ Places(IfElse(n), n) /\ Places(Require(n), n)
         /\ Places(DecodeShortStringParam(n), n) /\ Places(DecodeShortStringConstructorArg(n), n)
<1>1. Places(LowerWhile(n), n)
  BY DEF Places, LowerWhile
<1>2. Places(Checked(n), n)
  BY DEF Places, Checked
<1>3. Places(IfThen(n), n)
  BY DEF Places, IfThen
<1>4. Places(IfElse(n), n)
  BY DEF Places, IfElse
<1>5. Places(Require(n), n)
  BY DEF Places, Require
<1>6. Places(DecodeShortStringParam(n), n)
  <2> DEFINE code == DecodeShortStringParam(n)
  <2>1. \A k \in DOMAIN code : code[k].op \in Mentions => k \in {11, 13}
    BY SMTT(30) DEF DecodeShortStringParam
  <2>2. /\ 11 \in DOMAIN code /\ 13 \in DOMAIN code
        /\ code[11] = Label("JUMPI", n, "ok") /\ code[13] = Label("JUMPDEST", n, "ok")
    BY DEF DecodeShortStringParam
  <2> HIDE DEF code
  <2> QED
    BY <2>1, <2>2 DEF Places, code
<1>7. Places(DecodeShortStringConstructorArg(n), n)
  <2> DEFINE code == DecodeShortStringConstructorArg(n)
  <2>1. \A k \in DOMAIN code : code[k].op \in Mentions => k \in {9, 11}
    BY DEF DecodeShortStringConstructorArg
  <2>2. /\ 9 \in DOMAIN code /\ 11 \in DOMAIN code
        /\ code[9] = Label("JUMPI", n, "ok") /\ code[11] = Label("JUMPDEST", n, "ok")
    BY DEF DecodeShortStringConstructorArg
  <2> HIDE DEF code
  <2> QED
    BY <2>1, <2>2 DEF Places, code
<1> QED
  BY <1>1, <1>2, <1>3, <1>4, <1>5, <1>6, <1>7

==============================================================================
