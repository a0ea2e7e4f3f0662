------------------------------ MODULE Templates ------------------------------
(***************************************************************************)
(* The compiler for every program at once.  The lower_* functions of       *)
(* src/macro/src/lower.rs and the functions of src/src/builder.rs are      *)
(* templates: instructions, and places for other templates.  Here an item  *)
(* is one or the other, code is a sequence of items, and a step emits the  *)
(* next instruction or replaces the next template by one of the codes it   *)
(* may stand for; which one is the program's choice, so the behaviours are *)
(* the ways to compile any contract, call inlining included.               *)
(*                                                                         *)
(* Kept of each instruction is how many words it takes off the stack and   *)
(* how many it leaves, and of a label the Rust variable that holds it.     *)
(* Where a template has a choice of instructions with one stack effect     *)
(* they share a name: LOAD is MLOAD, SLOAD and CALLDATALOAD, BINARY the    *)
(* instructions of lower_binary, ENV those without an operand.             *)
(***************************************************************************)
EXTENDS Integers, Sequences

CONSTANTS
  LoopsInside,  \* do programs have a loop in an if, or in another loop?
  UnitValues,   \* do functions with a result type end without a value?
  MaxSize       \* bound on the choices of a template that needs others

ASSUME TemplatesAssumption ==
  LoopsInside \in BOOLEAN /\ UnitValues \in BOOLEAN /\ MaxSize \in Nat

\* The variables that hold labels, and the items that mention one.
Names == {"none", "top", "end", "else_l", "ok", "lab", "entry"}
Mentions == {"JUMP", "JUMPI", "JUMPDEST"}

\* An item.  inside says of a template that it is used between the allocation
\* of a label of an if or a loop and its last mention.  A label is of the
\* template that was the of-th to be replaced, and held by the variable name.
Template(op, inside) == [op |-> op, inside |-> inside, of |-> 0, name |-> "none"]
Op(op) == Template(op, FALSE)
Label(op, of, name) == [op |-> op, inside |-> FALSE, of |-> of, name |-> name]

----------------------------------------------------------------------------
(* What an item takes from the stack and what it leaves there.             *)

Takes(op) ==
  IF op \in {"POP", "LOAD", "MLOAD", "ISZERO", "NOT", "DUP1", "JUMPI", "StoreLocal", "StoreSlot",
             "ArrayElemSlot", "Unpacked", "ReturnWord", "ReturnShortString",
             "Checked", "Require", "IfThen", "IfElse", "Arms"} THEN 1
  ELSE IF op \in {"MSTORE", "SSTORE", "BINARY", "KECCAK256", "SWAP1", "RETURN", "REVERT",
                  "MappingSlotFromStack", "ArrayElemSlotFromStack"} THEN 2
  ELSE IF op \in {"CODECOPY", "LOG1"} THEN 3
  ELSE IF op = "STATICCALL" THEN 6 ELSE IF op = "CALL" THEN 7 ELSE 0

Leaves(op) ==
  IF op \in {"PUSH", "ENV", "LOAD", "MLOAD", "ISZERO", "NOT", "BINARY", "KECCAK256", "CALL",
             "STATICCALL", "Expr", "Place", "InternalCall", "LoadSlot", "MappingSlotFromStack",
             "ArrayElemSlot", "ArrayElemSlotFromStack", "Unpacked", "Arms"} THEN 1
  ELSE IF op \in {"DUP1", "SWAP1"} THEN 2 ELSE 0

\* Instructions after which execution does not go on with the next one.
Final == {"STOP", "RETURN", "REVERT", "JUMP"}
Instructions ==
  {"PUSH", "ENV", "LOAD", "MLOAD", "ISZERO", "NOT", "BINARY", "KECCAK256", "CALL", "STATICCALL",
   "DUP1", "SWAP1", "POP", "MSTORE", "SSTORE", "CODECOPY", "LOG1", "STOP", "RETURN", "REVERT"}

----------------------------------------------------------------------------
(* src/src/builder.rs                                                      *)

Push == Op("PUSH")
LoadSlot == <<Push, Op("LOAD")>>
StoreSlot == <<Push, Op("SSTORE")>>
StoreLocal == <<Push, Op("MSTORE")>>
RevertEmpty == <<Push, Push, Op("REVERT")>>
ReturnWord == <<Op("StoreLocal"), Push, Push, Op("RETURN")>>
Unpacked == <<Push, Op("NOT"), Op("BINARY")>>
ReturnShortString ==
  <<Op("DUP1"), Push, Op("BINARY"), Push, Op("BINARY"), Op("StoreLocal"), Op("Unpacked"),
    Op("StoreLocal"), Push, Op("StoreLocal"), Push, Push, Op("RETURN")>>
MappingSlotFromStack == <<Op("StoreLocal"), Op("StoreLocal"), Push, Push, Op("KECCAK256")>>
ArrayElemSlot == <<Push, Op("StoreLocal"), Push, Push, Op("KECCAK256"), Op("BINARY")>>
ArrayElemSlotFromStack ==
  <<Op("SWAP1"), Op("StoreLocal"), Push, Push, Op("KECCAK256"), Op("BINARY")>>
CopyWord == <<Push, Push, Op("ENV"), Op("BINARY"), Push, Op("CODECOPY")>>

\* Both revert unless the length is below 32.
DecodeShortStringParam(n) ==
  <<Label("LET", n, "ok"), Push, Op("LOAD"), Push, Op("BINARY"), Op("DUP1"), Op("LOAD"),
    Op("DUP1"), Push, Op("BINARY"), Label("JUMPI", n, "ok"), Op("RevertEmpty"),
    Label("JUMPDEST", n, "ok"), Op("SWAP1"), Push, Op("BINARY"), Op("LOAD"), Op("Unpacked"),
    Op("SWAP1"), Push, Op("BINARY"), Op("BINARY"), Op("StoreLocal")>>
DecodeShortStringConstructorArg(n) ==
  <<Label("LET", n, "ok"), Op("CopyWord"), Op("CopyWord"), Push, Op("MLOAD"),
    Op("DUP1"), Push, Op("BINARY"), Label("JUMPI", n, "ok"), Op("RevertEmpty"),
    Label("JUMPDEST", n, "ok"), Push, Op("BINARY"), Push, Op("MLOAD"), Op("Unpacked"), Op("BINARY"),
    Op("StoreLocal")>>

\* The builder functions that neither allocate a label nor have a choice.
Snippets ==
  [LoadSlot |-> LoadSlot, StoreSlot |-> StoreSlot, StoreLocal |-> StoreLocal,
   RevertEmpty |-> RevertEmpty, ReturnWord |-> ReturnWord, Unpacked |-> Unpacked,
   ReturnShortString |-> ReturnShortString, MappingSlotFromStack |-> MappingSlotFromStack,
   ArrayElemSlot |-> ArrayElemSlot, ArrayElemSlotFromStack |-> ArrayElemSlotFromStack,
   CopyWord |-> CopyWord]

----------------------------------------------------------------------------
(* src/macro/src/lower.rs: the codes a template may stand for.  b is its   *)
(* inside, and n the number of the replacement.                            *)

Expr(b) == Template("Expr", b)
Stmts(b) == Template("Stmts", b)
Stored(b) == Template("Stored", b)      \* values, each stored when it is computed

LowerPlace(b) ==
  {<<Push>>} \cup {<<Template("Place", b), Expr(b), Op(slot)>> :
                     slot \in {"MappingSlotFromStack", "ArrayElemSlotFromStack"}}

\* ok is allocated without braces.
Checked(n) ==
  <<Label("LET", n, "ok"), Label("JUMPI", n, "ok"), Op("RevertEmpty"), Label("JUMPDEST", n, "ok")>>

\* CALL takes a value and STATICCALL does not.
LowerExternalCall(b) ==
  {<<Push, Op("StoreLocal"), Stored(b), Push, Push, Push, Push, Push, Expr(b), Op("ENV"), Op("CALL"),
     Op("Checked")>>,
   <<Push, Op("StoreLocal"), Stored(b), Push, Push, Push, Push, Expr(b), Op("ENV"), Op("STATICCALL"),
     Op("Checked")>>}

\* The arguments, then the body.
LowerInternalVoid(b) == {<<Stored(b), Stmts(b)>>}
LowerInternalCall(b) ==
  {<<Stored(b), Stmts(b), Expr(b)>>} \cup (IF UnitValues THEN LowerInternalVoid(b) ELSE {})

LowerExpr(b) ==
  {<<Push>>, <<Op("ENV")>>, <<Push, Op("LOAD")>>, <<Op("LoadSlot")>>,
   <<Template("Place", b), Op("LOAD")>>,
   <<Expr(b), Expr(b), Op("BINARY")>>, <<Expr(b), Expr(b), Op("BINARY"), Op("ISZERO")>>,
   <<Template("InternalCall", b)>>, <<Template("ExternalCall", b), Push, Op("MLOAD")>>}
    \cup (IF UnitValues THEN {<<Template("InternalVoid", b)>>, <<Template("ExternalCall", b)>>} ELSE {})

\* The fields of an event are computed one after another, then stored.
LowerFields(b) == {<<>>, <<Expr(b), Template("Fields", b), Op("StoreLocal")>>}

LowerStmt(b) ==
  {<<Expr(b), Op("StoreLocal")>>, <<Expr(b), Op("StoreSlot")>>,
   <<Expr(b), Template("Place", b), Expr(b), Op("MappingSlotFromStack"), Op("SSTORE")>>,
   <<Expr(b), Expr(b), Op("ArrayElemSlot"), Op("SSTORE")>>,
   <<Expr(b), Op("LoadSlot"), Op("ArrayElemSlot"), Op("SSTORE"),
     Op("LoadSlot"), Push, Op("BINARY"), Op("StoreSlot")>>,
   <<Expr(b), Op("Require")>>,
   <<Template("Fields", b), Push, Push, Push, Op("LOG1")>>,
   <<Expr(b), Op("IfThen")>>, <<Expr(b), Op("IfElse")>>,
   <<Template("InternalVoid", b)>>, <<Template("InternalCall", b), Op("POP")>>,
   <<Template("ExternalCall", b)>>}
    \cup (IF b /\ ~LoopsInside THEN {} ELSE {<<Template("While", b)>>})

LowerStmts(b) == {<<>>, <<Template("Stmt", b), Stmts(b)>>}
LowerStored(b) == {<<>>, <<Expr(b), Op("StoreLocal"), Stored(b)>>}

\* No braces: top and end stay in scope in the code that follows.  Mutant: the
\* exit is placed as the entry.
LowerWhileTwice(n) ==
  <<Label("LET", n, "top"), Label("LET", n, "end"), Label("JUMPDEST", n, "top"), Expr(TRUE),
    Op("ISZERO"), Label("JUMPI", n, "end"), Stmts(TRUE), Label("JUMP", n, "top"),
    Label("JUMPDEST", n, "top")>>
LowerWhile(n) ==
  <<Label("LET", n, "top"), Label("LET", n, "end"), Label("JUMPDEST", n, "top"), Expr(TRUE),
    Op("ISZERO"), Label("JUMPI", n, "end"), Stmts(TRUE), Label("JUMP", n, "top"),
    Label("JUMPDEST", n, "end")>>

\* What lower_if and lower_require put in braces.
IfThen(n) ==
  <<Label("LET", n, "end"), Op("ISZERO"), Label("JUMPI", n, "end"), Stmts(TRUE),
    Label("JUMPDEST", n, "end")>>
IfElse(n) ==
  <<Label("LET", n, "else_l"), Label("LET", n, "end"), Op("ISZERO"), Label("JUMPI", n, "else_l"),
    Stmts(TRUE), Label("JUMP", n, "end"), Label("JUMPDEST", n, "else_l"), Stmts(TRUE),
    Label("JUMPDEST", n, "end")>>
Require(n) ==
  <<Label("LET", n, "lab"), Label("JUMPI", n, "lab"), Op("RevertEmpty"),
    Label("JUMPDEST", n, "lab")>>

\* A word, a string, a tuple.
LowerReturn ==
  {<<Stmts(FALSE), Expr(FALSE), Op("ReturnWord")>>,
   <<Stmts(FALSE), Expr(FALSE), Op("ReturnShortString")>>,
   <<Stmts(FALSE), Stored(FALSE), Push, Push, Op("RETURN")>>}
    \cup (IF UnitValues THEN {<<Stmts(FALSE)>>} ELSE {})

LowerParams == {<<>>, <<Op("DecodeParam"), Op("Params")>>}
\* Mutant: no STOP.
LowerBlockOpen == {<<Op("Params"), Op("Return")>>, <<Op("Params"), Stmts(FALSE)>>}
LowerBlock == {<<Op("Params"), Op("Return")>>, <<Op("Params"), Stmts(FALSE), Op("STOP")>>}
LowerArgs == {<<>>, <<Op("CopyWord"), Op("Args")>>, <<Op("DecodeArg"), Op("Args")>>}

\* lower_constructor, and what wrap_with_constructor puts behind it.
LowerConstructor ==
  <<Op("Args"), Stmts(FALSE), Push, Push, Push, Op("CODECOPY"), Push, Push, Op("RETURN")>>

\* build_runtime: the comparison with one function's selector.
Dispatcher == <<Push, Op("LOAD"), Push, Op("BINARY"), Op("Arms"), Op("RevertEmpty")>>
\* Mutant: each comparison takes the selector off the stack.
ArmSpent(n) ==
  <<Label("LET", n, "entry"), Push, Op("BINARY"), Label("JUMPI", n, "entry"), Op("Arms")>>
Arm(n) ==
  <<Label("LET", n, "entry"), Op("DUP1"), Push, Op("BINARY"), Label("JUMPI", n, "entry"), Op("Arms")>>
\* A function's entry drops the selector.  Mutant: it does not.
BodyKept(n) == <<Label("JUMPDEST", n, "entry"), Op("Body")>>
Body(n) == <<Label("JUMPDEST", n, "entry"), Op("POP"), Op("Body")>>

----------------------------------------------------------------------------
VARIABLES
  blocks,     \* the Rust blocks that are open, the innermost last: scope is what
              \* its label variables hold, code is what is left of it, and exit
              \* the height of the stack that the code behind it expects
  height,     \* words on the stack after what has been emitted
  live,       \* does execution come past here, not only by a jump?
  at,         \* label -> height of the stack where it was first mentioned
  placed,     \* labels that have been placed
  entries,    \* labels of the functions that are yet to be built
  replaced,   \* templates replaced so far
  size        \* of them, how many were replaced by code that needs others

vars == <<blocks, height, live, at, placed, entries, replaced, size>>

Block(scope, code, exit) == [scope |-> scope, code |-> code, exit |-> exit]
Unbound == [name \in Names |-> 0]

\* The runtime, or the constructor.
Init ==
  /\ \E unit \in {Block(Unbound, Dispatcher, 1), Block(Unbound, LowerConstructor, 0)} :
       blocks = <<unit>>
  /\ height = 0 /\ live = TRUE
  /\ at = <<>> /\ placed = {}
  /\ entries = <<>>
  /\ replaced = 0 /\ size = 0

Top == blocks[Len(blocks)]
Busy == blocks # <<>> /\ Top.code # <<>>
Item == Head(Top.code)
Continue(code) == [blocks EXCEPT ![Len(blocks)].code = code]
Rest == Tail(Top.code)

After(op) == height - Takes(op) + Leaves(op)

Emit ==
  /\ Busy /\ Item.op \in Instructions
  /\ height' = After(Item.op)
  /\ live' = (live /\ Item.op \notin Final)
  /\ blocks' = Continue(Rest)
  /\ UNCHANGED <<at, placed, entries, replaced, size>>

\* let name = asm.fresh_label();
Let ==
  /\ Busy /\ Item.op = "LET"
  /\ blocks' = [Continue(Rest) EXCEPT ![Len(blocks)].scope[Item.name] = Item.of]
  /\ UNCHANGED <<height, live, at, placed, entries, replaced, size>>

\* The label a mention stands for: what the variable holds.
Meant == <<Top.scope[Item.name], Item.name>>
Noted(h) ==
  IF Meant \in DOMAIN at THEN at
  ELSE [l \in DOMAIN at \cup {Meant} |-> IF l = Meant THEN h ELSE at[l]]

Jump ==
  /\ Busy /\ Item.op \in {"JUMP", "JUMPI"}
  /\ height' = After(Item.op)
  /\ live' = (live /\ Item.op = "JUMPI")
  /\ at' = Noted(height')
  /\ blocks' = Continue(Rest)
  /\ UNCHANGED <<placed, entries, replaced, size>>

\* The height that the next item meets: at a label that only jumps lead to, the
\* one that these leave.
Before ==
  IF Busy /\ Item.op = "JUMPDEST" /\ ~live /\ Meant \in DOMAIN at THEN at[Meant] ELSE height

PlaceLabel ==
  /\ Busy /\ Item.op = "JUMPDEST"
  /\ height' = Before
  /\ live' = TRUE
  /\ at' = Noted(height')
  /\ placed' = placed \cup {Meant}
  /\ blocks' = Continue(Rest)
  /\ UNCHANGED <<entries, replaced, size>>

\* Choices that need others of their kind are bounded.
Growing == {"Expr", "Place", "Stmts", "Stored", "Fields", "Params", "Args", "Arms"}
Replaced(grows) ==
  /\ replaced' = replaced + 1
  /\ grows => size < MaxSize
  /\ size' = IF grows THEN size + 1 ELSE size
  /\ UNCHANGED <<height, live, at, placed>>
Replace(code) ==
  /\ blocks' = Continue(code \o Rest)
  /\ Replaced(\E k \in DOMAIN code : code[k].op \in Growing)
  /\ UNCHANGED entries
\* Code in braces.  Mutant: without them.
OpenBare(code) ==
  /\ blocks' = Continue(code \o Rest)
  /\ Replaced(FALSE)
  /\ UNCHANGED entries
Open(code) ==
  /\ blocks' = Append(Continue(Rest), Block(Top.scope, code, After(Item.op)))
  /\ Replaced(FALSE)
  /\ UNCHANGED entries

New == replaced + 1

Snippet == Busy /\ Item.op \in DOMAIN Snippets /\ Replace(Snippets[Item.op])
Choose(op, codes) == Item.op = op /\ \E code \in codes : Replace(code)

\* The templates of lower.rs that are not put in braces.
Lower ==
  /\ Busy
  /\ \/ Choose("Expr", LowerExpr(Item.inside))
     \/ Choose("Place", LowerPlace(Item.inside))
     \/ Choose("Fields", LowerFields(Item.inside))
     \/ Choose("Stored", LowerStored(Item.inside))
     \/ Choose("Stmt", LowerStmt(Item.inside))
     \/ Choose("Stmts", LowerStmts(Item.inside))
     \/ Choose("InternalCall", LowerInternalCall(Item.inside))
     \/ Choose("InternalVoid", LowerInternalVoid(Item.inside))
     \/ Choose("ExternalCall", LowerExternalCall(Item.inside))
     \/ Choose("Body", LowerBlock)
     \/ Choose("Return", LowerReturn)
     \/ Choose("Params", LowerParams)
     \/ Choose("Args", LowerArgs)
     \/ Choose("While", {LowerWhile(New)})
     \/ Choose("Checked", {Checked(New)})
     \/ Choose("Arms", {<<>>})

\* A block, or a function with its own.
Enter ==
  /\ Busy
  /\ \/ Item.op = "IfThen" /\ Open(IfThen(New))
     \/ Item.op = "IfElse" /\ Open(IfElse(New))
     \/ Item.op = "Require" /\ Open(Require(New))
     \/ Item.op = "DecodeParam" /\ Open(DecodeShortStringParam(New))
     \/ Item.op = "DecodeArg" /\ Open(DecodeShortStringConstructorArg(New))

Close ==
  /\ blocks # <<>> /\ Top.code = <<>>
  /\ blocks' = SubSeq(blocks, 1, Len(blocks) - 1)
  /\ UNCHANGED <<height, live, at, placed, entries, replaced, size>>

\* One function more: its label is kept for when its body is built.
Dispatch ==
  /\ Busy /\ Item.op = "Arms"
  /\ blocks' = Continue(Arm(New) \o Rest)
  /\ entries' = Append(entries, New)
  /\ Replaced(TRUE)

\* The next function's body, entered from the dispatcher with the selector on
\* the stack.
Build ==
  /\ blocks = <<>> /\ entries # <<>>
  /\ blocks' = <<Block([Unbound EXCEPT !["entry"] = Head(entries)], Body(Head(entries)), 0)>>
  /\ entries' = Tail(entries)
  /\ UNCHANGED <<height, live, at, placed, replaced, size>>

Next == Emit \/ Let \/ Jump \/ PlaceLabel \/ Snippet \/ Lower \/ Enter \/ Close \/ Dispatch \/ Build

Spec == Init /\ [][Next]_vars

----------------------------------------------------------------------------
Ops == Instructions \cup Mentions \cup {"LET"} \cup DOMAIN Snippets \cup
  {"Expr", "Place", "Fields", "Stored", "Stmt", "Stmts", "InternalCall", "InternalVoid", "ExternalCall",
   "Body", "Return", "Params", "Args", "While", "Checked", "Arms", "IfThen", "IfElse", "Require", "DecodeParam", "DecodeArg"}
Items == [op : Ops, inside : BOOLEAN, of : Nat, name : Names]

\* A compilation has code that the rules know how to go on with; a label is
\* one that fresh_label has returned wherever one is mentioned, placed or kept
\* for a function; and the stack never holds less than nothing: not after what
\* has been emitted, where a label is mentioned, or at the end of a block.
TypeOK ==
  /\ blocks \in Seq([scope : [Names -> 0 .. replaced], code : Seq(Items), exit : Nat])
  /\ height \in Nat /\ live \in BOOLEAN
  /\ DOMAIN at \subseteq (1 .. replaced) \X Names /\ \A l \in DOMAIN at : at[l] \in Nat
  /\ placed \subseteq (1 .. replaced) \X Names
  /\ entries \in Seq(1 .. replaced)
  /\ replaced \in Nat /\ size \in 0 .. MaxSize

\* Every instruction finds its operands, a label is mentioned at one height of
\* the stack wherever execution comes from, nothing is left on the stack when
\* a transaction ends, and a block leaves the stack as the code behind it
\* expects.
StackSafe ==
  /\ Busy => /\ Takes(Item.op) <= Before
             /\ Item.op \in {"STOP", "RETURN"} => Before = Takes(Item.op)
             /\ Item.op \in Mentions /\ Meant \in DOMAIN at =>
                  at[Meant] = Before - Takes(Item.op)
  /\ blocks # <<>> /\ Top.code = <<>> => height = Top.exit

\* "let lab = asm.fresh_label()": a mention of a label variable is a mention of
\* the label that the same template has allocated.
OwnLabels == Busy /\ Item.op \in Mentions => Top.scope[Item.name] = Item.of

\* "must end in return/stop/revert" (contract.rs:8)
EveryBodyEnds == blocks = <<>> => ~live

\* A label is placed once, and if it is jumped to it is placed in the end.
PlacedOnce ==
  /\ Busy /\ Item.op = "JUMPDEST" => Meant \notin placed
  /\ blocks = <<>> /\ entries = <<>> => DOMAIN at \subseteq placed
=============================================================================
