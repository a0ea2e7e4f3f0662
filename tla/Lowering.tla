------------------------------ MODULE Lowering ------------------------------
(***************************************************************************)
(* The compiler: src/macro/src/lower.rs turns each function of a contract  *)
(* into Rust code that, when it runs, appends ops to an assembler; and     *)
(* build_runtime() of src/src/contract.rs runs it behind a dispatcher.     *)
(*                                                                         *)
(* Both stages are here.  Lower* gives the generated code: the ops it      *)
(* appends, `let name = asm.fresh_label();`, the braces of the Rust blocks *)
(* it consists of, and jumps and destinations that name their label by the *)
(* Rust variable that holds it.  Run executes that code under Rust's       *)
(* scoping rules.                                                          *)
(***************************************************************************)
EXTENDS Evm, Syntax, SequencesExt

Op(name) == [op |-> name, arg |-> 0]
Push(n) == [op |-> "PUSH", arg |-> n]
Ops(names) == [k \in DOMAIN names |-> Op(names[k])]

Fresh(name) == [op |-> "let", arg |-> name]
Jump(name) == [op |-> "JUMP", arg |-> name]
JumpI(name) == [op |-> "JUMPI", arg |-> name]
JumpDest(name) == [op |-> "JUMPDEST", arg |-> name]
Braced(code) == <<Op("{")>> \o code \o <<Op("}")>>
Error == <<Op("compile_error!")>>

----------------------------------------------------------------------------
(* src/src/builder.rs                                                      *)

LoadSlot(slot) == <<Push(slot), Op("SLOAD")>>
StoreSlot(slot) == <<Push(slot), Op("SSTORE")>>
StoreLocal(slot) == <<Push(slot), Op("MSTORE")>>
ReturnWords(n) == <<Push(32 * n), Push(0), Op("RETURN")>>
ReturnWord == StoreLocal(0) \o ReturnWords(1)
RevertEmpty == <<Push(0), Push(0), Op("REVERT")>>

\* push_selector: the selector in the first four bytes of a word.
PushSelector(selector) == <<Push(selector * 2^SelectorShift)>>

LowByte == 255     \* where a packed string has its length, doubled
Unpacked == <<Push(LowByte), Op("NOT"), Op("AND")>>

\* Mutant: the length is returned as it is packed, doubled.
ReturnShortStringDoubled ==
  <<Op("DUP1"), Push(LowByte), Op("AND")>> \o StoreLocal(32) \o Unpacked \o StoreLocal(64)
    \o <<Push(32)>> \o StoreLocal(0) \o ReturnWords(3)

\* [packed] -> returns offset, length, contents
ReturnShortString ==
  <<Op("DUP1"), Push(LowByte), Op("AND"), Push(1), Op("SHR")>> \o StoreLocal(32)
    \o Unpacked \o StoreLocal(64) \o <<Push(32)>> \o StoreLocal(0) \o ReturnWords(3)

\* Leaves [len] as it found it, or reverts: 32 > len.
GuardShort ==
  <<Op("DUP1"), Push(32), Op("GT"), JumpI("ok")>> \o RevertEmpty \o <<JumpDest("ok")>>

\* From the head word of the parameter to the packed string in the local.
DecodeShortStringParam(head, slot) ==
  Braced(<<Fresh("ok"), Push(head), Op("CALLDATALOAD"), Push(4), Op("ADD"), Op("DUP1"),
           Op("CALLDATALOAD")>> \o GuardShort
         \o Ops(<<"SWAP1">>) \o <<Push(32), Op("ADD"), Op("CALLDATALOAD")>> \o Unpacked
         \o Ops(<<"SWAP1">>) \o <<Push(1), Op("SHL"), Op("OR")>> \o StoreLocal(slot))

\* CODECOPY of the word that starts back bytes before the end of the code.
CopyWord(back, to) ==
  <<Push(32), Push(back), Op("CODESIZE"), Op("SUB"), Push(to), Op("CODECOPY")>>

DecodeShortStringConstructorArg(len_back, data_back, slot) ==
  Braced(<<Fresh("ok")>> \o CopyWord(len_back, 0) \o CopyWord(data_back, 32)
         \o <<Push(0), Op("MLOAD")>> \o GuardShort
         \o <<Push(1), Op("SHL"), Push(32), Op("MLOAD")>> \o Unpacked \o Ops(<<"OR">>)
         \o StoreLocal(slot))

\* Mutant: the base is dropped, keccak(key): two mappings share their slots.
MappingSlotKeyOnly == StoreLocal(0) \o <<Op("POP"), Push(32), Push(0), Op("KECCAK256")>>

\* [base, key] -> [keccak(key . base)]
MappingSlotFromStack ==
  StoreLocal(0) \o StoreLocal(32) \o <<Push(64), Push(0), Op("KECCAK256")>>

\* [index] -> [keccak(base) + index]
ArrayElemSlot(base) ==
  <<Push(base)>> \o StoreLocal(0) \o <<Push(32), Push(0), Op("KECCAK256"), Op("ADD")>>

\* [base, index] -> [keccak(base) + index]
ArrayElemSlotFromStack ==
  <<Op("SWAP1")>> \o StoreLocal(0) \o <<Push(32), Push(0), Op("KECCAK256"), Op("ADD")>>

----------------------------------------------------------------------------
(* struct Lower: what is threaded through a function body.                 *)

Lowered(code, st) == [code |-> code, st |-> st]
Rejected(st) == Lowered(Error, st)

\* Mutant: half a word per local.
AllocatedHalf(st) == [st EXCEPT !.next = @ + 16]

\* Lower::alloc_local hands out st.next.
Allocated(st) == [st EXCEPT !.next = @ + 32]

\* Mutant: the selector's word is not counted.
CalldataUncounted(st, nargs) == [st EXCEPT !.next = @ + 32 * nargs]

\* Lower::alloc_calldata hands out st.next: a word for the selector, one for
\* each argument.
CalldataAllocated(st, nargs) == [st EXCEPT !.next = @ + 32 * (1 + nargs)]

\* Mutant: every operator computes left op right from left under right.
LeftFirst == {}

\* Ops of a binary operator, after its operands: the right one is on top, or
\* the left one for the operators of RightFirst.
Mnemonic ==
  [op \in {"+"} |-> <<"ADD">>] @@ [op \in {"*"} |-> <<"MUL">>] @@
  [op \in {"-"} |-> <<"SUB">>] @@ [op \in {"/"} |-> <<"DIV">>] @@
  [op \in {"%"} |-> <<"MOD">>] @@ [op \in {"=="} |-> <<"EQ">>] @@
  [op \in {"!="} |-> <<"EQ", "ISZERO">>] @@
  [op \in {"<"} |-> <<"GT">>] @@ [op \in {">"} |-> <<"LT">>] @@
  [op \in {"<="} |-> <<"LT", "ISZERO">>] @@ [op \in {">="} |-> <<"GT", "ISZERO">>] @@
  [op \in {"&"} |-> <<"AND">>] @@ [op \in {"|"} |-> <<"OR">>] @@
  [op \in {"^"} |-> <<"XOR">>] @@
  [op \in {"<<"} |-> <<"SHL">>] @@ [op \in {">>"} |-> <<"SHR">>]
RightFirst == {"-", "/", "%"}

\* What is left of a call whose result nobody wants.  Mutant: it stays.
NoCleanup(wanted, f) == <<>>
Cleanup(wanted, f) == IF ~wanted /\ f.returns THEN <<Op("POP")>> ELSE <<>>

RECURSIVE LowerExpr(_, _), LowerPlace(_, _), LowerInternalCall(_, _, _), LowerStmts(_, _, _),
          LowerExternalCall(_, _, _)

\* Expressions lowered one after another, in this order.
Joined(first, others) == [codes |-> <<first.code>> \o others.codes, st |-> others.st]
RECURSIVE LowerEach(_, _), LowerRest(_, _)
LowerRest(first, es) == Joined(first, LowerEach(es, first.st))
LowerEach(es, st) ==
  IF es = <<>> THEN [codes |-> <<>>, st |-> st]
  ELSE LowerRest(LowerExpr(Head(es), st), Tail(es))

\* lr is the left operand and the right one, lowered in this order.
LowerBinary(op, lr) ==
  LET operands == IF op \in RightFirst THEN lr.codes[2] \o lr.codes[1]
                                       ELSE lr.codes[1] \o lr.codes[2]
  IN Lowered(operands \o Ops(Mnemonic[op]), lr.st)

\* A local shadows a parameter.
LowerIdent(x, st) ==
  IF x \in DOMAIN st.locals THEN Lowered(<<Push(st.locals[x]), Op("MLOAD")>>, st)
  ELSE IF x \in DOMAIN st.params THEN Lowered(<<Push(st.params[x]), Op("CALLDATALOAD")>>, st)
  ELSE Rejected(st)

\* Code that leaves a storage slot, and the type of what is there.
Keyed(base, key) ==
  IF base.type = <<>> THEN [code |-> Error, st |-> key.st, type |-> <<>>]
  ELSE [code |-> base.code \o key.code \o
                   (IF base.type[1] = "mapping" THEN MappingSlotFromStack
                                                ELSE ArrayElemSlotFromStack),
        st |-> key.st, type |-> Tail(base.type)]
KeyedBy(base, key) == Keyed(base, LowerExpr(key, base.st))
LowerPlace(p, st) ==
  IF p.e = "field"
  THEN [code |-> <<Push(SlotOf(st.c, p.f))>>, st |-> st, type |-> TypeOf(st.c, p.f)]
  ELSE KeyedBy(LowerPlace(p.of, st), p.key)

LowerGet(place) ==
  IF place.type = <<>> THEN Lowered(Append(place.code, Op("SLOAD")), place.st)
  ELSE Rejected(place.st)

IsArray(c, f) == TypeOf(c, f) # <<>> /\ TypeOf(c, f)[1] = "array"

LowerLen(e, st) ==
  IF IsArray(st.c, e.f) THEN Lowered(LoadSlot(SlotOf(st.c, e.f)), st) ELSE Rejected(st)

\* The body of an internal function is expanded in place: the arguments go to
\* fresh local slots, and the body sees those and nothing of its caller.
Bound(x, v, others) ==
  [code |-> v.code \o StoreLocal(v.st.next) \o others.code,
   locals |-> Write(others.locals, x, v.st.next), st |-> others.st]
RECURSIVE Bind(_, _, _), BindRest(_, _, _)
BindRest(params, v, args) ==
  Bound(Head(params), v, Bind(Tail(params), args, Allocated(v.st)))
Bind(params, args, st) ==
  IF args = <<>> THEN [code |-> <<>>, locals |-> NoMap, st |-> st]
  ELSE BindRest(params, LowerExpr(Head(args), st), Tail(args))

\* What the body of f starts from, and the call once the body is lowered.
Callee(bound, f) ==
  [bound.st EXCEPT !.locals = bound.locals, !.params = NoMap, !.calls = Append(@, f.name)]
Called(bound, body, f, wanted, st) ==
  Lowered(bound.code \o body.code \o Cleanup(wanted, f), [st EXCEPT !.next = body.st.next])
Inlined(bound, f, wanted, st) ==
  Called(bound, LowerStmts(f.body, IF f.returns THEN "Leave" ELSE "Void", Callee(bound, f)),
         f, wanted, st)

LowerInternalCall(e, wanted, st) ==
  LET f == FunctionOf(st.c, e.fn)
  IN IF e.fn \in Range(st.calls) \/ Len(e.args) # Len(f.params) THEN Rejected(st)
     ELSE Inlined(Bind(f.params, e.args, st), f, wanted, st)

\* Mutant: a call that failed counts as one that succeeded.
CheckedNot == Ops(<<"POP">>)

\* The answer of a call is 1, or the transaction reverts.  No braces: ok stays
\* in scope.
Checked ==
  <<Fresh("ok"), JumpI("ok")>> \o RevertEmpty \o <<JumpDest("ok")>>

\* The selector and the arguments are stored at buf, then the address is
\* computed, and the result is read from where the calldata was.
Sent(method, buf, args, at, wanted) ==
  LET n == Len(args.codes)
      result == wanted /\ method.returns
  IN Lowered(PushSelector(method.selector) \o StoreLocal(buf)
       \o FlattenSeq([j \in 1 .. n |-> args.codes[j] \o StoreLocal(buf + 4 + 32 * (j - 1))])
       \o <<Push(IF result THEN 32 ELSE 0), Push(buf), Push(4 + 32 * n), Push(buf)>>
       \o (IF method.mutable THEN <<Push(0)>> ELSE <<>>)
       \o at.code \o Ops(<<"GAS", IF method.mutable THEN "CALL" ELSE "STATICCALL">>)
       \o Checked
       \o (IF result THEN <<Push(buf), Op("MLOAD")>> ELSE <<>>), at.st)
SentTo(e, buf, args, wanted) == Sent(e.method, buf, args, LowerExpr(e.at, args.st), wanted)
LowerExternalCall(e, wanted, st) ==
  IF Len(e.args) # e.method.nargs THEN Rejected(st)
  ELSE SentTo(e, st.next, LowerEach(e.args, CalldataAllocated(st, e.method.nargs)), wanted)

\* A literal that does not fit is refused when the macro runs.
PackShortString(text, st) ==
  IF IsShort(text) THEN Lowered(<<Push(text)>>, st) ELSE Rejected(st)

LowerExpr(e, st) ==
  CASE e.e = "lit"   -> Lowered(<<Push(e.n)>>, st)
    [] e.e = "str"   -> PackShortString(e.text, st)
    [] e.e = "extern" -> LowerExternalCall(e, TRUE, st)
    [] e.e = "field" -> Lowered(LoadSlot(SlotOf(st.c, e.f)), st)
    [] e.e = "call"  -> LowerInternalCall(e, TRUE, st)
    [] e.e = "get"   -> LowerGet(LowerPlace(e, st))
    [] e.e = "len"   -> LowerLen(e, st)
    [] e.e = "bin"   -> LowerBinary(e.op, LowerEach(<<e.l, e.r>>, st))
    [] e.e = "env"   -> Lowered(<<Op(e.op)>>, st)
    [] e.e = "var"   -> LowerIdent(e.x, st)

----------------------------------------------------------------------------
(* Statements, given what their expressions were lowered to.               *)

\* lower_local: the slot is allocated after the value is lowered.
LowerLet(x, v) ==
  Lowered(v.code \o StoreLocal(v.st.next),
          [Allocated(v.st) EXCEPT !.locals = Write(@, x, v.st.next)])

LowerAssign(x, v) ==
  IF x \in DOMAIN v.st.locals THEN Lowered(v.code \o StoreLocal(v.st.locals[x]), v.st)
  ELSE Rejected(v.st)

LowerStore(f, v) == Lowered(v.code \o StoreSlot(SlotOf(v.st.c, f)), v.st)

\* self.map.insert(key, value): the place is lowered first and runs second.
Inserted(place, vk) ==
  IF place.type = <<>> \/ place.type[1] # "mapping" THEN Rejected(place.st)
  ELSE Lowered(vk.codes[1] \o place.code \o vk.codes[2] \o MappingSlotFromStack
                 \o Ops(<<"SSTORE">>), vk.st)
LowerInsert(s, place) == Inserted(place, LowerEach(<<s.v, s.k>>, place.st))

LowerSet(f, vk) ==
  IF ~IsArray(vk.st.c, f) THEN Rejected(vk.st)
  ELSE Lowered(vk.codes[1] \o vk.codes[2] \o ArrayElemSlot(SlotOf(vk.st.c, f))
                 \o Ops(<<"SSTORE">>), vk.st)

LowerPush(f, v) ==
  LET base == SlotOf(v.st.c, f)
  IN IF ~IsArray(v.st.c, f) THEN Rejected(v.st)
     ELSE Lowered(v.code \o LoadSlot(base) \o ArrayElemSlot(base) \o Ops(<<"SSTORE">>)
                    \o LoadSlot(base) \o <<Push(1), Op("ADD")>> \o StoreSlot(base), v.st)

LowerRequire(v) ==
  Lowered(v.code \o Braced(<<Fresh("lab"), JumpI("lab")>> \o RevertEmpty
                             \o <<JumpDest("lab")>>), v.st)

\* The literal's values are computed in the order of the declaration, so the
\* last field is the one that is stored first.
Declared(s) == [j \in DOMAIN s.order |-> s.vs[s.order[j]]]
LowerEmit(event, vs) ==
  LET k == Len(vs.codes)
  IN Lowered(FlattenSeq(vs.codes) \o FlattenSeq([j \in 1 .. k |-> StoreLocal(32 * (k - j))])
               \o <<Push(event), Push(32 * k), Push(0), Op("LOG1")>>, vs.st)

\* Mutant: the labels of an if stay in scope after it.
LowerIfUnbraced(s, cond) ==
  LET then == LowerStmts(s.then, "Void", cond.st)
      else == LowerStmts(IF s.els = <<>> THEN <<>> ELSE s.els[1], "Void", then.st)
  IN Lowered(cond.code
               \o <<Fresh("else_l"), Fresh("end"), Op("ISZERO"), JumpI("else_l")>>
               \o then.code \o <<Jump("end"), JumpDest("else_l")>>
               \o else.code \o <<JumpDest("end")>>, else.st)

LowerIf(s, cond) ==
  LET then == LowerStmts(s.then, "Void", cond.st)
      else == LowerStmts(s.els[1], "Void", then.st)
  IN IF s.els = <<>>
     THEN Lowered(cond.code \o
            Braced(<<Fresh("end"), Op("ISZERO"), JumpI("end")>> \o then.code
                     \o <<JumpDest("end")>>), then.st)
     ELSE Lowered(cond.code \o
            Braced(<<Fresh("else_l"), Fresh("end"), Op("ISZERO"), JumpI("else_l")>>
                     \o then.code \o <<Jump("end"), JumpDest("else_l")>>
                     \o else.code \o <<JumpDest("end")>>), else.st)

\* Mutant: the condition is not inverted before the exit is taken.
LowerWhileNot(s, cond) ==
  LET body == LowerStmts(s.body, "Void", cond.st)
  IN Lowered(<<Fresh("top"), Fresh("end"), JumpDest("top")>> \o cond.code
               \o <<JumpI("end")>> \o body.code
               \o <<Jump("top"), JumpDest("end")>>, body.st)

\* No braces: top and end stay in scope in the code that follows.
LowerWhile(s, cond) ==
  LET body == LowerStmts(s.body, "Void", cond.st)
  IN Lowered(<<Fresh("top"), Fresh("end"), JumpDest("top")>> \o cond.code
               \o <<Op("ISZERO"), JumpI("end")>> \o body.code
               \o <<Jump("top"), JumpDest("end")>>, body.st)

\* (a, b): element i is computed and stored before element i + 1 is computed.
LowerTuple(vs) ==
  Lowered(FlattenSeq([i \in DOMAIN vs.codes |-> vs.codes[i] \o StoreLocal(32 * (i - 1))])
            \o ReturnWords(Len(vs.codes)), vs.st)

\* A string is unpacked only if it is the whole result.
ReturnOf(v) ==
  Lowered(v.code \o (IF v.st.ret_string THEN ReturnShortString ELSE ReturnWord), v.st)

LowerResult(e, tail, st) ==
  CASE tail = "Return" -> ReturnOf(LowerExpr(e, st))
    [] tail = "Leave"  -> LowerExpr(e, st)
    [] tail = "Void"   -> CASE e.e = "call" -> LowerInternalCall(e, FALSE, st)
                            [] e.e = "extern" -> LowerExternalCall(e, FALSE, st)
                            [] OTHER -> Rejected(st)

\* lower_expr_stmt; tail is "Void" unless s is the last statement.
LowerStmt(s, tail, st) ==
  CASE s.s = "let"     -> LowerLet(s.x, LowerExpr(s.v, st))
    [] s.s = "assign"  -> LowerAssign(s.x, LowerExpr(s.v, st))
    [] s.s = "store"   -> LowerStore(s.f, LowerExpr(s.v, st))
    [] s.s = "insert"  -> LowerInsert(s, LowerPlace(s.of, st))
    [] s.s = "set"     -> LowerSet(s.f, LowerEach(<<s.v, s.k>>, st))
    [] s.s = "push"    -> LowerPush(s.f, LowerExpr(s.v, st))
    [] s.s = "require" -> LowerRequire(LowerExpr(s.v, st))
    [] s.s = "emit"    -> LowerEmit(s.event, LowerEach(Declared(s), st))
    [] s.s = "if"      -> LowerIf(s, LowerExpr(s.v, st))
    [] s.s = "while"   -> LowerWhile(s, LowerExpr(s.v, st))
    [] s.s = "do"      -> LowerResult(s.v, "Void", st)
    [] s.s = "result"  -> LowerResult(s.v, tail, st)
    [] s.s = "tuple"   -> IF tail = "Return" THEN LowerTuple(LowerEach(s.vs, st))
                          ELSE Rejected(st)

Followed(first, others) == Lowered(first.code \o others.code, others.st)
RECURSIVE LowerTail(_, _, _)
LowerTail(first, stmts, tail) == Followed(first, LowerStmts(stmts, tail, first.st))
LowerStmts(stmts, tail, st) ==
  IF stmts = <<>> THEN Lowered(<<>>, st)
  ELSE LowerTail(LowerStmt(Head(stmts), IF Len(stmts) = 1 THEN tail ELSE "Void", st),
                 Tail(stmts), tail)

\* What a body starts from: strings is the sequence of parameters that are
\* locals already, calldata those that are read from calldata when needed.
Entry(c, strings, calldata, ret_string) ==
  [c |-> c, next |-> 128 + 32 * Len(strings), calls |-> <<>>, ret_string |-> ret_string,
   params |-> calldata,
   locals |-> [x \in Range(strings) |-> 128 + 32 * (IndexOf(strings, x) - 1)]]

\* Parameter i has its head word at 4 + 32 * (i - 1); a string is decoded into
\* a local first.
HeadOf(f, x) == 4 + 32 * (IndexOf(f.params, x) - 1)
TextParams(f) == SelectSeq(f.params, LAMBDA x : x \in f.texts)
FunctionEntry(c, f) ==
  Entry(c, TextParams(f), [x \in Range(f.params) \ f.texts |-> HeadOf(f, x)], f.text = <<TRUE>>)
Prologue(f, st) ==
  FlattenSeq([k \in DOMAIN TextParams(f) |->
    DecodeShortStringParam(HeadOf(f, TextParams(f)[k]), st.locals[TextParams(f)[k]])])

\* A function without an arrow must halt.  Mutant: it does not.
NoHalt(f) == <<>>
HaltOf(f) == IF f.returns THEN <<>> ELSE Ops(<<"STOP">>)

LowerBlock(c, f) ==
  LET st == FunctionEntry(c, f)
  IN Prologue(f, st) \o LowerStmts(f.body, IF f.returns THEN "Return" ELSE "Void", st).code
       \o HaltOf(f)

\* Every argument of a constructor is copied from behind the code to a local;
\* string k has its two words in the last 64 * s bytes.
LowerConstructor(c, f) ==
  LET n == Len(f.params)
      s == Len(TextParams(f))
      st == Entry(c, f.params, NoMap, FALSE)
      len_back(x) == 64 * (s - IndexOf(TextParams(f), x) + 1)
      load(k, x) == IF x \in f.texts
                    THEN DecodeShortStringConstructorArg(len_back(x), len_back(x) - 32, st.locals[x])
                    ELSE CopyWord(32 * n + 64 * s - 32 * (k - 1), st.locals[x])
  IN FlattenSeq([k \in 1 .. n |-> load(k, f.params[k])]) \o LowerStmts(f.body, "Void", st).code

----------------------------------------------------------------------------
(* Running the generated code.  A label is <<i, q>>, the one that function  *)
(* i allocates in the q-th statement of its generated code; <<i, 0>> is    *)
(* the entry label of function i.                                          *)

\* How many blocks of the code are open after its p-th statement.
Depth(code, p) ==
  Cardinality({k \in 1 .. p : code[k].op = "{"}) - Cardinality({k \in 1 .. p : code[k].op = "}"})

\* The variable bound at q is in scope at p: the block of q is still open.
InScope(code, q, p) == \A k \in q .. p : Depth(code, k) >= Depth(code, q)

\* What the name at p refers to: the innermost, latest binding in scope.
Binding(code, p) ==
  LET lets == {q \in 1 .. p - 1 : code[q].op = "let" /\ code[q].arg = code[p].arg}
  IN Max({q \in lets : InScope(code, q, p)})

\* The ops that running the code of function i appends.
RunBody(i, code) ==
  LET run(p) == IF code[p].op \in {"JUMP", "JUMPI", "JUMPDEST"}
                THEN [code[p] EXCEPT !.arg = <<i, Binding(code, p)>>]
                ELSE code[p]
  IN SelectSeq([p \in DOMAIN code |-> run(p)], LAMBDA o : o.op \notin {"let", "{", "}"})

Selector(i) == i
EntryLabel(i) == <<i, 0>>

\* build_runtime: compare the selector with each function's, or revert; then
\* the bodies.
Dispatcher(n) ==
  <<Push(0), Op("CALLDATALOAD"), Push(SelectorShift), Op("SHR")>>
    \o FlattenSeq([i \in 1 .. n |->
         <<Op("DUP1"), Push(Selector(i)), Op("EQ"), JumpI(EntryLabel(i))>>])
    \o RevertEmpty

BuildRuntime(c) ==
  LET fs == Externals(c)
  IN Dispatcher(Len(fs))
       \o FlattenSeq([i \in DOMAIN fs |->
            <<JumpDest(EntryLabel(i)), Op("POP")>> \o RunBody(i, LowerBlock(c, fs[i]))])

Jumps(ops) == {p \in DOMAIN ops : ops[p].op \in {"JUMP", "JUMPI"}}
Destinations(ops, l) == {p \in DOMAIN ops : ops[p].op = "JUMPDEST" /\ ops[p].arg = l}

\* Asm::finish: the last placement of a label counts, and a label that is not
\* placed is at 0.
Finished(ops) ==
  [ops |-> ops,
   dest |-> [l \in {ops[p].arg : p \in Jumps(ops)} |-> Max({0} \cup Destinations(ops, l))]]

\* assemble_contract: the runtime, and the constructor that deploys it (module
\* Deploy shows what is put behind it to do so).
Assemble(c) ==
  [run |-> Finished(BuildRuntime(c)),
   create |-> Finished(IF c.constructor = <<>> THEN <<>>
                       ELSE RunBody(1, LowerConstructor(c, c.constructor[1])))]

Compiles(code) ==
  \A ops \in {code.run.ops, code.create.ops} :
    \A p \in DOMAIN ops : ops[p].op # "compile_error!"
=============================================================================
