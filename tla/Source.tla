------------------------------- MODULE Source -------------------------------
(***************************************************************************)
(* What a contract means, read as the Rust it is written in: `let` is      *)
(* scoped to its block, operands and arguments are evaluated from left to  *)
(* right, a call gets its arguments by value and sees nothing else of its  *)
(* caller, arithmetic is that of U256 on the EVM, require(false) undoes    *)
(* the whole transaction.  A call to another contract runs the function    *)
(* the selector names there, with the caller as its sender; it may not     *)
(* change anything if the interface takes &self; if there is none, or it   *)
(* fails, so does the caller.  There are no slots, no memory, no stack and *)
(* no labels here; a transaction is one step.                              *)
(***************************************************************************)
EXTENDS Words, Syntax, SequencesExt

CONSTANTS
  Systems,         \* what may be deployed: a sequence of maps, address -> contract
  Transactions(_, _), \* those to consider for a system, given its created accounts
  MaxDepth         \* calls within calls that the EVM allows

VARIABLES
  system,          \* index of the system that is deployed
  storage,         \* created account -> location -> non-zero value
  pending,         \* the transaction that was sent, NoTx if none
  receipt          \* what came of the last transaction

vars == <<system, storage, pending, receipt>>

NoTx == [create |-> FALSE, to |-> 0, selector |-> 0, args |-> <<>>, sender |-> 0, time |-> 0]
NoReceipt == [ok |-> TRUE, output |-> <<>>, logs |-> <<>>]
Failed == [NoReceipt EXCEPT !.ok = FALSE]

----------------------------------------------------------------------------
Meaning(op, a, b) ==
  CASE op = "+" -> (a + b) % Modulus
    [] op = "-" -> (a - b) % Modulus
    [] op = "*" -> (a * b) % Modulus
    [] op = "/" -> DivOrZero(a, b)
    [] op = "%" -> ModOrZero(a, b)
    [] op = "==" -> Truth(a = b)
    [] op = "!=" -> Truth(a # b)
    [] op = "<" -> Truth(a < b)
    [] op = ">" -> Truth(a > b)
    [] op = "<=" -> Truth(a <= b)
    [] op = ">=" -> Truth(a >= b)
    [] op = "&" -> BitAnd(a, b)
    [] op = "|" -> BitOr(a, b)
    [] op = "^" -> BitXor(a, b)
    [] op = "<<" -> ShiftLeft(a, b)
    [] op = ">>" -> ShiftRight(a, b)

\* The state of a running function: c, the contract at address this; who sent
\* the message, when, and after how many others; the bindings in scope
\* (innermost last); the world's storage, whether it is static, and the logs;
\* ok unless reverted; and what it returns.
Location(f, keys) == [field |-> f, keys |-> keys]
Read(m, loc) == IF loc \in DOMAIN m THEN m[loc] ELSE 0
ReadAt(r, loc) == Read(r.world[r.this], loc)
Updated(m, loc, v) ==
  LET w == Write(m, loc, v) IN [l \in {x \in DOMAIN w : w[x] # 0} |-> w[l]]
Fail(r) == [r EXCEPT !.ok = FALSE]
WriteTo(r, loc, v) ==
  IF r.static THEN Fail(r) ELSE [r EXCEPT !.world[r.this] = Updated(@, loc, v)]

Innermost(bindings, x) == Max({i \in DOMAIN bindings : bindings[i].x = x})

RECURSIVE Eval(_, _), Locate(_, _), Exec(_, _), Loop(_, _)

\* A value, the values of a list, the location of a place: each with the state
\* that their evaluation, from left to right, leaves.
Value(v, r) == [v |-> v, r |-> r]
Joined(first, others) == [vs |-> <<first.v>> \o others.vs, r |-> others.r]
RECURSIVE EvalEach(_, _), EvalRest(_, _)
EvalRest(first, es) == Joined(first, EvalEach(es, first.r))
EvalEach(es, r) ==
  IF es = <<>> THEN [vs |-> <<>>, r |-> r] ELSE EvalRest(Eval(Head(es), r), Tail(es))

Keyed(base, key) ==
  [loc |-> Location(base.loc.field, Append(base.loc.keys, key.v)), r |-> key.r]
KeyedBy(base, key) == Keyed(base, Eval(key, base.r))
Locate(p, r) ==
  IF p.e = "field" THEN [loc |-> Location(p.f, <<>>), r |-> r]
  ELSE KeyedBy(Locate(p.of, r), p.key)

\* A call: the values are there only if the function returns some.
Returned(end, r) ==
  [vs |-> end.result, r |-> [end EXCEPT !.bindings = r.bindings, !.result = r.result]]
Invoke(f, args, r) ==
  Returned(Exec(f.body, [r EXCEPT !.result = <<>>, !.bindings =
                           [i \in DOMAIN args |-> [x |-> f.params[i], v |-> args[i]]]]), r)
Apply(f, args) == Invoke(f, args.vs, args.r)
EvalCall(e, r) == Apply(FunctionOf(r.c, e.fn), EvalEach(e.args, r))

\* A call to the contract at an address.  Its function starts with no bindings
\* but its parameters, and leaves the caller's as they were.  A value that the
\* interface promises has to come.
Answer(end, r) ==
  [vs |-> end.vs,
   r |-> [r EXCEPT !.world = end.r.world, !.logs = end.r.logs, !.ok = end.r.ok]]
Answered(method, end, r) ==
  IF method.returns /\ end.vs = <<>> THEN Answer([end EXCEPT !.r.ok = FALSE], r)
                                     ELSE Answer(end, r)
Message(method, to, args, r) ==
  IF to \notin DOMAIN r.contracts \/ r.depth = MaxDepth
     \/ method.selector \notin DOMAIN Externals(r.contracts[to])
     \/ Len(args) # Len(Externals(r.contracts[to])[method.selector].params)
  THEN [vs |-> <<>>, r |-> Fail(r)]
  ELSE Answered(method, Invoke(Externals(r.contracts[to])[method.selector], args,
                     [r EXCEPT !.c = r.contracts[to], !.this = to, !.sender = r.this,
                               !.depth = @ + 1, !.static = @ \/ ~method.mutable]), r)
AddressFirst(method, xs) == Message(method, Head(xs.vs), Tail(xs.vs), xs.r)
EvalExternal(e, r) == AddressFirst(e.method, EvalEach(<<e.at>> \o e.args, r))

Fetched(at) == Value(ReadAt(at.r, at.loc), at.r)
Combined(op, ab) == Value(Meaning(op, ab.vs[1], ab.vs[2]), ab.r)
Result1(ret) == Value(IF ret.r.ok THEN ret.vs[1] ELSE 0, ret.r)

Eval(e, r) ==
  CASE e.e = "lit" -> Value(e.n % Modulus, r)
    [] e.e = "var" -> Value(r.bindings[Innermost(r.bindings, e.x)].v, r)
    [] e.e = "str" -> Value(e.text, r)
    [] e.e \in {"field", "len"} -> Value(ReadAt(r, Location(e.f, <<>>)), r)
    [] e.e = "get" -> Fetched(Locate(e, r))
    [] e.e = "env" -> Value(CASE e.op = "CALLER" -> r.sender
                              [] e.op = "TIMESTAMP" -> r.time
                              [] e.op = "ADDRESS" -> r.this, r)
    [] e.e = "bin" -> Combined(e.op, EvalEach(<<e.l, e.r>>, r))
    [] e.e = "call" -> Result1(EvalCall(e, r))
    [] e.e = "extern" -> Result1(EvalExternal(e, r))

\* The bindings of a block end with it.
Closed(end, r) == [end EXCEPT !.bindings = SubSeq(@, 1, Len(r.bindings))]
Block(stmts, r) == Closed(Exec(stmts, r), r)

Again(s, r) == IF r.ok THEN Loop(s, r) ELSE r
Turn(s, cond) ==
  IF cond.v = 0 \/ ~cond.r.ok THEN cond.r ELSE Again(s, Block(s.body, cond.r))
Loop(s, r) == Turn(s, Eval(s.v, r))

Branch(s, cond) ==
  IF cond.v # 0 THEN Block(s.then, cond.r)
  ELSE IF s.els = <<>> THEN cond.r ELSE Block(s.els[1], cond.r)

\* self.field.push(v)
Pushed(f, n, v) ==
  WriteTo(WriteTo(v.r, Location(f, <<n>>), v.v), Location(f, <<>>), (n + 1) % Modulus)
Push1(f, v) == Pushed(f, ReadAt(v.r, Location(f, <<>>)), v)

Let1(x, v) == [v.r EXCEPT !.bindings = Append(@, [x |-> x, v |-> v.v])]
Assigned(x, v) == [v.r EXCEPT !.bindings[Innermost(v.r.bindings, x)].v = v.v]
Inserted(at, v) == WriteTo(v.r, at.loc, v.v)
InsertInto(at, e) == Inserted(at, Eval(e, at.r))
Required(v) == IF v.v = 0 THEN Fail(v.r) ELSE v.r

\* Its values in order; whether a field is a topic is for AsTheAbiSays to compare.
Emitted(s, xs) ==
  IF xs.r.static THEN Fail(xs.r)
  ELSE [xs.r EXCEPT !.logs = Append(@, [by |-> xs.r.this, topics |-> <<s.event>>,
                                        data |-> [j \in DOMAIN s.order |-> xs.vs[s.order[j]]]])]
Results(xs) == [xs.r EXCEPT !.result = xs.vs]

EvalCalled(e, r) == IF e.e = "call" THEN EvalCall(e, r) ELSE EvalExternal(e, r)

\* One statement, its expressions having been evaluated.
Do1(s, r) ==
  CASE s.s = "insert" -> InsertInto(Locate(Get(s.of, s.k), r), s.v)
    [] s.s = "set" -> LET kv == EvalEach(<<s.k, s.v>>, r)
                      IN WriteTo(kv.r, Location(s.f, <<kv.vs[1]>>), kv.vs[2])
    [] s.s = "emit" -> Emitted(s, EvalEach(s.vs, r))
    [] s.s = "tuple" -> Results(EvalEach(s.vs, r))
    [] s.s = "while" -> Loop(s, r)
    [] s.s = "if" -> Branch(s, Eval(s.v, r))
    [] s.s = "do" -> EvalCalled(s.v, r).r
    [] s.s = "result" -> Results(IF s.v.e \in {"call", "extern"} THEN EvalCalled(s.v, r)
                                 ELSE EvalEach(<<s.v>>, r))
    [] s.s = "let" -> Let1(s.x, Eval(s.v, r))
    [] s.s = "assign" -> Assigned(s.x, Eval(s.v, r))
    [] s.s = "store" -> Inserted([loc |-> Location(s.f, <<>>)], Eval(s.v, r))
    [] s.s = "push" -> Push1(s.f, Eval(s.v, r))
    [] s.s = "require" -> Required(Eval(s.v, r))

Exec(stmts, r) ==
  IF stmts = <<>> \/ ~r.ok THEN r ELSE Exec(Tail(stmts), Do1(Head(stmts), r))

----------------------------------------------------------------------------
\* A transaction that creates an account runs the constructor; one to a function
\* the contract does not have fails, as does one with a string that is not short.
Settled(end, before) ==
  IF ~end.r.ok THEN [storage |-> before, receipt |-> Failed]
  ELSE [storage |-> end.r.world,
        receipt |-> [ok |-> TRUE, output |-> end.vs, logs |-> end.r.logs]]
Run(f, tx, contracts, world, before) ==
  IF \E j \in DOMAIN tx.args : Says(ParamTexts(f), j) /\ ~IsShort(tx.args[j])
  THEN [storage |-> before, receipt |-> Failed]
  ELSE Settled(Invoke(f, tx.args,
         [c |-> contracts[tx.to], contracts |-> Restrict(contracts, DOMAIN before), this |-> tx.to, sender |-> tx.sender,
          time |-> tx.time, depth |-> 0, static |-> FALSE, bindings |-> <<>>, world |-> world,
          logs |-> <<>>, ok |-> TRUE, result |-> <<>>]), before)
Outcome(contracts, tx, before) ==
  LET c == contracts[tx.to]
  IN IF tx.create THEN Run(c.constructor[1], tx, contracts, Write(before, tx.to, NoMap), before)
     ELSE IF tx.selector \notin DOMAIN Externals(c) THEN [storage |-> before, receipt |-> Failed]
     ELSE Run(Externals(c)[tx.selector], tx, contracts, before, before)

\* Contracts without a constructor are there from the start.
Created(contracts) == {a \in DOMAIN contracts : contracts[a].constructor = <<>>}
Possible(tx, created) ==
  IF tx.create THEN tx.to \notin created ELSE tx.to \in created

Init ==
  /\ system \in DOMAIN Systems
  /\ storage = [a \in Created(Systems[system]) |-> NoMap]
  /\ pending = NoTx
  /\ receipt = NoReceipt

Submit ==
  /\ pending = NoTx
  /\ \E tx \in Transactions(Systems[system], DOMAIN storage) :
       /\ Possible(tx, DOMAIN storage)
       /\ pending' = tx
  /\ receipt' = NoReceipt
  /\ UNCHANGED <<system, storage>>

\* The whole transaction, atomically.
Transact ==
  LET out == Outcome(Systems[system], pending, storage)
  IN /\ pending # NoTx
     /\ pending' = NoTx
     /\ storage' = out.storage
     /\ receipt' = out.receipt
     /\ UNCHANGED system

Next == Submit \/ Transact

Spec == Init /\ [][Next]_vars
=============================================================================
