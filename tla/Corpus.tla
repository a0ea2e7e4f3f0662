------------------------------- MODULE Corpus -------------------------------
(***************************************************************************)
(* The contracts of src/tests and src/examples that the compiler is run    *)
(* on, in the syntax of module Syntax, and some that put what those have   *)
(* next to each other: loops beside branches, inlined functions in both.   *)
(***************************************************************************)
EXTENDS Syntax

Sender == Env("CALLER")
Balance(who) == Get(Field("balances"), who)
Allowance(owner, spender) == Get(Get(Field("allowances"), owner), spender)
SetBalance(who, v) == Insert(Field("balances"), who, v)
Plus(l, r) == Bin(l, "+", r)
Minus(l, r) == Bin(l, "-", r)
SetName(k, v) == Insert(Field("names"), k, v)
AtLeast(l, r) == Require(Bin(l, ">=", r))
Transfer == 1      \* topics of the events
Approval == 2

\* src/tests/macro_counter.rs
Counter == Contract(<<FieldOf("count", <<>>)>>,
  <<External("increment", <<>>, FALSE, <<Store("count", Plus(Field("count"), Lit(1)))>>),
    External("get", <<>>, TRUE, <<Result(Field("count"))>>)>>)

\* src/tests/macro_token3.rs
Token3 == Contract(<<FieldOf("balances", <<"mapping">>)>>,
  <<External("deposit", <<>>, FALSE, <<SetBalance(Sender, Plus(Balance(Sender), Lit(100)))>>),
    External("balance_of", <<"who">>, TRUE, <<Result(Balance(Var("who")))>>),
    External("transfer", <<"to", "amount">>, FALSE,
      <<Let("from_bal", Balance(Sender)),
        AtLeast(Var("from_bal"), Var("amount")),
        SetBalance(Sender, Minus(Var("from_bal"), Var("amount"))),
        SetBalance(Var("to"), Plus(Balance(Var("to")), Var("amount")))>>),
    External("capped_deposit", <<"amount">>, FALSE,
      <<If(Bin(Var("amount"), "<", Lit(1000)),
           <<SetBalance(Sender, Plus(Balance(Sender), Var("amount")))>>, <<>>)>>)>>)

\* src/tests/macro_array.rs
Holders == Contract(<<FieldOf("holders", <<"array">>)>>,
  <<External("add_holder", <<"addr">>, FALSE, <<PushTo("holders", Var("addr"))>>),
    External("count", <<>>, TRUE, <<Result(LenOf("holders"))>>),
    External("get", <<"idx">>, TRUE, <<Result(Get(Field("holders"), Var("idx")))>>),
    External("set_holder", <<"idx", "addr">>, FALSE,
      <<SetAt("holders", Var("idx"), Var("addr"))>>)>>)

\* src/tests/macro_else_if.rs
Branchy ==
  LET pick(n) == Assign("bucket", Lit(n))
      below(n, then, els) == If(Bin(Var("x"), "<", Lit(n)), <<then>>, <<<<els>>>>)
  IN Contract(<<>>,
  <<External("classify", <<"x">>, TRUE,
      <<Let("bucket", Lit(4)),
        below(10, pick(1), below(20, pick(2), below(30, pick(3), pick(4)))),
        Result(Var("bucket"))>>)>>)

\* src/tests/macro_math_and_returns.rs
Mathy == Contract(<<FieldOf("a", <<>>), FieldOf("b", <<>>)>>,
  <<External("sqrt", <<"y">>, TRUE,
      <<Let("z", Var("y")),
        Let("x", Plus(Bin(Var("y"), "/", Lit(2)), Lit(1))),
        While(Bin(Var("x"), "<", Var("z")),
          <<Assign("z", Var("x")),
            Assign("x", Bin(Plus(Bin(Var("y"), "/", Var("x")), Var("x")), "/", Lit(2)))>>),
        Result(Var("z"))>>),
    External("div", <<"x", "d">>, TRUE, <<Result(Bin(Var("x"), "/", Var("d")))>>),
    External("rem", <<"x", "d">>, TRUE, <<Result(Bin(Var("x"), "%", Var("d")))>>),
    External("shifted", <<"x", "n">>, TRUE, <<Result(Bin(Var("x"), "<<", Var("n")))>>),
    External("pair", <<>>, TRUE, <<Tuple(<<Field("a"), Field("b")>>)>>),
    External("me", <<>>, TRUE, <<Result(Env("ADDRESS"))>>)>>)

\* src/tests/macro_constructor.rs
Owned == Constructed(Contract(<<FieldOf("owner", <<>>), FieldOf("count", <<>>)>>,
  <<View(External("owner", <<>>, TRUE, <<Result(Field("owner"))>>)),
    View(External("count", <<>>, TRUE, <<Result(Field("count"))>>)),
    External("increment", <<>>, FALSE, <<Store("count", Plus(Field("count"), Lit(1)))>>)>>),
  <<"owner", "start">>, {}, <<Store("owner", Var("owner")), Store("count", Var("start"))>>)

\* src/tests/macro_short_string.rs: "MyToken" is Text(7, 9)
Meta == Constructed(Contract(<<FieldOf("symbol", <<>>)>>,
  <<View(Textual(External("name", <<>>, TRUE, <<Result(Str(Text(7, 9)))>>), <<TRUE>>)),
    View(Textual(External("symbol", <<>>, TRUE, <<Result(Field("symbol"))>>), <<TRUE>>)),
    Strings(External("set_symbol", <<"symbol">>, FALSE, <<Store("symbol", Var("symbol"))>>),
            {"symbol"})>>),
  <<"symbol">>, {"symbol"}, <<Store("symbol", Var("symbol"))>>)

\* src/examples/erc20.rs
Erc20 == [Constructed(Contract(
  <<FieldOf("balances", <<"mapping">>), FieldOf("allowances", <<"mapping", "mapping">>),
    FieldOf("total_supply", <<>>), FieldOf("name", <<>>), FieldOf("symbol", <<>>)>>,
  <<View(Textual(External("symbol", <<>>, TRUE, <<Result(Field("symbol"))>>), <<TRUE>>)),
    View(Textual(External("name", <<>>, TRUE, <<Result(Field("name"))>>), <<TRUE>>)),
    View(External("totalSupply", <<>>, TRUE, <<Result(Field("total_supply"))>>)),
    View(External("balanceOf", <<"who">>, TRUE, <<Result(Balance(Var("who")))>>)),
    View(External("allowance", <<"owner", "spender">>, TRUE,
      <<Result(Allowance(Var("owner"), Var("spender")))>>)),
    External("transfer", <<"to", "amount">>, FALSE,
      <<Let("from", Sender), Do(Call("_transfer", <<Var("from"), Var("to"), Var("amount")>>))>>),
    External("transferFrom", <<"from", "to", "amount">>, FALSE,
      <<Let("spender", Sender),
        Do(Call("_spend_allowance", <<Var("from"), Var("spender"), Var("amount")>>)),
        Do(Call("_transfer", <<Var("from"), Var("to"), Var("amount")>>))>>),
    External("approve", <<"spender", "value">>, FALSE,
      <<Let("owner", Sender),
        Do(Call("_approve", <<Var("owner"), Var("spender"), Var("value"), Lit(1)>>))>>),
    Internal("_transfer", <<"from", "to", "amount">>, FALSE,
      <<AtLeast(Balance(Var("from")), Var("amount")),
        SetBalance(Var("from"), Minus(Balance(Var("from")), Var("amount"))),
        SetBalance(Var("to"), Plus(Balance(Var("to")), Var("amount"))),
        Emit(Transfer, <<Var("from"), Var("to"), Var("amount")>>)>>),
    Internal("_spend_allowance", <<"owner", "spender", "value">>, FALSE,
      <<Let("current", Allowance(Var("owner"), Var("spender"))),
        AtLeast(Var("current"), Var("value")),
        Do(Call("_approve", <<Var("owner"), Var("spender"),
                              Minus(Var("current"), Var("value")), Lit(0)>>))>>),
    Internal("_approve", <<"owner", "spender", "value", "emit_event">>, FALSE,
      <<Insert(Get(Field("allowances"), Var("owner")), Var("spender"), Var("value")),
        If(Var("emit_event"),
           <<Emit(Approval, <<Var("owner"), Var("spender"), Var("value")>>)>>, <<>>)>>)>>),
  <<"total_supply", "name", "symbol">>, {"name", "symbol"},
  <<Store("total_supply", Var("total_supply")), SetBalance(Sender, Var("total_supply")),
    Store("name", Var("name")), Store("symbol", Var("symbol"))>>)
  EXCEPT !.events = [event \in {Transfer, Approval} |->
                       [indexed |-> <<TRUE, TRUE, FALSE>>, text |-> <<>>]]]

\* src/tests/macro_external_call.rs.  Target is its parameter `target: Address`.
Target == Var("target")
CalleeTest == Constructed(Contract(<<FieldOf("v", <<>>)>>,
  <<View(External("value", <<>>, TRUE, <<Result(Field("v"))>>)),
    External("set_value", <<"new_val">>, FALSE, <<Store("v", Var("new_val"))>>)>>),
  <<"v">>, {}, <<Store("v", Var("v"))>>)
ValueOf(at) == On(at, Method(1, 0, FALSE, TRUE), <<>>)
SetValue(at, v) == On(at, Method(2, 1, TRUE, FALSE), <<v>>)
CallerTest == Contract(<<>>,
  <<View(External("read", <<"target">>, TRUE, <<Result(ValueOf(Target))>>)),
    View(External("set", <<"target", "val">>, FALSE, <<Do(SetValue(Target, Var("val")))>>))>>)

----------------------------------------------------------------------------
(* Not from the tests.                                                     *)

\* Inlined functions: a name of the caller's in the callee's scope, a callee
\* in an argument of a call to itself, a result that is dropped, a revert in
\* the middle of an expression, and containers in containers.
Nested == Contract(<<FieldOf("total", <<>>), FieldOf("lists", <<"mapping", "array">>),
                     FieldOf("queue", <<"array">>), FieldOf("table", <<"array", "mapping">>)>>,
  <<External("twice", <<"x">>, TRUE,
      <<Let("y", Lit(3)),
        Result(Plus(Call("add", <<Call("add", <<Var("x"), Var("y")>>), Var("x")>>),
                    Minus(Var("y"), Lit(1))))>>),
    External("bump", <<"x">>, FALSE,
      <<Do(Call("add", <<Var("x"), Lit(1)>>)), Do(Call("credit", <<Var("x")>>)),
        Store("total", Plus(Field("total"), Call("checked", <<Var("x")>>)))>>),
    External("cell", <<"k">>, TRUE,
      <<Insert(Get(Field("table"), Var("k")), Lit(7), Plus(Var("k"), Lit(1))),
        PushTo("queue", Get(Get(Field("table"), Var("k")), Lit(7))),
        Result(Plus(Get(Field("queue"), Lit(0)), Get(Get(Field("lists"), Var("k")), Lit(2))))>>),
    Internal("add", <<"x", "z">>, TRUE,
      <<Let("y", Plus(Var("x"), Var("z"))), Result(Var("y"))>>),
    Internal("credit", <<"x">>, TRUE,
      <<Store("total", Plus(Field("total"), Var("x"))), Result(Field("total"))>>),
    Internal("checked", <<"x">>, TRUE,
      <<Require(Bin(Var("x"), "!=", Lit(4))), Result(Bin(Var("x"), "*", Lit(2)))>>)>>)

\* Loops and branches: branches in a loop, a loop in an inlined function
\* called in a sequence, a loop after a loop.
Loops == Contract(<<FieldOf("n", <<>>)>>,
  <<External("collatz", <<"x">>, TRUE,
      <<Let("v", Bin(Var("x"), "%", Lit(8))), Let("steps", Lit(0)),
        While(Bin(Var("v"), ">", Lit(1)),
          <<If(Bin(Bin(Var("v"), "&", Lit(1)), "==", Lit(0)),
               <<Assign("v", Bin(Var("v"), ">>", Lit(1)))>>,
               <<<<Assign("v", Plus(Bin(Var("v"), "*", Lit(3)), Lit(1)))>>>>),
            If(Bin(Var("steps"), "<=", Lit(9)), <<Assign("steps", Plus(Var("steps"), Lit(1)))>>, <<>>),
            Require(Bin(Var("v"), "!=", Lit(3)))>>),
        Result(Var("steps"))>>),
    External("sums", <<"x">>, FALSE,
      <<Let("a", Call("sum", <<Bin(Var("x"), "%", Lit(3))>>)),
        Let("i", Lit(0)),
        While(Bin(Var("i"), "<", Lit(2)),
          <<Emit(Transfer, <<Var("i"), Var("a")>>), Assign("i", Plus(Var("i"), Lit(1)))>>),
        Store("n", Bin(Call("sum", <<Var("i")>>), "|", Bin(Var("a"), "^", Env("TIMESTAMP"))))>>),
    Internal("sum", <<"k">>, TRUE,
      <<Let("s", Lit(0)),
        While(Bin(Var("k"), ">", Lit(0)),
          <<Assign("s", Plus(Var("s"), Var("k"))), Assign("k", Minus(Var("k"), Lit(1)))>>),
        Result(Var("s"))>>)>>)

\* Strings between numbers, in a mapping, through an inlined function, and one
\* that is dropped.
Names == Contract(<<FieldOf("names", <<"mapping">>), FieldOf("n", <<>>)>>,
  <<Strings(External("rename", <<"first", "n", "second">>, FALSE,
      <<SetName(Lit(1), Var("first")), Store("n", Var("n")),
        SetName(Lit(2), Call("either", <<Var("n"), Var("second")>>))>>),
      {"first", "second"}),
    Textual(External("name", <<"k">>, TRUE,
      <<Let("unused", Str(Text(31, 15))),
        Result(Call("either", <<Var("k"), Get(Field("names"), Var("k"))>>))>>), <<TRUE>>),
    Internal("either", <<"k", "name">>, TRUE,
      <<Let("which", Str(Text(2, 6))),
        If(Bin(Var("k"), "<", Lit(3)), <<Assign("which", Var("name"))>>, <<>>),
        Result(Var("which"))>>)>>)

Bounce(at, target, k) == On(at, Method(3, 2, TRUE, TRUE), <<target, k>>)

\* A contract that calls others, and itself through them: a call in an argument
\* and in the address of another, in a loop, in an inlined function, one whose
\* result is dropped, a static one to a function that writes, one to a function
\* that does not exist, and one that fails when the callee has written.  Its event
\* names the second field before the first.
Router == Contract(<<FieldOf("n", <<>>), FieldOf("peer", <<>>)>>,
  <<View(External("value", <<>>, TRUE, <<Result(Plus(Field("n"), Lit(1)))>>)),
    External("set_value", <<"v">>, FALSE,
      <<Store("n", Plus(Field("n"), Var("v"))), EmitOf(Transfer, <<2, 1>>, <<Var("v"), Sender>>),
        Require(Bin(Field("n"), "<", Lit(5)))>>),
    External("bounce", <<"target", "k">>, TRUE,
      <<Store("n", Plus(Field("n"), Lit(1))), Let("r", Lit(0)),
        If(Bin(Var("k"), ">", Lit(0)),
           <<Assign("r", Bounce(Target, Env("ADDRESS"), Minus(Var("k"), Lit(1))))>>, <<>>),
        Result(Plus(Bin(Var("r"), "*", Lit(4)), Field("n")))>>),
    View(External("pick", <<"target", "x">>, TRUE,
      <<Result(Plus(Call("same", <<Target>>), Bin(Var("x"), "-", Var("x"))))>>)),
    External("nested", <<"target", "x">>, TRUE,
      <<Let("y", Plus(Var("x"), Lit(1))),
        Do(SetValue(On(Call("same", <<Target>>), Method(4, 2, FALSE, TRUE),
                       <<Call("same", <<Target>>), Var("y")>>),
                    Plus(ValueOf(Target), Var("x")))),
        Do(Bounce(Call("same", <<Target>>), Target, Lit(0))),
        Result(Plus(Var("y"), Field("n")))>>),
    External("repeat", <<"target", "x">>, FALSE,
      <<Let("i", Lit(0)), Store("peer", Target),
        While(Bin(Var("i"), "<", ValueOf(Field("peer"))),
          <<Do(SetValue(Field("peer"), Var("x"))), Assign("i", Plus(Var("i"), Lit(2))),
            Store("n", Var("i"))>>)>>),
    External("write_static", <<"target", "x">>, FALSE,
      <<Store("n", Var("x")), Do(On(Target, Method(2, 1, FALSE, FALSE), <<Var("x")>>))>>),
    External("missing", <<"target">>, FALSE,
      <<Do(SetValue(Target, Lit(1))), Do(On(Target, Method(12, 0, TRUE, FALSE), <<>>))>>),
    View(External("view", <<"target">>, TRUE,
      <<Do(On(Target, Method(7, 2, FALSE, FALSE), <<Target, Lit(1)>>)), Result(Lit(1))>>)),
    Internal("same", <<"at">>, TRUE, <<Let("b", Var("at")), Result(Var("b"))>>)>>)

\* Rejected by the macro: a recursive internal call,
Recursive == Contract(<<>>,
  <<External("start", <<"x">>, TRUE, <<Result(Call("fact", <<Var("x")>>))>>),
    Internal("fact", <<"k">>, TRUE, <<Result(Call("fact", <<Minus(Var("k"), Lit(1))>>))>>)>>)

\* and a call through an interface with an argument too many.
Surplus == Contract(<<FieldOf("n", <<>>)>>,
  <<External("keep", <<"x">>, FALSE, <<Store("n", Var("x"))>>),
    External("start", <<"x">>, FALSE,
      <<Do(On(Env("ADDRESS"), Method(1, 1, TRUE, FALSE), <<Var("x"), Var("x")>>))>>)>>)

----------------------------------------------------------------------------
(* Rust that compiles, and that the generated code gives another meaning.  *)

\* A loop in a loop: x * x, by counting.
NestedLoops == Contract(<<FieldOf("n", <<>>)>>,
  <<External("square", <<"x">>, FALSE,
      <<Let("i", Lit(0)),
        While(Bin(Var("i"), "<", Var("x")),
          <<Let("j", Lit(0)),
            While(Bin(Var("j"), "<", Var("x")),
              <<Store("n", Plus(Field("n"), Lit(1))), Assign("j", Plus(Var("j"), Lit(1)))>>),
            Assign("i", Plus(Var("i"), Lit(1)))>>)>>)>>)

\* In step an inner block shadows an immutable local, and the operands of a
\* subtraction count up.  What it calls through an interface keeps a local, logs
\* five words before it reads the local, and returns a tuple whose second component
\* needs the scratchpad.
Stepping == Contract(
  <<FieldOf("n", <<>>), FieldOf("kept", <<>>), FieldOf("difference", <<>>), FieldOf("first", <<>>),
    FieldOf("local", <<>>), FieldOf("balances", <<"mapping">>)>>,
  <<External("step", <<"x">>, FALSE,
      <<Let("y", Var("x")),
        If(Bin(Var("x"), ">", Lit(0)), <<Let("y", Lit(7))>>, <<>>),
        Store("kept", Var("y")),
        Store("difference", Minus(Call("next", <<>>), Call("next", <<>>))),
        Store("first", On(Env("ADDRESS"), Method(2, 2, TRUE, TRUE), <<Var("x"), Lit(9)>>))>>),
    External("both", <<"k", "l">>, TRUE,
      <<Require(Bin(Sender, "==", Env("ADDRESS"))), Let("y", Plus(Var("k"), Lit(1))),
        Emit(Transfer, <<Var("k"), Var("k"), Var("k"), Var("k"), Var("l")>>),
        Store("local", Var("y")),
        Tuple(<<Balance(Var("k")), Balance(Var("l"))>>)>>),
    Internal("next", <<>>, TRUE, <<Store("n", Plus(Field("n"), Lit(1))), Result(Field("n"))>>)>>)

\* `fn tell(&self, target: Address, other: Address, x: U256) -> (ShortString,
\* ShortString, U256)` says what it knows in an event { #[indexed] x: U256,
\* name: ShortString }, asks another contract for a name, has it changed, and
\* asks an account without code for a number.
Named == Contract(<<FieldOf("n", <<>>)>>,
  <<View(Textual(External("name", <<>>, TRUE, <<Result(Str(Text(7, 9)))>>), <<TRUE>>)),
    External("set_value", <<"v">>, FALSE, <<Store("n", Var("v"))>>)>>)
Telling == [Contract(<<>>,
  <<View(Textual(External("tell", <<"target", "other", "x">>, TRUE,
      <<Emit(1, <<Var("x"), Str(Text(7, 9))>>),
        Do(SetValue(Target, Var("x"))),
        Tuple(<<Str(Text(7, 9)), ValueOf(Target), ValueOf(Var("other"))>>)>>),
      <<TRUE, TRUE, FALSE>>))>>)
  EXCEPT !.events = [event \in {1} |-> [indexed |-> <<TRUE, FALSE>>, text |-> <<FALSE, TRUE>>]]]
=============================================================================
