----------------------------- MODULE MCGrammar ------------------------------
(* Every function of a small grammar: two statements, each of them any     *)
(* kind, alone, under an if, in one of the branches of an if-else, or in a *)
(* loop, over a few operands, calls to itself through an interface among   *)
(* them; then the local and the storage they left are combined into the    *)
(* result.                                                                 *)
EXTENDS Compile

x == Var("x")
a == Var("a")
Total == Field("total")
Entry1 == Get(Field("map"), Var("a"))

Operands == <<Lit(2), x, Entry1>>
Conditions == <<Bin(x, "<", a), Bin(x, "<=", a), Bin(x, ">", a), Bin(x, ">=", a)>>
Each(seq, form(_)) == [i \in DOMAIN seq |-> form(seq[i])]

Noted(p, q) == On(Env("ADDRESS"), Method(2, 2, TRUE, TRUE), <<p, q>>)

Simple ==
  Each(Operands, LAMBDA e : Insert(Field("map"), x, Bin(e, "-", a)))
    \o Each(Operands, LAMBDA e : Store("total", Bin(a, "-", e)))
    \o <<Do(Call("note", <<x, a>>)), Let("y", Call("note", <<a, x>>)),
         Do(Noted(x, a)), Store("total", Noted(a, x)),
         Require(Bin(x, "!=", Lit(2)))>>

\* Statements that change the condition of a loop stay out of it.
Statements ==
  Simple
    \o Each(<<a, Total>>, LAMBDA e : Assign("x", Bin(x, "+", e)))
    \o Each(Simple, LAMBDA stmt : If(Bin(x, "<=", a), <<stmt>>, <<>>))
    \o Each(Conditions, LAMBDA c : If(c, <<Assign("x", Lit(5))>>, <<<<Store("total", x)>>>>))
    \o Each(Simple, LAMBDA stmt :
              While(Bin(x, "<", Lit(2)), <<stmt, Assign("x", Bin(x, "+", Lit(1)))>>))

Body(s, t) == <<Let("x", a), s, t, Result(Bin(Bin(x, "*", Lit(3)), "-", Total))>>

ContractWith(body) ==
  Contract(<<FieldOf("total", <<>>), FieldOf("map", <<"mapping">>)>>,
    LET note == <<Let("a", Bin(x, "+", Var("p"))),
                  Insert(Field("map"), a, Var("p")), Result(a)>>
    IN <<External("f", <<"a">>, TRUE, body),
         External("noted", <<"p", "x">>, TRUE, note),
         Internal("note", <<"p", "x">>, TRUE, note)>>)

MCSystems ==
  LET n == Len(Statements)
      body(k) == Body(Statements[(k - 1) \div n + 1], Statements[((k - 1) % n) + 1])
  IN [k \in 1 .. n * n |-> [account \in {77} |-> ContractWith(body(k))]]

MCTransactions(contracts, created) ==
  {[create |-> FALSE, to |-> 77, selector |-> 1, args |-> <<n>>, sender |-> 1, time |-> 9] :
     n \in {0, 1, 2}}
=============================================================================
