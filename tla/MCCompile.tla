----------------------------- MODULE MCCompile ------------------------------
(* The corpus, deployed one system of contracts at a time, and sent every  *)
(* sequence of MaxTransactions transactions over a few values: Arguments   *)
(* for numbers, SomeTexts for strings, created accounts for what is named  *)
(* target, and OtherTargets, which have no code, for what is named other.  *)
EXTENDS Compile, Corpus

CONSTANTS Senders, Arguments, SomeTexts, OtherTargets

Alone(c) == [a \in {77} |-> c]
Both(c, d) == [a \in {77, 78} |-> IF a = 77 THEN c ELSE d]
All(cs) == <<>> \o [k \in DOMAIN cs |-> Alone(cs[k])]

MCCorpus ==
  All(<<Counter, Token3, Holders, Branchy, Mathy, Nested, Loops, Recursive, Surplus, Owned, Meta, Names>>)
    \o <<Both(CallerTest, CalleeTest), Both(Router, Router)>>
MCErc20 == <<Alone(Erc20)>>

MCNestedLoops == <<Alone(NestedLoops)>>
MCStepping == <<Alone(Stepping)>>
MCTelling == <<Both(Telling, Named)>>

MCTexts == {Text(0, 0), Text(3, 5), Text(31, 15), Text(32, 1)}
MCSymbol == {Text(3, 5)}

Values(f, x, targets) ==
  IF x \in f.texts THEN SomeTexts
  ELSE IF x = "target" THEN targets ELSE IF x = "other" THEN OtherTargets ELSE Arguments
ArgumentLists(f, targets) ==
  {args \in [DOMAIN f.params -> SomeTexts \cup Arguments \cup targets \cup OtherTargets] :
     \A j \in DOMAIN args : args[j] \in Values(f, f.params[j], targets)}
Transaction(create, a, selector, args, sender) ==
  [create |-> create, to |-> a, selector |-> selector, args |-> args, sender |-> sender, time |-> 9]

\* What implements the interfaces of the corpus: their first method takes nothing.
Implementing(contracts, created) ==
  {a \in created : Externals(contracts[a])[1].params = <<>>}

\* The empty string is not for constructors (see run empty_string).  Selector 0
\* is not a function of any contract.
Creations(a, c) ==
  IF c.constructor = <<>> THEN {}
  ELSE {Transaction(TRUE, a, 0, args, Min(Senders)) :
          args \in {l \in ArgumentLists(c.constructor[1], {}) : Text(0, 0) \notin Range(l)}}
Messages(a, c, senders, targets) ==
  {Transaction(FALSE, a, 0, <<>>, 1)} \cup
    UNION {{Transaction(FALSE, a, i, args, s) : args \in ArgumentLists(Externals(c)[i], targets),
                                         s \in senders} : i \in DOMAIN Externals(c)}

\* Where contracts send messages to each other, one sender outside is enough.
Outside(contracts) == IF Cardinality(DOMAIN contracts) > 1 THEN {Min(Senders)} ELSE Senders
MCTransactions(contracts, created) ==
  UNION {Creations(a, contracts[a]) : a \in DOMAIN contracts \ created} \cup
  UNION {Messages(a, contracts[a], Outside(contracts), Implementing(contracts, created)) :
           a \in created}
=============================================================================
