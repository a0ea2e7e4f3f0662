------------------------------ MODULE MCToken -------------------------------
(* The compiled ERC20 example as an implementation of Ledger: its balances *)
(* and allowances are what the slots of account 77 stand for, its call is  *)
(* the transaction that runs.                                              *)
EXTENDS MCCompile

Token == 77
Slot(field) == Word(SlotOf(Erc20, field))
EntryOf(map, key) == Keccak(<<Word(key), map>>)
Held(slot) == IF Token \in DOMAIN store THEN Number(At(store[Token], slot)) ELSE 0

\* The function a selector names, and the accounts and the amount it is given.
Method1(t) == IF t.create THEN "construct" ELSE Externals(Erc20)[t.selector].name
Given(t, x, otherwise) ==
  LET params == IF t.create THEN Erc20.constructor[1].params
                ELSE Externals(Erc20)[t.selector].params
  IN IF x \in Range(params) THEN t.args[IndexOf(params, x)] ELSE otherwise
AsCall(t) ==
  [method |-> Method1(t), sender |-> t.sender, from |-> Given(t, "from", 1),
   to |-> Given(t, "to", Given(t, "spender", 1)),
   amount |-> Given(t, "amount", Given(t, "value", Given(t, "total_supply", 0)))]

\* A selector that is not one of the token's is no call to it.
Accepted(t) == t.create \/ t.selector \in DOMAIN Externals(Erc20)
TokenCalls ==
  {AsCall(t) : t \in {u \in MCTransactions(Systems[1], {}) \cup
                          MCTransactions(Systems[1], {Token}) : Accepted(u)}}

Books == INSTANCE Ledger WITH
  N <- 2,
  Calls <- TokenCalls,
  deployed <- Token \in DOMAIN store,
  total_supply <- Held(Slot("total_supply")),
  balances <- [a \in 1 .. 2 |-> Held(EntryOf(Slot("balances"), a))],
  allowances <- [a \in 1 .. 2 |-> [b \in 1 .. 2 |-> Held(EntryOf(EntryOf(Slot("allowances"), a), b))]],
  call <- IF m.status = "idle" \/ ~Accepted(tx) THEN [method |-> "none"] ELSE AsCall(tx)

\* The token keeps the books: every transaction does to its balances, allowances
\* and supply what Ledger says of that call, and nothing else changes them.
KeepsTheBooks == Books!Spec
=============================================================================
