------------------------------- MODULE Ledger -------------------------------
(***************************************************************************)
(* The token of src/examples/erc20.rs as a ledger: what its balances,      *)
(* allowances and supply are after each transaction.  A call is sent, and  *)
(* then carried out or refused as a whole.  Its names, its events and the  *)
(* values its views return are left to module Source.                      *)
(***************************************************************************)
EXTENDS Integers

CONSTANTS
  N,         \* accounts are 1 .. N
  Modulus,   \* words are 0 .. Modulus - 1
  Calls      \* the calls that may be sent

Accounts == 1 .. N
Amounts == 0 .. Modulus - 1
Views == {"symbol", "name", "totalSupply", "balanceOf", "allowance"}
Methods == Views \cup {"construct", "transfer", "transferFrom", "approve"}

\* One record for all methods: what a method does not take is not looked at.
\* to is the spender of an approval.
CallType ==
  [method : Methods, sender : Accounts, from : Accounts, to : Accounts, amount : Amounts]

ASSUME LedgerAssumption ==
  /\ N \in Nat \ {0} /\ Modulus \in Nat \ {0}
  /\ Calls \subseteq CallType

VARIABLES
  deployed,       \* the constructor has run
  total_supply,
  balances,       \* account -> word
  allowances,     \* owner -> spender -> word
  call            \* the call that was sent, NoCall if none

vars == <<deployed, total_supply, balances, allowances, call>>

NoCall == [method |-> "none"]

Init ==
  /\ deployed = FALSE
  /\ total_supply = 0
  /\ balances = [a \in Accounts |-> 0]
  /\ allowances = [a \in Accounts |-> [b \in Accounts |-> 0]]
  /\ call = NoCall

Send ==
  /\ call = NoCall
  /\ \E c \in Calls : (c.method = "construct" <=> ~deployed) /\ call' = c
  /\ UNCHANGED <<deployed, total_supply, balances, allowances>>

Done == call' = NoCall

----------------------------------------------------------------------------
\* Mutant: both balances are read before either is written.
MovedStale(b, from, to, amount) ==
  [b EXCEPT ![from] = b[from] - amount, ![to] = (b[to] + amount) % Modulus]

\* The two inserts of _transfer, in words: the second reads what the first wrote.
Moved(b, from, to, amount) ==
  LET paid == [b EXCEPT ![from] = @ - amount]
  IN [paid EXCEPT ![to] = (@ + amount) % Modulus]

\* _approve
Approved(al, owner, spender, value) == [al EXCEPT ![owner][spender] = value]

\* Mutant: the allowance that is spent is not the caller's.
SpentTo(al, owner, spender, to, value) == Approved(al, owner, to, al[owner][to] - value)

\* _spend_allowance(owner, spender, value), in a transfer to to.
Spent(al, owner, spender, to, value) ==
  Approved(al, owner, spender, al[owner][spender] - value)

Construct ==
  /\ call.method = "construct"
  /\ deployed' = TRUE
  /\ total_supply' = call.amount
  /\ balances' = [balances EXCEPT ![call.sender] = call.amount]
  /\ Done
  /\ UNCHANGED allowances

Transfer ==
  /\ call.method = "transfer"
  /\ balances[call.sender] >= call.amount
  /\ balances' = Moved(balances, call.sender, call.to, call.amount)
  /\ Done
  /\ UNCHANGED <<deployed, total_supply, allowances>>

TransferFrom ==
  /\ call.method = "transferFrom"
  /\ allowances[call.from][call.sender] >= call.amount
  /\ balances[call.from] >= call.amount
  /\ allowances' = Spent(allowances, call.from, call.sender, call.to, call.amount)
  /\ balances' = Moved(balances, call.from, call.to, call.amount)
  /\ Done
  /\ UNCHANGED <<deployed, total_supply>>

Approve ==
  /\ call.method = "approve"
  /\ allowances' = Approved(allowances, call.sender, call.to, call.amount)
  /\ Done
  /\ UNCHANGED <<deployed, total_supply, balances>>

View ==
  /\ call.method \in Views
  /\ Done
  /\ UNCHANGED <<deployed, total_supply, balances, allowances>>

\* One of the two require() is false; nothing is left of the transaction.
Refuse ==
  /\ \/ call.method = "transfer" /\ balances[call.sender] < call.amount
     \/ call.method = "transferFrom" /\ \/ allowances[call.from][call.sender] < call.amount
                                        \/ balances[call.from] < call.amount
  /\ Done
  /\ UNCHANGED <<deployed, total_supply, balances, allowances>>

Next == Send \/ Construct \/ Transfer \/ TransferFrom \/ Approve \/ View \/ Refuse

Spec == Init /\ [][Next]_vars

----------------------------------------------------------------------------
(* Properties.                                                             *)

\* Balances and allowances are words: nothing that is subtracted underflows.
TypeOK ==
  /\ deployed \in BOOLEAN
  /\ total_supply \in Amounts
  /\ balances \in [Accounts -> Amounts]
  /\ allowances \in [Accounts -> [Accounts -> Amounts]]
  /\ call \in CallType \cup {NoCall}

\* p has the running sums of the balances.
Sums(p) ==
  /\ p[0] = 0
  /\ \A i \in Accounts : p[i] = p[i - 1] + balances[i]
  /\ \A i, j \in 0 .. N : i <= j => p[i] <= p[j]

\* The balances add up to total_supply, as numbers: U256 arithmetic never wraps,
\* although the code checks for underflow only, and a transfer to oneself
\* neither mints nor burns.
Conserved == \E p \in [0 .. N -> 0 .. total_supply] : Sums(p) /\ p[N] = total_supply

\* A balance falls only by its owner's transfer, or by what the caller had been
\* allowed and is allowed no more; an allowance changes only by its owner's
\* approve, or falls by what its spender moves from that owner's balance.
CustodyStep ==
  \A a \in Accounts :
    /\ balances'[a] < balances[a] =>
         \/ call.method = "transfer" /\ call.sender = a
         \/ /\ call.method = "transferFrom"
            /\ balances[a] - balances'[a]
                 = allowances[a][call.sender] - allowances'[a][call.sender]
    /\ \A b \in Accounts : allowances'[a][b] # allowances[a][b] =>
         \/ call.method = "approve" /\ call.sender = a
         \/ /\ call.method = "transferFrom" /\ call.sender = b /\ call.from = a
            /\ call.to # a => balances[a] - balances'[a] = allowances[a][b] - allowances'[a][b]
Custody == [][CustodyStep]_vars
=============================================================================
