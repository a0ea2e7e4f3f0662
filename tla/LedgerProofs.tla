---------------------------- MODULE LedgerProofs ----------------------------
(***************************************************************************)
(* Theorems about module Ledger, for any number of accounts, any width of  *)
(* a word and any set of calls.                                            *)
(***************************************************************************)
EXTENDS Ledger, TLAPS

\* The constructor is what is called first, and only then; before it has run
\* nobody has anything.
Fresh ==
  /\ call.method # "none" => (call.method = "construct" <=> ~deployed)
  /\ ~deployed => \A a \in Accounts : balances[a] = 0

IInv == TypeOK /\ Fresh /\ Conserved

----------------------------------------------------------------------------
(* The running sums.                                                       *)

\* What a balance is, is between two of the sums.
LEMMA Between ==
  ASSUME TypeOK, NEW p \in [0 .. N -> 0 .. total_supply], Sums(p), NEW a \in Accounts
  PROVE  /\ a \in 1 .. N /\ a - 1 \in 0 .. N /\ a \in 0 .. N
         /\ p[a] \in Nat /\ p[a - 1] \in Nat /\ balances[a] \in Nat
         /\ p[a] = p[a - 1] + balances[a] /\ p[a] <= total_supply
<1>1. a \in 1 .. N /\ a - 1 \in 0 .. N /\ a \in 0 .. N
  BY LedgerAssumption DEF Accounts
<1>2. total_supply \in Nat /\ balances[a] \in Nat
  BY LedgerAssumption DEF TypeOK, Amounts
<1>3. p[a] \in 0 .. total_supply /\ p[a - 1] \in 0 .. total_supply
  BY <1>1
<1> QED BY <1>1, <1>2, <1>3 DEF Sums

\* Moving an amount that from has leaves running sums: those from from on fall
\* by it, those from to on rise by it.
LEMMA MovedSums ==
  ASSUME TypeOK, Conserved,
         NEW from \in Accounts, NEW to \in Accounts, NEW amount \in Amounts,
         amount <= balances[from],
         balances' = Moved(balances, from, to, amount),
         total_supply' = total_supply
  PROVE  /\ Conserved' /\ balances' \in [Accounts -> Amounts]
         /\ \A i \in Accounts : balances'[i] = balances[i] - (IF i = from THEN amount ELSE 0)
                                                          + (IF i = to THEN amount ELSE 0)
<1>1. PICK p \in [0 .. N -> 0 .. total_supply] : Sums(p) /\ p[N] = total_supply
  BY DEF Conserved
<1> DEFINE fall(i) == IF i >= from THEN amount ELSE 0
           rise(i) == IF i >= to THEN amount ELSE 0
           q == [i \in 0 .. N |-> p[i] - fall(i) + rise(i)]
<1>2. N \in Nat /\ amount \in Nat /\ total_supply \in Nat /\ Modulus \in Nat
      /\ total_supply < Modulus /\ from \in 1 .. N /\ to \in 1 .. N
  BY LedgerAssumption DEF TypeOK, Amounts, Accounts
<1>3. \A i \in 0 .. N : p[i] \in Nat /\ p[i] <= total_supply
  BY <1>1, <1>2
<1>4. \A i, j \in 0 .. N : i <= j => p[i] <= p[j]
  BY <1>1 DEF Sums
<1>5. \A i, j \in 0 .. N : i < from /\ from <= j => p[i] + amount <= p[j]
  <2> SUFFICES ASSUME NEW i \in 0 .. N, NEW j \in 0 .. N, i < from, from <= j
               PROVE  p[i] + amount <= p[j]
    OBVIOUS
  <2>1. p[from] = p[from - 1] + balances[from] /\ from - 1 \in 0 .. N /\ from \in 0 .. N
        /\ balances[from] \in Nat
    BY <1>1, Between
  <2>2. i <= from - 1
    BY <1>2
  <2>3. p[i] <= p[from - 1] /\ p[from] <= p[j]
    BY <1>4, <2>1, <2>2
  <2>4. p[i] \in Nat /\ p[j] \in Nat /\ p[from] \in Nat /\ p[from - 1] \in Nat
    BY <1>3, <2>1
  <2> QED BY <2>1, <2>3, <2>4, <1>2
<1>6. \A i, j \in 0 .. N : i <= j => q[i] <= q[j]
  <2> SUFFICES ASSUME NEW i \in 0 .. N, NEW j \in 0 .. N, i <= j
               PROVE  p[i] - fall(i) + rise(i) <= p[j] - fall(j) + rise(j)
    OBVIOUS
  <2>1. p[i] \in Nat /\ p[j] \in Nat /\ p[i] <= p[j]
    BY <1>3, <1>4
  <2>2. i < from /\ from <= j => p[i] + amount <= p[j]
    BY <1>5
  <2>3. rise(i) <= rise(j) /\ rise(i) \in Nat /\ rise(j) \in Nat
    BY <1>2
  <2>4. fall(i) = fall(j) \/ (i < from /\ from <= j /\ fall(i) = 0 /\ fall(j) = amount)
    BY <1>2
  <2>5. fall(i) \in Nat /\ fall(j) \in Nat
    BY <1>2
  <2> HIDE DEF fall, rise
  <2> QED BY <2>1, <2>2, <2>3, <2>4, <2>5, <1>2, SMTT(30)
<1>7. q[0] = 0 /\ q[N] = total_supply
  BY <1>1, <1>2 DEF Sums
<1>8. \A i \in 0 .. N : q[i] \in 0 .. total_supply
  <2> TAKE i \in 0 .. N
  <2>1. q[i] \in Int
    BY <1>2, <1>3
  <2> HIDE DEF q
  <2>2. q[0] <= q[i] /\ q[i] <= q[N]
    BY <1>2, <1>6
  <2> QED BY <2>1, <2>2, <1>7, <1>2
<1>9. \A i \in Accounts :
        /\ balances'[i] = q[i] - q[i - 1] /\ balances'[i] \in Amounts
        /\ q[i] - q[i - 1] = balances[i] - (IF i = from THEN amount ELSE 0)
                                        + (IF i = to THEN amount ELSE 0)
  <2> TAKE i \in Accounts
  <2>1. p[i] = p[i - 1] + balances[i] /\ i - 1 \in 0 .. N /\ i \in 0 .. N /\ balances[i] \in Nat
        /\ p[i] \in Nat /\ p[i - 1] \in Nat /\ i \in 1 .. N
    BY <1>1, Between
  <2>2. q[i] - q[i - 1] = balances[i] - (IF i = from THEN amount ELSE 0)
                                      + (IF i = to THEN amount ELSE 0)
    <3>1. q[i] = p[i] - fall(i) + rise(i) /\ q[i - 1] = p[i - 1] - fall(i - 1) + rise(i - 1)
      BY <2>1
    <3> DEFINE left == IF i = from THEN amount ELSE 0
               come == IF i = to THEN amount ELSE 0
    <3>2. fall(i) = fall(i - 1) + left /\ rise(i) = rise(i - 1) + come
      BY <2>1, <1>2
    <3>3. fall(i - 1) \in Int /\ rise(i - 1) \in Int /\ left \in Int /\ come \in Int
      BY <1>2
    <3>4. p[i - 1] \in Int /\ balances[i] \in Int /\ p[i] = p[i - 1] + balances[i]
      BY <2>1
    <3>5. q[i] - q[i - 1] = balances[i] - left + come
      <4> HIDE DEF q, fall, rise, left, come
      <4>1. q[i] = (p[i - 1] + balances[i]) - (fall(i - 1) + left) + (rise(i - 1) + come)
        BY <3>1, <3>2, <3>4, Zenon
      <4> QED BY <3>1, <3>3, <3>4, <4>1
    <3> QED BY <3>5
  <2>3. q[i] - q[i - 1] \in 0 .. total_supply
    <3>1. q[i] \in 0 .. total_supply /\ q[i - 1] \in 0 .. total_supply /\ q[i - 1] <= q[i]
      BY <2>1, <1>6, <1>8
    <3> HIDE DEF q
    <3> QED BY <3>1, <1>2
  <2>4. balances'[i] = (IF i = to
                        THEN ((IF i = from THEN balances[i] - amount ELSE balances[i]) + amount) % Modulus
                        ELSE IF i = from THEN balances[i] - amount ELSE balances[i])
    BY DEF Moved, TypeOK
  <2>5. \A n \in 0 .. total_supply : n % Modulus = n /\ n \in Amounts
    BY <1>2 DEF Amounts
  <2> HIDE DEF q
  <2>6. CASE i = to
    <3>1. balances'[i] = (q[i] - q[i - 1]) % Modulus
      <4>1. (IF i = from THEN balances[i] - amount ELSE balances[i]) + amount = q[i] - q[i - 1]
        BY <2>6, <2>1, <2>2, <1>2
      <4> QED BY <4>1, <2>4, <2>6
    <3> QED BY <3>1, <2>2, <2>3, <2>5
  <2>7. CASE i # to
    <3>1. balances'[i] = q[i] - q[i - 1]
      BY <2>7, <2>1, <2>2, <2>4, <1>2
    <3> QED BY <3>1, <2>2, <2>3, <2>5
  <2> QED BY <2>2, <2>6, <2>7
<1>10. balances' \in [Accounts -> Amounts]
  <2>1. DOMAIN balances' = Accounts /\ balances' = [i \in Accounts |-> balances'[i]]
    BY DEF Moved, TypeOK
  <2> QED BY <1>9, <2>1
<1>11. \A i \in Accounts : q[i] = q[i - 1] + balances'[i]
  <2> TAKE i \in Accounts
  <2>1. i \in 0 .. N /\ i - 1 \in 0 .. N
    BY <1>1, Between
  <2>2. q[i] \in Int /\ q[i - 1] \in Int
    BY <1>8, <1>2, <2>1, SMTT(30)
  <2>3. balances'[i] = q[i] - q[i - 1]
    BY <1>9
  <2> HIDE DEF q
  <2> QED BY <2>2, <2>3
<1>12. q \in [0 .. N -> 0 .. total_supply']
  BY <1>8
<1> HIDE DEF q
<1>13. \A i \in Accounts : balances'[i] = balances[i] - (IF i = from THEN amount ELSE 0)
                                                     + (IF i = to THEN amount ELSE 0)
  BY <1>9
<1>14. Conserved'
  BY <1>6, <1>7, <1>11, <1>12 DEF Conserved, Sums
<1> QED BY <1>10, <1>13, <1>14

----------------------------------------------------------------------------
(* The steps.                                                              *)

\* What is known of a call that is carried out.
LEMMA Sent ==
  ASSUME TypeOK, call.method # "none"
  PROVE  call \in CallType /\ call.sender \in Accounts /\ call.from \in Accounts
         /\ call.to \in Accounts /\ call.amount \in Amounts
BY DEF TypeOK, NoCall, CallType

\* The constructor gives its sender the whole supply; the sums jump there.
LEMMA Supplied ==
  ASSUME IInv, Construct
  PROVE  Conserved' /\ balances' \in [Accounts -> Amounts]
<1>1. call.sender \in Accounts /\ call.amount \in Amounts /\ total_supply' = call.amount
      /\ balances' = [balances EXCEPT ![call.sender] = call.amount]
  BY Sent DEF IInv, Construct
<1>2. \A a \in Accounts : balances[a] = 0
  BY DEF IInv, Fresh, Construct
<1> DEFINE q == [i \in 0 .. N |-> IF i >= call.sender THEN call.amount ELSE 0]
<1>3. N \in Nat /\ call.amount \in Nat /\ call.sender \in 1 .. N
  BY <1>1, LedgerAssumption DEF Amounts, Accounts
<1>4. q \in [0 .. N -> 0 .. total_supply'] /\ q[0] = 0 /\ q[N] = total_supply'
  BY <1>1, <1>3
<1>5. \A i \in Accounts : q[i] = q[i - 1] + balances'[i]
  <2> TAKE i \in Accounts
  <2>1. balances'[i] = IF i = call.sender THEN call.amount ELSE 0
    BY <1>1, <1>2 DEF IInv, TypeOK
  <2> QED BY <2>1, <1>3 DEF Accounts
<1>6. \A i, j \in 0 .. N : i <= j => q[i] <= q[j]
  BY <1>3
<1>7. balances' \in [Accounts -> Amounts]
  BY <1>1 DEF IInv, TypeOK
<1> HIDE DEF q
<1> QED BY <1>4, <1>5, <1>6, <1>7 DEF Conserved, Sums

LEMMA Initially == Init => IInv
<1> SUFFICES ASSUME Init PROVE IInv
  OBVIOUS
<1>1. TypeOK
  <2>1. 0 \in Amounts
    BY LedgerAssumption DEF Amounts
  <2> QED BY <2>1 DEF Init, TypeOK
<1>2. Fresh
  BY DEF Init, Fresh, NoCall
<1>3. Conserved
  <2> DEFINE q == [i \in 0 .. N |-> 0]
  <2>1. q \in [0 .. N -> 0 .. total_supply] /\ q[N] = total_supply /\ Sums(q)
    BY LedgerAssumption DEF Init, Sums, Accounts
  <2> QED BY <2>1 DEF Conserved
<1> QED BY <1>1, <1>2, <1>3 DEF IInv

\* Balances and supply are what they were.
LEMMA Kept ==
  ASSUME Conserved, UNCHANGED <<total_supply, balances>>
  PROVE  Conserved'
BY DEF Conserved, Sums

\* What is moved is there to be moved.
LEMMA Covered ==
  ASSUME IInv, Transfer \/ TransferFrom
  PROVE  /\ deployed /\ call.sender \in Accounts /\ call.from \in Accounts
         /\ call.to \in Accounts /\ call.amount \in Amounts
         /\ Transfer => call.amount <= balances[call.sender]
         /\ TransferFrom => /\ call.amount <= balances[call.from]
                            /\ call.amount <= allowances[call.from][call.sender]
<1> USE DEF IInv
<1>1. call.method \in {"transfer", "transferFrom"} /\ call.method # "none"
  BY DEF Transfer, TransferFrom
<1>2. call.sender \in Accounts /\ call.from \in Accounts
      /\ call.to \in Accounts /\ call.amount \in Amounts
  BY <1>1, Sent
<1>3. deployed
  BY <1>1 DEF Fresh, TypeOK
<1>4. /\ balances[call.sender] \in Int /\ balances[call.from] \in Int
      /\ allowances[call.from][call.sender] \in Int /\ call.amount \in Int
  BY <1>2, LedgerAssumption DEF TypeOK, Amounts
<1> QED BY <1>2, <1>3, <1>4 DEF Transfer, TransferFrom

\* An allowance that covers what is spent of it stays a word.
LEMMA SpentTyped ==
  ASSUME TypeOK, NEW owner \in Accounts, NEW spender \in Accounts, NEW to, NEW value \in Amounts,
         value <= allowances[owner][spender]
  PROVE  Spent(allowances, owner, spender, to, value) \in [Accounts -> [Accounts -> Amounts]]
<1>1. allowances[owner][spender] - value \in Amounts
  BY LedgerAssumption DEF TypeOK, Amounts
<1> QED BY <1>1 DEF TypeOK, Spent, Approved

LEMMA Inductive == IInv /\ [Next]_vars => IInv'
<1> SUFFICES ASSUME IInv, [Next]_vars PROVE IInv'
  OBVIOUS
<1> USE DEF IInv
<1>1. CASE Send
  <2>1. PICK c \in Calls : (c.method = "construct" <=> ~deployed) /\ call' = c
    BY <1>1 DEF Send
  <2>2. c \in CallType
    BY LedgerAssumption
  <2> QED BY <1>1, <2>1, <2>2, Kept DEF Send, TypeOK, Fresh
<1>2. CASE Construct
  <2>1. call.method # "none" /\ call.amount \in Amounts
    BY <1>2, Sent DEF Construct
  <2> QED BY <1>2, <2>1, Supplied DEF Construct, TypeOK, Fresh, Done, NoCall
<1>3. CASE Transfer
  <2>1. Conserved' /\ balances' \in [Accounts -> Amounts]
    BY <1>3, Covered, MovedSums DEF Transfer
  <2>2. deployed' /\ call'.method = "none"
    BY <1>3, Covered DEF Transfer, Done, NoCall
  <2>3. TypeOK'
    BY <1>3, <2>1 DEF Transfer, TypeOK, Done
  <2> QED BY <2>1, <2>2, <2>3 DEF Fresh
<1>4. CASE TransferFrom
  <2>1. Conserved' /\ balances' \in [Accounts -> Amounts]
    BY <1>4, Covered, MovedSums DEF TransferFrom
  <2>2. deployed' /\ call'.method = "none"
    BY <1>4, Covered DEF TransferFrom, Done, NoCall
  <2>3. allowances' \in [Accounts -> [Accounts -> Amounts]]
    BY <1>4, Covered, SpentTyped DEF TransferFrom
  <2>4. TypeOK'
    BY <1>4, <2>1, <2>3 DEF TransferFrom, TypeOK, Done
  <2> QED BY <2>1, <2>2, <2>4 DEF Fresh
<1>5. CASE Approve
  <2>1. call.method # "none" /\ call.amount \in Amounts
    BY <1>5, Sent DEF Approve
  <2>2. TypeOK'
    BY <1>5, <2>1 DEF Approve, Approved, TypeOK, Done
  <2> QED BY <1>5, <2>2, Kept DEF Approve, Fresh, Done, NoCall
<1>6. CASE View
  BY <1>6, Kept DEF View, TypeOK, Fresh, Done, NoCall
<1>7. CASE Refuse
  BY <1>7, Kept DEF Refuse, TypeOK, Fresh, Done, NoCall
<1>8. CASE UNCHANGED vars
  BY <1>8, Kept DEF vars, TypeOK, Fresh
<1> QED BY <1>1, <1>2, <1>3, <1>4, <1>5, <1>6, <1>7, <1>8 DEF Next

\* The ledger keeps its types: a balance or an allowance that is subtracted from
\* never underflows (transfer, transferFrom and _spend_allowance in
\* src/examples/erc20.rs).
THEOREM Typing == Spec => []TypeOK
<1>1. IInv => TypeOK
  BY DEF IInv
<1> QED BY Initially, Inductive, <1>1, PTL DEF Spec

\* For every number of accounts and every width of a word, the balances add up
\* to total_supply after every transaction (_transfer in src/examples/erc20.rs).
THEOREM Conservation == Spec => []Conserved
<1>1. IInv => Conserved
  BY DEF IInv
<1> QED BY Initially, Inductive, <1>1, PTL DEF Spec

----------------------------------------------------------------------------
(* Custody.                                                                *)

\* Moving an amount takes nothing from anybody but from.
LEMMA MovedFrom ==
  ASSUME TypeOK, Conserved,
         NEW from \in Accounts, NEW to \in Accounts, NEW amount \in Amounts,
         amount <= balances[from], balances' = Moved(balances, from, to, amount),
         total_supply' = total_supply, NEW a \in Accounts
  PROVE  /\ balances'[a] < balances[a] => a = from /\ balances[a] - balances'[a] = amount
         /\ a = from /\ to # a => balances[a] - balances'[a] = amount
<1>1. balances'[a] = balances[a] - (IF a = from THEN amount ELSE 0)
                                + (IF a = to THEN amount ELSE 0)
  BY MovedSums
<1>2. balances[a] \in Int /\ amount \in Nat
  BY LedgerAssumption DEF TypeOK, Amounts
<1> QED BY <1>1, <1>2

\* Spending an allowance lowers that one by what is spent.
LEMMA SpentFrom ==
  ASSUME TypeOK, NEW owner \in Accounts, NEW spender \in Accounts, NEW to, NEW value \in Amounts,
         allowances' = Spent(allowances, owner, spender, to, value)
  PROVE  /\ allowances[owner][spender] - allowances'[owner][spender] = value
         /\ \A a, b \in Accounts : allowances'[a][b] # allowances[a][b] => a = owner /\ b = spender
<1>1. allowances'[owner][spender] = allowances[owner][spender] - value
  BY DEF Spent, Approved, TypeOK
<1>2. allowances[owner][spender] \in Int /\ value \in Int
  BY LedgerAssumption DEF TypeOK, Amounts
<1>3. \A a, b \in Accounts : allowances'[a][b] # allowances[a][b] => a = owner /\ b = spender
  BY DEF Spent, Approved, TypeOK
<1> QED BY <1>1, <1>2, <1>3

LEMMA EveryStepCustody == IInv /\ [Next]_vars => [CustodyStep]_vars
<1> SUFFICES ASSUME IInv, Next, NEW a \in Accounts
             PROVE  CustodyStep!(a)
  BY DEF CustodyStep
<1> USE DEF IInv
<1>1. \A x \in Accounts : balances[x] \in Int
  BY LedgerAssumption DEF TypeOK, Amounts
<1>2. CASE Construct
  <2>1. \A x \in Accounts : balances[x] = 0
    BY <1>2 DEF Construct, Fresh
  <2>2. balances' \in [Accounts -> Amounts]
    BY <1>2, Supplied
  <2>3. ~(balances'[a] < balances[a])
    BY <2>1, <2>2, LedgerAssumption DEF Amounts
  <2> QED BY <1>2, <2>3 DEF Construct
<1>3. CASE Transfer
  <2>1. balances'[a] < balances[a] => a = call.sender
    BY <1>3, Covered, MovedFrom DEF Transfer
  <2> QED BY <1>3, <2>1 DEF Transfer
<1>4. CASE TransferFrom
  <2>1. /\ call.from \in Accounts /\ call.sender \in Accounts
        /\ call.method = "transferFrom"
    BY <1>4, Covered DEF TransferFrom
  <2>2. /\ balances'[a] < balances[a] => a = call.from /\ balances[a] - balances'[a] = call.amount
        /\ a = call.from /\ call.to # a => balances[a] - balances'[a] = call.amount
    BY <1>4, Covered, MovedFrom DEF TransferFrom
  <2>3. /\ allowances[call.from][call.sender] - allowances'[call.from][call.sender] = call.amount
        /\ \A x, b \in Accounts : allowances'[x][b] # allowances[x][b]
                                  => x = call.from /\ b = call.sender
    BY <1>4, Covered, SpentFrom DEF TransferFrom
  <2> QED BY <2>1, <2>2, <2>3
<1>5. CASE Approve
  <2>1. \A b \in Accounts : allowances'[a][b] # allowances[a][b] => call.sender = a
    BY <1>5, Sent DEF Approve, Approved, TypeOK
  <2> QED BY <1>1, <1>5, <2>1 DEF Approve
<1>6. CASE Send \/ View \/ Refuse
  BY <1>1, <1>6 DEF Send, View, Refuse
<1> QED BY <1>2, <1>3, <1>4, <1>5, <1>6 DEF Next

\* Nobody's tokens are moved but by its owner or within what the owner approved,
\* and an allowance is spent as it is used (transfer, transferFrom, approve and
\* _spend_allowance in src/examples/erc20.rs).
THEOREM CustodyHolds == Spec => Custody
BY Initially, Inductive, EveryStepCustody, PTL DEF Spec, Custody
=============================================================================
