------------------------------ MODULE Compile -------------------------------
(***************************************************************************)
(* Deployed contracts: the code that Lowering makes of them, run by the    *)
(* machine of Evm, one instruction a step, transaction after transaction,  *)
(* calls from contract to contract included.  They are to do what Source   *)
(* says they mean.                                                         *)
(***************************************************************************)
EXTENDS Lowering

CONSTANTS
  Systems,         \* what may be deployed: a sequence of maps, address -> contract
  Transactions(_, _), \* those to consider for a system, given its created accounts
  MaxTransactions  \* bound on how many of them are sent

ASSUME CompileAssumption == MaxTransactions \in Nat

VARIABLES
  system,     \* index of the system that is deployed
  store,      \* its committed storage: created account -> slot -> non-zero word
  tx,         \* the last transaction sent
  m,          \* the machine running it; status "idle" between transactions
  receipt,    \* what came of the last transaction
  count       \* transactions sent so far

vars == <<system, store, tx, m, receipt, count>>

Code == <<>> \o [k \in DOMAIN Systems |->
                   [a \in DOMAIN Systems[k] |-> Assemble(Systems[k][a])]]

NoTx == [create |-> FALSE, to |-> 0, selector |-> 0, args |-> <<>>, sender |-> 0, time |-> 0]
NoReceipt == [ok |-> TRUE, output |-> <<>>, logs |-> <<>>]
Failed == [NoReceipt EXCEPT !.ok = FALSE]
Nobody == Envelope(FALSE, 0, 0, 0, 0, <<>>, FALSE)
Idle == Halt(Boot(NoMap, Nobody), "idle", <<>>)

\* A word that leaves the machine is a number.
Number(w) == IF IsNumber(w) THEN w.plus ELSE -1
Numbers(ws) == [j \in DOMAIN ws |-> Number(ws[j])]

\* The sender of a transaction encodes its arguments, and decodes its output
\* and its logs, by the types the ABI gives for them.
Callable(t) ==
  IF t.create THEN Systems[system][t.to].constructor
  ELSE IF t.selector \in DOMAIN Externals(Systems[system][t.to])
       THEN <<Externals(Systems[system][t.to])[t.selector]>> ELSE <<>>
Sealed(t) ==
  LET words == AbiEncode(IF Callable(t) = <<>> THEN <<>> ELSE ParamTexts(Callable(t)[1]), t.args)
  IN Envelope(t.create, t.to, t.sender, t.time, t.selector,
              [j \in DOMAIN words |-> Word(words[j])], FALSE)
Log(l) ==
  [l EXCEPT !.data = AbiDecode(EventOf(Systems[system][l.by], l.topics[1]).text, Numbers(@))]
Succeeded(mm) ==
  [ok |-> TRUE, logs |-> [j \in DOMAIN mm.logs |-> Log(mm.logs[j])],
   output |-> IF mm.output = <<>> THEN <<>>
              ELSE AbiDecode(Callable(tx)[1].text, Numbers(mm.output))]

\* A contract the macro rejects is never deployed.
Init ==
  /\ system \in {k \in DOMAIN Code : \A a \in DOMAIN Code[k] : Compiles(Code[k][a])}
  /\ store = [a \in {b \in DOMAIN Systems[system] : Systems[system][b].constructor = <<>>} |-> NoMap]
  /\ tx = NoTx
  /\ m = Idle
  /\ receipt = NoReceipt
  /\ count = 0

Submit ==
  /\ m.status = "idle" /\ count < MaxTransactions
  /\ \E t \in Transactions(Systems[system], DOMAIN store) :
       /\ IF t.create THEN t.to \notin DOMAIN store ELSE t.to \in DOMAIN store
       /\ tx' = t
       /\ m' = Boot(IF t.create THEN Write(store, t.to, NoMap) ELSE store, Sealed(t))
  /\ count' = count + 1
  /\ receipt' = NoReceipt
  /\ UNCHANGED <<system, store>>

\* What runs in the current frame.
Running ==
  LET code == Code[system][m.env.this] IN IF m.env.create THEN code.create ELSE code.run

Execute ==
  /\ m.status = "running"
  /\ m' = Step(Running, m)
  /\ UNCHANGED <<system, store, tx, receipt, count>>

\* The end of a call, or of the transaction.
Answer ==
  /\ m.status \in {"stop", "return", "revert", "invalid"} /\ m.callers # <<>>
  /\ m' = Resume(m)
  /\ UNCHANGED <<system, store, tx, receipt, count>>

Commit ==
  /\ m.status \in {"stop", "return"} /\ m.callers = <<>>
  /\ store' = m.world
  /\ receipt' = Succeeded(m)
  /\ m' = Idle
  /\ UNCHANGED <<system, tx, count>>

\* A REVERT, or an instruction the EVM refuses.
Rollback ==
  /\ m.status \in {"revert", "invalid"} /\ m.callers = <<>>
  /\ receipt' = Failed
  /\ m' = Idle
  /\ UNCHANGED <<system, store, tx, count>>

Next ==
  \/ Submit
  \/ Execute
  \/ Answer
  \/ Commit
  \/ Rollback

\* The EVM runs a transaction it has accepted to its end.
Fairness == WF_vars(Execute \/ Answer \/ Commit \/ Rollback)

Spec == Init /\ [][Next]_vars
FairSpec == Spec /\ Fairness

----------------------------------------------------------------------------
(* The storage the slots stand for.                                        *)

Nowhere == [loc |-> [field |-> "?", keys |-> <<>>], type |-> <<>>]

RECURSIVE Decode(_, _)
Decode(c, w) ==
  LET n == Len(w.of)
      base == Decode(c, Last(w.of))
      element(kind, key) ==
        IF base.type # <<>> /\ base.type[1] = kind
        THEN [loc |-> [base.loc EXCEPT !.keys = Append(@, key)], type |-> Tail(base.type)]
        ELSE Nowhere
  IN CASE n = 0 /\ w.plus + 1 \in DOMAIN c.fields ->
            [loc |-> [field |-> c.fields[w.plus + 1].name, keys |-> <<>>],
             type |-> c.fields[w.plus + 1].type]
       [] n = 2 /\ w.plus = 0 -> element("mapping", Number(w.of[1]))
       [] n = 1 -> element("array", w.plus)
       [] OTHER -> Nowhere

RepresentedBy(c, s) ==
  LET loc == [w \in DOMAIN s |-> Decode(c, w).loc]
  IN [l \in Range(loc) |-> Number(s[CHOOSE w \in DOMAIN s : loc[w] = l])]
Represented(world) ==
  [a \in DOMAIN world |-> RepresentedBy(Systems[system][a], world[a])]

\* The contracts' meaning, of which the machine is to be an implementation.
Meaning == INSTANCE Source
  WITH storage <- Represented(store),
       pending <- IF m.status = "idle" THEN NoTx ELSE tx

----------------------------------------------------------------------------
(* Properties.                                                             *)

\* The type of a running system: memory is written at offsets that alloc_local
\* and alloc_calldata hand out, and the machine is never stopped by a stack that
\* is too short or by a jump to nowhere.
TypeOK ==
  /\ system \in DOMAIN Systems
  /\ m.status \in {"idle", "running", "stop", "return", "revert"}
  /\ m.pc \in Nat /\ count \in 0 .. MaxTransactions
  /\ \A k \in DOMAIN m.mem : k % 32 \in {0, 4}
  /\ \A j \in DOMAIN m.stack : m.stack[j].plus \in 0 .. Modulus - 1
  /\ Len(m.callers) <= MaxDepth
  /\ receipt.ok \in BOOLEAN

\* The compiler is correct: every transaction leaves the storage, and returns
\* the output and the logs, that the Rust source of the function means.
Correct == Meaning!Spec

\* The same for the transaction that has just ended, as an invariant.
EndsAsMeant ==
  m.status \in {"stop", "return", "revert", "invalid"} /\ m.callers = <<>> =>
    LET out == Meaning!Outcome(Systems[system], tx, Represented(store))
    IN IF m.status \in {"stop", "return"}
       THEN out.receipt = Succeeded(m) /\ out.storage = Represented(m.world)
       ELSE ~out.receipt.ok

\* Every jump names a label that is placed at exactly one place: "pass 2:
\* resolved" (asm.rs:90) is what Op::emit relies on.
Unambiguous(ops) == \A p \in Jumps(ops) : Cardinality(Destinations(ops, ops[p].arg)) = 1
Resolved ==
  [k \in DOMAIN Code |->
     \A a \in DOMAIN Code[k] : Unambiguous(Code[k][a].run.ops) /\ Unambiguous(Code[k][a].create.ops)]
JumpsResolved == Resolved[system]

\* Nothing is left on the stack when a call or a transaction succeeds: each
\* statement consumed what its expressions pushed, on every path, the unused
\* results of calls included.
StackEmpty == m.status \in {"stop", "return"} => m.stack = <<>>

\* Memory regions are disjoint: the locals, the scratchpad and the calldata that
\* calls are given, wherever calls are nested in the operands of others.  No
\* word that was partly overwritten is ever computed with.
NothingTorn ==
  /\ \A j \in DOMAIN m.stack : ~IsTorn(m.stack[j])
  /\ \A j \in DOMAIN m.env.words : ~IsTorn(m.env.words[j])

\* A transaction looks from outside as the ABI JSON describes the contract: its
\* outputs and logs, read by their declared types, are what the source means, an
\* event's #[indexed] fields are topics beside its signature (lib.rs:225), and a
\* function that takes &self is a view (lib.rs:211), which leaves every account
\* as it was.
IndexedBy(l) == EventOf(Systems[system][l.by], l.topics[1]).indexed
AsTheAbiSays ==
  /\ EndsAsMeant
  /\ m.status \in {"stop", "return"} /\ m.callers = <<>> =>
       /\ \A j \in DOMAIN m.logs :
            Len(m.logs[j].topics) = 1 + Len(SelectSeq(IndexedBy(m.logs[j]), LAMBDA b : b))
       /\ ~tx.create /\ Callable(tx) # <<>> /\ Callable(tx)[1].view => m.world = store

\* "fn with no return must halt, else it falls into the next body"
\* (lower.rs:69): a function's entry is reached for its own selector only.
NoFallThrough ==
  m.status = "running" /\ ~m.env.create /\ m.pc \in DOMAIN Running.ops =>
    LET o == Running.ops[m.pc]
    IN o.op = "JUMPDEST" /\ o.arg = EntryLabel(o.arg[1]) =>
         m.env.selector = Selector(o.arg[1])

\* Every transaction ends: the code generated for a loop that terminates
\* leaves it, and contracts that call each other come back or fail.
EveryTransactionEnds == m.status # "idle" ~> m.status = "idle"
=============================================================================
