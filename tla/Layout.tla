-------------------------------- MODULE Layout --------------------------------
(***************************************************************************)
(* Memory in the code of every function.  struct Lower of                  *)
(* src/macro/src/model.rs hands out memory from next_local upwards, for    *)
(* locals, inlined parameters and calldata; what is below FirstLocal is    *)
(* scratch, for hashing, events and results.  Nothing is ever freed, and   *)
(* code is not emitted in the order in which it was lowered.               *)
(*                                                                         *)
(* Code is a sequence of items: stores and loads, and templates, what a    *)
(* lower_* function of src/macro/src/lower.rs is yet to emit.  A step      *)
(* emits the first item or replaces it by one of the codes it may stand    *)
(* for.  lo and hi are next_local before and after a template's expression *)
(* or statement is lowered: a choice, because they depend on it.           *)
(*                                                                         *)
(* Every access is of an owner: a local, a call's buffer, or one use of    *)
(* the scratch.  Jumps are left out, since control does not leave a        *)
(* template between its store and its load (see module Templates), and so  *)
(* are items that do not touch memory.                                     *)
(***************************************************************************)
EXTENDS Integers, Sequences

CONSTANTS
  Word,            \* bytes of a word: 0x20
  SelectorLen,     \* bytes of a selector: 4
  MaxWords,        \* bound on the fields of an event and the elements of a tuple
  ScratchInTuples, \* may an element of a returned tuple, but for the first, use scratch?
  MaxLocal,        \* bound on next_local
  MaxSize          \* bound on the replacements that leave a template

FirstLocal == 4 * Word        \* 0x80

ASSUME LayoutAssumption ==
  /\ Word \in Nat /\ SelectorLen \in 1 .. Word
  /\ MaxWords \in Nat /\ ScratchInTuples \in BOOLEAN
  /\ MaxLocal \in Nat /\ MaxSize \in Nat

\* An item allocates lo .. hi - 1 and accesses at .. to - 1 for owner; a quiet
\* template leaves the scratch alone.
Template(op, lo, hi, quiet) ==
  [op |-> op, lo |-> lo, hi |-> hi, at |-> 0, to |-> 0, owner |-> <<"none", 0>>, quiet |-> quiet]
Access(op, at, to, owner) ==
  [op |-> op, lo |-> 0, hi |-> 0, at |-> at, to |-> to, owner |-> owner, quiet |-> TRUE]
Part(x, at, to, owner) == [x EXCEPT !.at = at, !.to = to, !.owner = owner]

Expr(lo, hi, quiet) == Template("Expr", lo, hi, quiet)
Place(lo, hi, quiet) == Template("Place", lo, hi, quiet)
Stmts(lo, hi, quiet) == Template("Stmts", lo, hi, quiet)

Local(slot) == <<"local", slot>>
StoreLocal(slot) == Access("Store", slot, slot + Word, Local(slot))
LoadLocal(slot) == Access("Load", slot, slot + Word, Local(slot))

VARIABLES
  code,      \* what is yet to be emitted
  mem,       \* address -> owner of the store to it that was emitted last
  locals,    \* slots of locals, parameters included, that have been stored to
  replaced,  \* templates replaced so far
  size       \* of them, how many were replaced by others

vars == <<code, mem, locals, replaced, size>>

New == replaced + 1

\* Values of next_local on the way from lo to hi.
Between(lo, hi) == {m \in lo .. hi : (m - lo) % Word = 0}

\* k words are stored at 0, and read together: KECCAK256, LOG1, RETURN.
Scratch(k) ==
  <<Access("Store", 0, k * Word, <<"scratch", New>>), Access("Load", 0, k * Word, <<"scratch", New>>)>>

Nothing(x) == IF x.lo = x.hi THEN {<<>>} ELSE {}

----------------------------------------------------------------------------
(* The codes a template x may stand for.                                   *)

\* A constant, a parameter in calldata, a field; a local; a mapping or array
\* read; operators, of which -, / and % emit the right operand first; calls.
LowerExpr(x) ==
  Nothing(x)
    \cup (IF x.lo = x.hi THEN {<<LoadLocal(slot)>> : slot \in locals} ELSE {})
    \cup {<<Expr(x.lo, m, x.quiet), Expr(m, x.hi, x.quiet)>> : m \in Between(x.lo, x.hi)}
    \cup {<<Expr(m, x.hi, x.quiet), Expr(x.lo, m, x.quiet)>> : m \in Between(x.lo, x.hi)}
    \cup {<<Template(op, x.lo, x.hi, x.quiet)>> : op \in {"Place", "Internal", "External"}}

\* A field's slot, or keyed: key and base are hashed, or the base alone.
LowerPlace(x) ==
  Nothing(x)
    \cup (IF x.quiet THEN {}
          ELSE {<<Place(x.lo, m, x.quiet), Expr(m, x.hi, x.quiet)>> \o Scratch(k) :
                  m \in Between(x.lo, x.hi), k \in {1, 2}})

\* lower_internal_call: the arguments, the body, and what it ends with.
LowerInternal(x) ==
  {<<Template("Bind", x.lo, m[1], x.quiet), Stmts(m[1], m[2], x.quiet), Expr(m[2], x.hi, x.quiet)>> :
     m \in {p \in Between(x.lo, x.hi) \X Between(x.lo, x.hi) : p[1] <= p[2]}}
\* Mutant: the next argument begins a word further than there was room for.
LowerBindBeyond(x) ==
  Nothing(x) \cup
    {<<Expr(x.lo, m, x.quiet), StoreLocal(m), Template("Bind", m + 2 * Word, x.hi, x.quiet)>> :
       m \in {p \in Between(x.lo, x.hi) : p + Word <= x.hi}}
LowerBind(x) ==
  Nothing(x) \cup
    {<<Expr(x.lo, m, x.quiet), StoreLocal(m), Template("Bind", m + Word, x.hi, x.quiet)>> :
       m \in {p \in Between(x.lo, x.hi) : p + Word <= x.hi}}

\* lower_external_call with n arguments: the buffer is allocated first; the
\* arguments, and then the address, are computed while it is being filled; the
\* result, if it is wanted, is put where the calldata was.
Buffer(x) == <<"buffer", x.lo>>
Sent(x, n, room, m, result) ==
  <<Access("Store", x.lo, x.lo + Word, Buffer(x)),
    Part(Template("Args", room, m, x.quiet),
         x.lo + SelectorLen, x.lo + SelectorLen + n * Word, Buffer(x)),
    Expr(m, x.hi, x.quiet),
    Access("Load", x.lo, x.lo + SelectorLen + n * Word, Buffer(x))>>
    \o (IF result THEN <<Access("Store", x.lo, x.lo + Word, Buffer(x)),
                         Access("Load", x.lo, x.lo + Word, Buffer(x))>>
                  ELSE <<>>)
Calls(x, n, room, result) == {Sent(x, n, room, m, result) : m \in Between(room, x.hi)}

\* Mutant: alloc_calldata does not count the selector's word.
LowerExternalUncounted(x) ==
  UNION {Calls(x, n, x.lo + n * Word, result) : n \in 0 .. (x.hi - x.lo), result \in BOOLEAN}
LowerExternal(x) ==
  UNION {Calls(x, n, x.lo + (1 + n) * Word, result) :
           n \in {k \in 0 .. x.hi - x.lo : x.lo + (1 + k) * Word <= x.hi}, result \in BOOLEAN}
LowerArgs(x) ==
  IF x.at = x.to THEN Nothing(x)
  ELSE {<<Expr(x.lo, m, x.quiet), Access("Store", x.at, x.at + Word, x.owner),
          Part(Template("Args", m, x.hi, x.quiet), x.at + Word, x.to, x.owner)>> :
          m \in Between(x.lo, x.hi)}

\* Statements.  if and while lower their condition and then their blocks.  The
\* place of an insert is lowered before its value and key, and emitted between.
LowerStmt(x) ==
  {<<Expr(x.lo, m, x.quiet), StoreLocal(m)>> : m \in {p \in Between(x.lo, x.hi) : p + Word = x.hi}}
    \cup {<<Expr(x.lo, x.hi, x.quiet), StoreLocal(slot)>> : slot \in locals}
    \cup {<<Expr(x.lo, x.hi, x.quiet)>>}
    \cup {<<Expr(x.lo, m[1], x.quiet), Stmts(m[1], m[2], x.quiet), Stmts(m[2], x.hi, x.quiet)>> :
            m \in {p \in Between(x.lo, x.hi) \X Between(x.lo, x.hi) : p[1] <= p[2]}}
    \cup (IF x.quiet THEN {}
          ELSE {<<Expr(m[1], m[2], x.quiet), Place(x.lo, m[1], x.quiet), Expr(m[2], x.hi, x.quiet)>>
                    \o Scratch(2) :
                  m \in {p \in Between(x.lo, x.hi) \X Between(x.lo, x.hi) : p[1] <= p[2]}}
               \cup {<<Expr(x.lo, m, x.quiet), Expr(m, x.hi, x.quiet)>> \o Scratch(1) :
                       m \in Between(x.lo, x.hi)}
               \cup {<<Template("Fields", x.lo, x.hi, x.quiet)>> \o Scratch(k) : k \in 0 .. MaxWords})
LowerStmts(x) ==
  Nothing(x) \cup {<<Template("Stmt", x.lo, m, x.quiet), Stmts(m, x.hi, x.quiet)>> :
                     m \in Between(x.lo, x.hi)}

\* The fields of an event are all computed before the first is stored.
LowerFields(x) ==
  Nothing(x) \cup {<<Expr(x.lo, m, x.quiet), Template("Fields", m, x.hi, x.quiet)>> :
                     m \in Between(x.lo, x.hi)}

\* A word; a string; a tuple, of which each element is stored when it is
\* computed.  x.to words of it are.
LowerReturn(x) ==
  {<<Expr(x.lo, x.hi, x.quiet)>> \o Scratch(k) : k \in {1, 3}}
    \cup {<<Part(Template("Tuple", x.lo, x.hi, x.quiet), 0, 0, <<"scratch", New>>)>>}
\* Mutant: an element is stored where the one before it was.
LowerTupleOver(x) ==
  (IF x.lo = x.hi THEN {<<Access("Load", 0, x.to, x.owner)>>} ELSE {})
    \cup {<<Expr(x.lo, m, x.to > 0 /\ ~ScratchInTuples), Access("Store", 0, Word, x.owner),
            Part(Template("Tuple", m, x.hi, x.quiet), 0, x.to + Word, x.owner)>> :
            m \in {p \in Between(x.lo, x.hi) : x.to + Word <= MaxWords * Word}}
LowerTuple(x) ==
  (IF x.lo = x.hi THEN {<<Access("Load", 0, x.to, x.owner)>>} ELSE {})
    \cup {<<Expr(x.lo, m, x.to > 0 /\ ~ScratchInTuples), Access("Store", x.to, x.to + Word, x.owner),
            Part(Template("Tuple", m, x.hi, x.quiet), 0, x.to + Word, x.owner)>> :
            m \in {p \in Between(x.lo, x.hi) : x.to + Word <= MaxWords * Word}}

\* Parameters that are locals: the strings of a function, all of a
\* constructor, whose strings are copied to the scratch first.
LowerParams(x) ==
  Nothing(x) \cup
    (IF x.lo + Word <= x.hi
     THEN {decode \o <<StoreLocal(x.lo), Template("Params", x.lo + Word, x.hi, x.quiet)>> :
             decode \in {<<>>, Scratch(2)}}
     ELSE {})

----------------------------------------------------------------------------
\* A function with a result, and one without or a constructor.
Init ==
  /\ \E hi \in Between(FirstLocal, MaxLocal) :
       \E m \in Between(FirstLocal, hi), k \in Between(FirstLocal, hi) :
         /\ m <= k
         /\ code \in {<<Template("Params", FirstLocal, m, FALSE), Stmts(m, k, FALSE)>> \o result :
                        result \in {<<Template("Return", k, hi, FALSE)>>, <<>>}}
  /\ mem = <<>> /\ locals = {}
  /\ replaced = 0 /\ size = 0

Busy == code # <<>>
Item == Head(code)
Rest == Tail(code)

Store ==
  /\ Busy /\ Item.op = "Store"
  /\ mem' = [a \in DOMAIN mem \cup Item.at .. Item.to - 1 |->
               IF a \in Item.at .. Item.to - 1 THEN Item.owner ELSE mem[a]]
  /\ locals' = IF Item.owner[1] = "local" THEN locals \cup {Item.at} ELSE locals
  /\ code' = Rest
  /\ UNCHANGED <<replaced, size>>

Load ==
  /\ Busy /\ Item.op = "Load"
  /\ code' = Rest
  /\ UNCHANGED <<mem, locals, replaced, size>>

Replace(codes) ==
  \E new \in codes :
    /\ code' = new \o Rest
    /\ replaced' = replaced + 1
    /\ size' = IF \A k \in DOMAIN new : new[k].op \in {"Store", "Load"} THEN size ELSE size + 1
    /\ size' <= MaxSize
    /\ UNCHANGED <<mem, locals>>

Lower ==
  /\ Busy
  /\ \/ Item.op = "Expr" /\ Replace(LowerExpr(Item))
     \/ Item.op = "Place" /\ Replace(LowerPlace(Item))
     \/ Item.op = "Internal" /\ Replace(LowerInternal(Item))
     \/ Item.op = "Bind" /\ Replace(LowerBind(Item))
     \/ Item.op = "External" /\ Replace(LowerExternal(Item))
     \/ Item.op = "Args" /\ Replace(LowerArgs(Item))
     \/ Item.op = "Stmt" /\ Replace(LowerStmt(Item))
     \/ Item.op = "Stmts" /\ Replace(LowerStmts(Item))
     \/ Item.op = "Fields" /\ Replace(LowerFields(Item))
     \/ Item.op = "Return" /\ Replace(LowerReturn(Item))
     \/ Item.op = "Tuple" /\ Replace(LowerTuple(Item))
     \/ Item.op = "Params" /\ Replace(LowerParams(Item))

Next == Store \/ Load \/ Lower

Spec == Init /\ [][Next]_vars

----------------------------------------------------------------------------
Templates == {"Expr", "Place", "Internal", "Bind", "External", "Args", "Stmt", "Stmts", "Fields",
              "Return", "Tuple", "Params"}
Owners == {"none", "local", "buffer", "scratch"} \X Nat
Items == [op : Templates \cup {"Store", "Load"}, lo : Nat, hi : Nat, at : Nat, to : Nat,
          owner : Owners, quiet : BOOLEAN]

\* The type of a lowering: no template is lowered to less memory than it began
\* with, and none has any below FirstLocal.
TypeOK ==
  /\ code \in Seq(Items)
  /\ \A k \in DOMAIN code :
       /\ code[k].lo <= code[k].hi
       /\ code[k].op \in Templates => FirstLocal <= code[k].lo /\ code[k].hi <= MaxLocal
  /\ DOMAIN mem \subseteq Nat /\ \A a \in DOMAIN mem : mem[a] \in Owners
  /\ locals \subseteq Nat
  /\ replaced \in Nat /\ size \in 0 .. MaxSize

\* Whatever is loaded is what its owner has stored there.
LoadsOwn ==
  Busy /\ Item.op = "Load" =>
    \A a \in Item.at .. Item.to - 1 : a \in DOMAIN mem /\ mem[a] = Item.owner

\* "Reserve a 32 byte memory slot, above the 0x00-0x40 scratchpad." (model.rs:73)
\* No code ever stores to what another has been given, so it does not matter
\* in which order, or how often, the code runs.
OneOwner ==
  [][\A a \in DOMAIN mem : a >= FirstLocal => a \in DOMAIN mem' /\ mem'[a] = mem[a]]_vars
=============================================================================
