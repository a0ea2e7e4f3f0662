# A TLA+ model of Rulidity

Rulidity compiles a Rust module marked `#[rulidity::contract]` to EVM bytecode.
A procedural macro (`src/macro`) reads the module and generates Rust functions;
those functions, when the program that contains the contract runs, append ops
to an assembler (`src/src`), which turns them into bytes. This directory models
that pipeline and the contracts it produces, checks it with TLC on small
instances, and proves with TLAPS for every instance that the assembler,
deployment and the ERC20 example's bookkeeping are correct, and for every program
that the code the compiler's templates add up to keeps its labels, its stack and
its memory in order.

## 1. Inventory

The compiler is sequential: there are no threads, no I/O and nothing
persistent in it. What makes it hard is that three languages with different
rules meet: the contract's Rust (block scopes, left-to-right evaluation), the
generated Rust (label variables with block scopes of their own), and the EVM
(one stack, one flat memory, jumps to numbers). What it produces is less tame:
contracts call each other and are called back before they have finished, a
failure anywhere undoes what ran beneath it, and storage outlives it all. An
error shows up only as a wrong result some transactions later.

| component | source | state | operations | what makes it correct |
|---|---|---|---|---|
| assembler | `src/src/asm.rs` | op list, label counter; the label table and output of `finish` | `fresh_label`, `add_op`, `finish` (two passes) | both passes agree on every pc; every jump carries the offset of its label; no pushed constant is an instruction |
| snippets | `src/src/builder.rs` | none | op sequences for slots, return, revert, string codecs | each leaves on the stack what its comment says, and touches only scratch memory |
| lowering | `src/macro/src/lower.rs`, `model.rs` | `Lower`: name to slot, name to calldata offset, next free slot, call stack | `lower_block` over statements, expressions, places; inlining; external calls; constructors | the code does what the Rust means; stack balanced; labels unambiguous; locals, call buffers and scratch disjoint |
| contract macro | `src/macro/src/lib.rs` | maps of functions, events, interfaces, storage | collects items, assigns slots, emits `build_*` | one slot per field, internal functions not callable |
| dispatcher | `src/src/contract.rs` `build_runtime` | none | selector comparison chain, bodies | a transaction runs the function it names, alone, or reverts |
| deployment | `contract.rs` `wrap_with_constructor`, `lower.rs` `lower_constructor`, `builder.rs` `decode_short_string_constructor_arg` | `Lower`, the index of the parameter and the number of strings before it | constructor prologue, CODECOPY epilogue | constructor reads its own arguments; the deployed code is the runtime |
| compiled contracts | what all of this emits, on the EVM | storage of every account; stack, memory and callers of the running frame | transactions, creations, calls between contracts | storage, outputs and logs as the Rust means, through re-entrance and failure |
| ABI | `src/macro/src/abi.rs`, `lib.rs` | none | types to JSON and signatures | who goes by the JSON encodes and decodes right |
| prelude | `src/src/prelude.rs` | none | stubs that type-check the contract | none of it runs |
| ERC20 example | `src/examples/erc20.rs` | balances, allowances, supply, names | the token's methods | balances sum to the supply; nobody's tokens move without their consent |

Interactions: the macro calls the lowering once per function and for the
constructor; the generated functions call the assembler through the snippets;
`assemble_contract` runs them behind the dispatcher and wraps the result; the
EVM runs what comes out, and contracts call each other by the selectors and
encodings that the macro has put into both. Inside the compiler there is no
other shared state than the assembler that is handed from one generated function
to the next, so the label counter runs across functions and label *variables*
do not.

The behaviours that are hard to test, and where they bite, are the hazards of
`PROJECT.json`. In short: forward labels, truncated jump targets, label names
captured by unbraced code, scratch memory overwriting what is parked in it or
above it, the slot map outliving its block, exchanged operands, code that falls
into the next body, results left on the stack, loops that do not end, storage
locations that meet, state that survives a revert, calldata of one call laid
into the locals of another, re-entrance in the middle of a function, constructor
arguments addressed from the wrong end of a tail whose size was guessed, and
balances that are added to without a check.

## 2. Modules

| module | models | checked by |
|---|---|---|
| `Asm` | `asm.rs`: ops, `emit`, both passes of `finish`, one op a step | `MCAsm`, `AsmProofs` |
| `Linker` | what an assembler promises: the abstract specification of `Asm` | through `Asm` |
| `AsmProofs` | theorems about `Asm` | TLAPS |
| `Induction` | least elements and reachable numbers, for the proofs that go by induction | TLAPS |
| `Words` | unsigned arithmetic of a given width | |
| `Syntax` | the Rust forms `lower.rs` accepts, as records; the ABI as a caller uses it | |
| `Lowering` | `lower.rs`, `model.rs`, `builder.rs`, `build_runtime`: contract to generated code to ops | through `Compile` |
| `Evm` | the machine, one instruction a step: frames, calls, creation, logs (external) | through `Compile` |
| `Source` | what contracts mean; the abstract specification: a transaction is one step | |
| `Templates` | the `lower_*` functions, `builder.rs` and `build_runtime` as templates that expand to each other: every program at once | `Templates.cfg`, `TemplatesProofs` |
| `TemplateEffects`, `TemplatesProofs` | what each template does, theorems about `Templates` | TLAPS |
| `Layout` | the `lower_*` functions, `alloc_local` and `alloc_calldata` as templates that allocate and access memory: every function at once | `Layout.cfg`, `LayoutProofs` |
| `LayoutProofs` | theorems about `Layout` | TLAPS |
| `Compile` | compiled contracts running on `Evm`, transaction after transaction | `MCCompile`, `MCGrammar`, `MCToken` |
| `Deploy` | the prologue of `lower_constructor`, `wrap_with_constructor`, and a deployment: ABI encoding (external), prologue, body, epilogue | `MCDeploy`, `DeployProofs`, `ArrivalProofs` |
| `DeployProofs`, `ArrivalProofs` | theorems about `Deploy` | TLAPS |
| `Ledger` | `examples/erc20.rs` as a ledger: balances, allowances, supply | `MCLedger`, `LedgerProofs` |
| `LedgerProofs` | theorems about `Ledger` | TLAPS |
| `Corpus` | the contracts of the tests and examples, and some that combine them | |

`Lowering` keeps the two stages of the code apart. `Lower*` operators follow the
functions of the same name and return generated code: the ops, and also the
`let` that allocates a label, the braces of the Rust block, and jumps that name
their label by a *variable*. `RunBody` then resolves the variables by Rust's
scoping rules, which is where unbraced code shows. The state that is threaded
through (`st`) is struct `Lower`: `locals`, `params` (`param_offsets`), `next`
(`next_local`), `calls` (`call_stack`). Order matters and is kept: slots and call
buffers are allocated in the order expressions are *lowered*, which is not the
order their code *runs* in (`LowerBinary`, `LowerInsert`, `LowerSet`). Forms the
macro answers with `compile_error!` yield that item, and `Compile` deploys no
contract whose code holds it (`Recursive` and `Surplus` in the corpus are two). The
fields of an event are lowered in the order of their declaration, whatever the order
they are written in (`Declared`; an `emit` of `Router` exchanges them), while `Source` evaluates
them as written. No contract of the corpus has a field whose value changes what
another one reads, so that this says where the words go and not when they are
computed. A field that is missing is not modelled: rustc refuses the literal.

A program is a *system*: a map from accounts to contracts. A contract with a
constructor is there after the transaction that creates it: `LowerConstructor`
gives the prologue, the statements and the epilogue's RETURN, and that code reads
its arguments behind itself, `CODESIZE` being `CodeSize` and what lies before the
arguments reading as code. The same transaction of `Source` is a call of the
constructor's function.

`Evm` represents a word as an offset from a base, the base being nothing for
numbers and the hashed words for a KECCAK256 result. So hashing is injective
and a hash never equals a small number, which is the assumption Solidity's
storage layout makes as well. Widths are parameters: a word has 12 bits instead
of 256, and the selector's shift 0xE0 is 8. Memory maps the *byte* offset of a
word to that word, because calldata starts with four bytes of selector and its
words lie across those of the locals: a word written next to another overwrites
part of it, and what is left is `Torn`, a word that only `Head4`, which reads the
four bytes a selector is made of, can look into. `NothingTorn` says that no
generated code computes with one. Jumps name labels; module `Asm` is what
justifies that.

A frame is what `Envelope` gives it and the stack and memory it makes; `SendMessage`
parks the caller, with the world as it was, in `callers`, and `Resume` goes on
with it: on failure with the world and the logs it had. `Write` in a frame that
is static, or beneath one that is, fails; so does a call at `MaxDepth`; an account
without code answers at once with success and no data.

A ShortString is a number made of its length and its first bytes (`Text`), in
the packed form of the code: contents in the high bytes, the doubled length in the
low one. `AbiEncode` and `AbiDecode` are the head and tail encoding of the callers,
who go by the types the JSON gives; the three codecs of `builder.rs` are lowered
op by op and run against them.

`Source` reads the same records as Rust: a list of bindings for scopes,
locations (`[field, keys]`) for storage, left-to-right evaluation, `require(false)`
undoing the transaction, a call through an interface running the function of that
selector with the caller as its sender. It does not mention slots, memory, stack,
or labels.

`Templates` looks at the same code as `Lowering` from the other side. `Lowering`
takes one contract apart exactly; `Templates` leaves the contract open. A
`lower_*` function is a template: ops, and places where other `lower_*` functions
put theirs. The state is the code that is still to come, and a step emits its
first op (`Emit`, `Jump`, `PlaceLabel` are `add_op`), runs a
`let x = asm.fresh_label()` (`Let`), or replaces its first template by one of the
codes it may stand for (`Snippet`, `Lower`; `Enter` if the generated code has
braces around it, `Close` where they end). Which one is the program's choice, so
that the behaviours are the compilations of all programs, inlined calls included.
`Dispatch` and `Build` are `build_runtime`: one comparison more, and the next body.
`blocks` are the Rust blocks of the generated code that are open. Each has the
values of its label variables (`scope`), its remaining code, and the height the
stack must have behind it. A label is the number of the replacement that allocated
it and the variable's name; what a *mention* of it means is whatever the variable
holds when it is reached, which is the point. `height`, `live` and `at` are the words on
the stack after the ops so far, whether execution comes past, and the height at
each label. Ops with one stack effect share a name (`LOAD`, `BINARY`, `ENV`).
Constants, slots and offsets are left out, and so is what the code computes.

Two constants name what programs the compiler does not get right. `LoopsInside`
lets a loop stand in another loop or in an `if` (see `nested_loops` in 5).
`UnitValues` lets a function that declares a result end without a value: rustc
accepts `-> ()`, a trailing `if` or a trailing call of a `()` function, and
`lower_block` then emits neither STOP nor a return (see 5), or, inlined,
leaves nothing where a word is expected.

`Layout` takes the same view of memory. Its templates are again the `lower_*`
functions, but what is kept of them is memory alone: stores and loads, and how much
of `next_local` each template uses. `lo` and `hi` are `next_local` before and after
it is lowered. The code lowers depth first and *then* puts the pieces together, the
right operand of `-`, `/` and `%` in front of the left, the value of an `insert` in
front of its place; `Layout` goes through the code in the order in which it is
emitted, and so cannot compute `lo` and `hi` but chooses them, within what the template
around it was given (`Between`). So the order of allocation and the order
of execution are both there and differ where the code's differ. The owner of an
access is a local, by its slot; the buffer of an external call, by its first byte; or one
use of the scratch words, by the number of the replacement that began it. `mem`
holds the owner of the last store to each byte, so that an argument stored at
`buf + 4` covers part of the selector's word as it does in the code. `quiet` marks
the elements of a returned tuple behind the first. Stores one behind the other
with nothing between (hashing's two, an event's) are one item. Any local that has been
stored may be read or assigned, whatever its name, which covers
every choice of `locals` and every shadowing but one: an outer name that reads a
slot of a branch that was not taken (see `as_rust`). Jumps are left out: a
template stores and loads on one straight line of code (`Templates` has the jumps),
and a loop's second turn stores and loads what its first did, at the same places.
Not in it are the copies of constructor arguments to the scratch words beyond
`LowerParams`, and the epilogue's CODECOPY to 0, behind which nothing is
loaded but its RETURN.

`Deploy` follows one contract from the loop over its constructor's parameters
to the code of the new contract. `i` and `k` are the loop's own counters, and
count again for the deployer and for the EVM. Code is a sequence of bytes,
because the epilogue's offsets are byte offsets. The arguments behind it are
words, and `FromEnd(b)` is the word that starts `b` words before the end of the
code: all the prologue's offsets are multiples of 32 from `CODESIZE`. A string is
its length and the words it fills; `Pack` is the short-string word made of the
first. What lies before the arguments reads as `CodeWord`. The constructor's
statements are one step there, `RunBody`: what matters of them is that they may
revert and cannot halt, so that the epilogue behind them runs. What they do to
storage is `Compile`'s.

`Ledger` is what `examples/erc20.rs` says of balances, allowances and supply, one
action per method, `Refuse` for the calls whose `require` is false. `Moved` and
`Spent` are the writes of `_transfer` and `_spend_allowance` in their order: a
transfer to oneself reads the balance that it has just reduced.

### Refinement

`Asm` implements `Linker` (property `Linking` of `asm_small`). The abstract linker
is given items, one by one, and then in *one* step lays all of them out and
gives every jump the offset of the place where its label is placed last, or 0 if it never
is; or, if it checks, it refuses because some jump's target has no name in
`PcRange`. It knows of no passes, no table and no bytes. An item is an op's kind,
label and size (`ItemOf`); `at` and `to` are read from the
second pass, `to` out of the two bytes it has emitted, once that is done; until
then all steps of both passes are stutters.

`Compile` implements `Source` under the mapping: `pending` is the transaction
while the machine is not idle, and `storage` is `Represented(store)`, which reads
each slot back as the location it stands for (slot n is the n-th field, a hash
of key and base an entry of the mapping at base, a hash plus an index an
element of an array), by the declared types; a slot that stands for nothing
reads as field `?`, which no contract has. Executing instructions, and calls
within calls, map to stuttering; `Commit` and `Rollback` map to `Transact`.
`pending` makes the abstract step depend on the transaction that was sent, not on
just any transaction with that result.

The compiled ERC20 example implements `Ledger` (`MCToken`, property
`KeepsTheBooks`): `balances[a]` is the word in the slot that hashing `a` with the
field's slot gives, `allowances[a][b]` hashes twice, and `call` is the transaction
that runs, its arguments found by the names of the parameters. So what is proved of
the ledger is a statement about bytecode, as far as the instance goes.

## 3. Runs

| run | question | states |
|---|---|---|
| `asm_small` | does the assembler resolve labels for every short op list, in both build profiles, as a linker would? | 334,078 |
| `compile_corpus` | do the tests' contracts, and pairs that call each other, do what they mean, over every two transactions? do they all end? | 413,650 |
| `compile_erc20` | does the ERC20 example, over every three transactions, do what it means, and keep the books? | 89,754 |
| `compile_grammar` | does every pair of statements of a grammar (1521 functions), under branches and loops, do what it means? | 395,074 |
| `ledger` | do balances sum to the supply, and does nobody lose what they have not given away? | 27,373 |
| `deploy` | do arguments reach their locals, and is the runtime what is deployed, for every signature of up to three parameters? | 29,097 |
| `templates` | do labels and stack keep in order in every program of up to five choices? | 541,528 |
| `layout` | does every load find what its template stored, in every function of up to six choices? | 1,764,286 |
| `empty_string` | does what `deploy` asks hold for a string of no bytes? | see 5 |
| `nested_loops`, `as_rust`, `as_abi` | contracts rustc accepts and the compiler gets wrong | see 5 |

What the properties say:

- `PassesAgree`, `JumpsLand`, `DestinationsAgree` (`Asm`): the label table of the
  first pass is right for the second; the operand of a jump is the offset of its
  own JUMPDEST; the JUMPDESTs an EVM recognises by walking the bytes are exactly
  the placed labels.
- `Linking` (`Asm`): the refinement of `Linker`; beside the above it says which of
  several places of a label a jump goes to, and that a build refuses only what it must.
- `Correct` (`Compile`): the refinement above. `EndsAsMeant` is its
  invariant form for the transaction that just ended; the runs that expect a
  violation use it because it names the wrong state. `AsTheAbiSays` adds what
  the JSON says besides: topics and views.
- `JumpsResolved`, `StackEmpty`, `NoFallThrough`, `NothingTorn`: the structural
  reasons for it, so that a failure says what went wrong.
- `EveryTransactionEnds`: under weak fairness of the machine. The EVM does
  execute an accepted transaction to its end; gas would end a diverging one
  with a failure, and is left out so that divergence is visible.
- `KeepsTheBooks` (`MCToken`): the refinement of `Ledger`.
- `Conserved`, `Custody` (`Ledger`): balances have running sums that end in the
  supply, so no addition wraps although the code checks none; and each step
  that reduces a balance or changes an allowance has the consent it needs, and
  uses up as much of it as it moves.
- `ArgumentsArrive`, `LongStringsRefused`, `RuntimeDeployed` (`Deploy`): the
  three sides that must agree on a layout do: the prologue, written before the
  arguments are known, the ABI, and the epilogue, which contains its own offset.
- `OwnLabels`, `PlacedOnce` (`Templates`): when a mention of a label variable is
  reached, the variable holds the label that the same template allocated,
  although code in between, an inlined function among it, may bind the same
  name; every label is placed at most once, and in the end each that was jumped
  to is.
- `StackSafe`: every op finds its operands; a label is met with the same height
  of the stack from all sides; STOP and RETURN leave nothing on it; a block of code
  leaves what the code behind it expects.
- `OneOwner` (`Layout`): no step stores to a byte, from 0x80 up, that something else
  has stored to: locals, parameters of inlined functions and call buffers each have
  their own, though code is not emitted in the order memory was allocated in.
- `LoadsOwn`: whatever is loaded, hashed, sent, logged or returned is what the same
  local, call or use of the scratch words has stored there, and nothing has come
  between.
- `TypeOK` (`Templates`): a label is one that `fresh_label` has returned, wherever one is
  mentioned, placed or kept for the dispatcher, and the stack never holds fewer than no
  words, neither now nor where a block or a jump goes on.
- `EveryBodyEnds`: execution never comes to the end of a function's code, where the
  next function's begins.

Bounds. `asm_small`: four ops are enough for a jump back and a jump forward
across a constant; `PcRange = 10` stands for 2^16 so that truncation happens, and
the debug build panics. `deploy`: three parameters let a word stand before,
between and after strings; lengths of 1, 31, 32, 33 and 65 bytes are the edges
of one, two and three words; `PcRange = 20` puts one runtime and some offsets
beyond the operand. `compile_*`: two transactions after the contracts without
constructor are there (three for ERC20, where creation is the first of them), two
senders where one contract is alone and one where contracts are each other's,
arguments that include 2^Bits - 1 in the corpus so that arithmetic wraps, strings
of no, 3, 31 and 32 bytes so that both sides of the limit occur; in ERC20 one string,
since nothing depends on names. `MaxDepth = 3`: `bounce` goes there and back
until the limit answers. `CodeSize = 2048` is far above all locals, and no number
of the runs. The code of every function is executed on every path these arguments
select; what varies between contracts is the code, so breadth comes from the
corpus and the grammar rather than from longer histories. The grammar has `let`,
assignments to locals and fields, `insert`, `require`, `if`, `while`, internal and
external calls; `emit`, arrays and tuples are in the corpus only. After
`MaxTransactions` the system stops, so deadlock is not checked there; the
assembler's run stops when the code is assembled, a deployment when it is refused,
reverted or done. `ledger` needs no bound on time: three accounts, of which two
allow the third, and words below 4 are a finite system, and every history of it is
covered; deadlock is checked. `templates`: `MaxSize` bounds the replacements whose code
needs another choice; with five, a constructor has two loops one behind the other, or
a statement with a compound operand in a branch, and a function behind the dispatcher
has a branch or a loop of its own. It stops when the compilation is complete, or no choice is left in
the bound. Both constants are FALSE: with `LoopsInside` TLC refutes `OwnLabels` and
`PlacedOnce` (and, simulating longer compilations, `StackSafe`), with
`UnitValues` `StackSafe` and `EveryBodyEnds`, which is why the theorems need them.

`layout`: `MaxSize` bounds the replacements that leave a template; with six, a call has
an argument that is a call, or an inlined function's parameter lies between two
stores of a call's buffer. `Word = 2` and `SelectorLen = 1` keep what matters of 32
and 4, that arguments lie across the words; `MaxLocal = 14` leaves room for three
words above 0x80; `MaxWords = 4` is the number of words below it, and
`ScratchInTuples` is FALSE: with `MaxWords = 5` TLC refutes `OneOwner`, with
`ScratchInTuples` `LoadsOwn`, and both are findings of `as_rust`. The run stops when the
function's code is complete.

## 4. Proofs

### The assembler

`AsmProofs` proves, for every vocabulary, every `PcRange` and every bound:

- `Typing`: `Spec => []TypeOK`
- `Agreement`: `Spec => []PassesAgree`
- `Landing`: `Spec => []JumpsLand`
- `Destinations`: `Spec => []DestinationsAgree`
- `Linked`: `Spec => Linking`

The inductive invariant `IInv` has three parts. `Chain`: the pcs recorded by each
pass form a chain, each the previous one plus the *size* of the op, which does
not depend on the label table (`EmitType` and the lemmas before it). `Known`: the
table holds, for every label placed by an op the first pass has gone through,
the pc at which that pass reached the *last* such op, and no other label. `Resolved`: in the
second pass, the bytes emitted so far for a jump at the pc of its op are PUSH2, the table's
pc for its label in two bytes, and the jump. `PassesAgree` follows from `Chain`
alone, because two chains of the same sizes that start at 0 are equal.
`JumpsLand` needs all three: the operand is the table's pc (`Resolved`), that is a
pc of the first pass where the label's JUMPDEST is (`Known`), the second pass
reaches the same op at the same pc (`Chain`), and emits 0x5b there. None of
the properties is inductive by itself: `PassesAgree` says nothing of the
table, and `JumpsLand` speaks only of the end. The only assumption is
`AsmAssumption`, on the constants: ops are ops, and `PcRange` is at most 2^16.

`DestinationsAgree` follows from the same invariant by an induction over offsets.
`IsInstr` walks the bytes as an EVM does and knows nothing of ops; that the walk
stays in step with them is two halves, each about a least counterexample (`Least`).
`OpsAreRead`: the first op that the walk skips would stand behind one that it does not
skip, and whose first byte tells its length (`FirstByte`). `OnlyOpsAreRead`:
the first offset that is read and starts no op would be in the middle of one, and a walk that
starts at that op jumps over it; only the JUMP behind a jump's PUSH2 is an
instruction of its own, and is no JUMPDEST. So a 0x5b in a pushed constant, or in the
operand of a jump, is never a destination. `IsInstrEquation` is the fact that the
recursive function exists (`Reachable`). What makes `FirstByte` true
of simple ops is that `define_ops!` lists no PUSH and no JUMPDEST among them.

`Linked` goes through the steps: `AddOp` is `Give` (`AddingGives`), the last step of
the second pass is `Link` (`AssemblingLinks`), `Panic` is `Refuse`
(`PanickingRefuses`), and all others are stutters, because the mapped state shows nothing
of a pass that is under way. The four invariants leave open which of a label's several
places a jump goes to, which is what `Known` says with "last": `HashMap::insert` lets
the later one win. `Refuse` needs `Known` in the other direction, too: a
pc that does not fit must be that of a label that *is* placed, and that a jump
mentions; in the first pass it is the table as it stands then, so that a build
may refuse before all items are laid out.

### Deployment

`DeployProofs` proves, for every runtime, constructor, signature and argument:

- `Typing`: `Spec => []TypeOK`
- `Deployment`: `Spec => []RuntimeDeployed`

and `ArrivalProofs`, if no string is empty and none of more than one word has a
last word but one below 32 (`NoneLooksShort`):

- `Arrival`: `Spec => []ArgumentsArrive`
- `Refusal`: `Spec => []LongStringsRefused`

`BaseInv` says what the loop and the wrapping have built: entry `j` of the prologue
is `Entry(j)`, a function of `j` and the signature alone, where the code computes
it from the counters; and the code is `Creation`. That the epilogue returns the
runtime is then a fact about concatenation and two-byte numbers (`Returned`).
`Encoded` has two cases. If every string so far fills one word (`Plain`), it says
where the deployer has put argument `j` (`Lies`): a word at head `j`, a string at
the tail words `2s + 1` and `2s + 2` if `s` strings come before it. `Reading` is
where both meet: `Back(j)` words before the end is just that place. If not, the last
string of several words is there to stop the prologue (`Blocked`): behind it each
string takes two words, so that what is read as its length is its last word but
one (`Meeting`), whatever lies before it and whatever was made of that. A later
word leaves the place that is looked at as it is, and so does a later string of one
word; a later string of several takes its part. `Arrived` collects what has been
stored, and that no string behind which the prologue is was of that kind; a later
entry writes its own local and the scratch words only. Neither `ArgumentsArrive` nor
`LongStringsRefused` is inductive, because both speak of the end. Both halves of
`NoneLooksShort` are necessary: `empty_string` refutes `ArgumentsArrive` without the
first. Without the second a string of 33 bytes, the first 32 of them zero, is
taken for the empty one (section 5). Text without NUL characters satisfies it.

### The ledger

`LedgerProofs` proves, for any number of accounts, any width of a word and any
set of calls that may be sent:

- `Typing`: `Spec => []TypeOK`
- `Conservation`: `Spec => []Conserved`
- `CustodyHolds`: `Spec => Custody`

The inductive invariant is `TypeOK /\ Fresh /\ Conserved`. `TypeOK` is not
inductive: after a transfer the receiver's balance is a word because it is taken
modulo, but that it *is* the sum is `Conserved`, and that the constructor, which
assigns one balance, leaves the sum right is `Fresh`: nobody has anything before
it runs, and it runs once. Sums over accounts would need induction over data;
instead `Conserved` says that running sums exist, and the proof gives those after a
step: `MovedSums` lowers the sums from the sender's account on and raises those from
the receiver's on, and they stay between 0 and the supply because every balance
lies `Between` two of them. That is the bound that keeps the addition from
wrapping. `CustodyHolds` needs the invariant for that reason: if a balance could
wrap, receiving could reduce it. `EveryStepCustody` goes through the actions;
`MovedFrom` and `SpentFrom` say what the two writes leave alone.

### The templates

`TemplatesProofs` proves, for programs of any size:

- `TypeCorrect`: `~LoopsInside` and `~UnitValues` prove `Spec => []TypeOK`
- `LabelsAreOwn`: `~LoopsInside` proves `Spec => []OwnLabels`
- `LabelsPlacedOnce`: `~LoopsInside` proves `Spec => []PlacedOnce`
- `BodiesEnd`: `~UnitValues` proves `Spec => []EveryBodyEnds`
- `StackIsSafe`: `~LoopsInside` and `~UnitValues` prove `Spec => []StackSafe`

`LoopsInside` and `UnitValues` are the findings of section 5, and so these theorems
say that there is nothing else: a program whose loops stand alone and whose
functions return what they declare gets code with labels and stack in order.

What holds of every program without either condition is only `Vocabulary`: code consists
of templates and ops the rules know. `TypeOK` says more. A label that is mentioned, placed or kept
has been allocated (`Allocated`) by `Placing`, which is `Numbered`, `Scoped`, `Once` and
`Reached` below: it is placed or still will be, and what is or will be placed is neither the 0
of a variable that was never bound nor a label to come. That no height is negative is
`Counted`, whose step takes `StackSafe` as it stands before the op (`CountedStep`): an op
that finds what it takes leaves no less than nothing.

The argument has two halves. `TemplateEffects` says of each of the codes a template
may stand for, once and for whatever surrounds it, that it may stand there
(`Sound`): its mentions are bound before they are reached and nothing between binds the
same name (`Own`); it binds no name that the template may not bind (`Rebinds`);
it ends if the template does; and it takes every stack to where the template takes it
(`Effect`), through heights that suit each item (`Walk`). The theorems need these
facts about what is *still to come*, where the properties speak only of the next
item; that is why none of the properties is inductive, and the invariants are

- `Numbered`: labels in sight are of replacements that have happened, so that the label
  of the next one is new.
- `Scoped`: every mention in an open block will mean its own label, because the
  code in front of it binds the name, or because the variable holds the label now and
  no code in front of it binds the name (`Legible`). This
  is where a loop inside fails: `While` binds `top` and `end` in the block it is in.
- `Halting`: the outermost block ends in an item that execution does not leave.
- `Entered`: each function still to be built is jumped to by the dispatcher, or will be.
- `Balanced`: there is one height for each label such that every open block can be
  walked through, from where the block inside it leaves to where the one around it
  goes on. The heights are those of labels that do not exist yet, too; a step that
  allocates one chooses its height (`BalancedStep`).
- `Once`, `Reached`: all labels there are have been allocated; what is to be placed has not been and is to be in one place only; what has been or
  will be jumped to has been or will be placed.

`StackIsSafe` needs all but the last, because a height at a label means
something only if it is the label's own; `LabelsPlacedOnce` needs `Numbered`,
`Scoped`, `Once` and `Reached`.

### Memory

`LayoutProofs` proves, for functions of any size, any word and any number of locals:

- `LayoutType`: `Spec => []TypeOK`
- `EachItsOwn`: `MaxWords <= 4` proves `Spec => OneOwner`
- `ReadsWhatItStored`: `MaxWords <= 4` and `~ScratchInTuples` prove `Spec => []LoadsOwn`

Both hypotheses are findings of section 5 (an event of five fields, a tuple of
mapping reads), and TLC refutes each theorem without its hypotheses. As with
the templates, the theorems need a fact about all that is still to come, and the
invariant has three parts:

- `LayoutInv`: an item allocates a range above 0x80 and accesses what its owner has (`Shapes`).
- `Disjoint`: the items still to come are pairwise `Separate`: what one is going to
  allocate, no other accesses or allocates, and what two access
  they access for the same owner; and nothing that has been stored
  above 0x80 is in a range yet to be allocated (`Given`).
- `Kept`: every load that is to come is `Supplied`: each of its bytes is its owner's
  already, or a store between here and there will make it so, and nothing between that
  and the load stores there for anyone else.

Neither property is inductive: `OneOwner` needs to know that an address which
is stored next was never given to anyone else, which is decided long before, when the
templates around it were given their ranges. The work is in the replacements: that each of the
codes a template may stand for keeps `Separate` inside, and that what it
accesses lies in what the template was given, so that it stays `Separate` from everything
around it. `LoadsOwn` is where the code's two habits meet: call buffers are filled
while arguments are computed, which is right because they are owned
(`Disjoint`), and scratch words are shared, which is right only because a
use of them is complete before the next begins. That is what `quiet` is for, and what a tuple's
elements violate.

### Model-checked only

Everything about `Compile`: `TypeOK`, `Correct` and the refinement of the ledger
(`KeepsTheBooks`), `EndsAsMeant`, `NothingTorn`; `Lowering`, `Source` and `Evm` are
recursive over syntax, which is out of the prover's reach.
Of the structural invariants, `JumpsResolved`, `StackEmpty` and `NoFallThrough`
say of a running contract what `OwnLabels` with `PlacedOnce`, `StackSafe` and
`EveryBodyEnds` say of its code, and `NothingTorn` is a consequence of what `LoadsOwn`
says of it; there they are proved. That `Lowering` emits only what `Templates` and
`Layout` allow is a comparison of texts and not a theorem.
Liveness.

## 5. Where code and its own description differ

Each of these is a contract rustc accepts. A run shows those of its line
together, in one transaction.

- `nested_loops` - `lower_while` leaves `top` and `end` unbraced. An inner loop
  takes the outer loop's names: the outer exit jumps to a label that is never
  placed, hence to pc 0. The same happens with a loop in an internal function
  that is inlined in a loop's body or condition, or an `if` around a loop.
- `as_rust` - `let` in an inner block rebinds the outer name for good (`kept`);
  in `self.next() - self.next()` the right operand runs first (`difference`);
  an event with five fields overwrites the local at 0x80 (`local`); returning
  `(self.m.get(k), self.m.get(l), ..)` stores the first value at memory 0 and then
  computes the second one's slot there (`first`). The transaction succeeds, and each of
  the four fields is stored with a value that differs from what the Rust gives it.
- `as_abi` - a ShortString in a tuple or an event is its packed word and not a
  string; the string another contract returns is taken to be the offset it starts
  with; a call to an address without code succeeds, and its result is the selector that
  was sent, left in the buffer the result is read from; an `#[indexed]` field is not a topic; a `&self` function that calls another
  contract's `&mut self` method is called a view. (The Rust's transaction fails, as
  there is nobody to answer its last call, and the code's succeeds: the property is
  violated by that already, and the outputs and the log are to be read off the trace.)
- `empty_string` - a constructor reserves two tail words for each string, but the
  ABI gives the empty string one. All words, and the strings up to the last empty
  one, are read too early:
  `construct("", 7)` takes 7 for the string's length and the string's head
  offset for the number.

`fn f(&mut self) -> ()` gets no STOP and no return, and runs into the next function's
body. That one pops a selector that is no longer there, so that the
transaction fails, unless something else was left on the stack for it to pop. No
contract of the corpus does so; with `UnitValues` TLC refutes `EveryBodyEnds` and
`StackSafe` in `Templates`.

A constructor also takes a string of several words for a short one if its
last word but one is a number below 32: the prologue reads that word as the
length. No run is for it; `Refusal` names the condition. `README.md` of the
repository also says that contracts cannot call other
contracts (line 140); `lower_external_call` is how they do.

## 6. Not modelled

Gas, the 1024-word stack limit and ether transfers are left out altogether: the
generated code's use of the stack is bounded by the depth of its expressions
(`StackEmpty`), and no property is about cost. Selectors and topics are distinct
numbers: collisions of 4-byte hashes, and so the text of signatures, are not
modelled. Of the ABI JSON only what callers go by is: which values are strings,
which fields indexed, which functions views; its text is formatting. The Rust
items the macro emits again are for rustc only, as is the prelude. `mapping_slot`,
`tx_origin` and `balance` of `builder.rs` are used by nothing. A parameter's high
bytes are those of a U256; an Address or bool argument is not masked by the code
either. A creation with fewer arguments than declared, or with bytes behind them, is
not sent: nothing says what should happen. The tests' harnesses (revm) and
`main()` of the example, which writes two files, are not modelled.

## 7. Plan

Done: `Asm` and its refinement, the compiler from `Syntax` to `Compile` with strings,
constructors and calls, `Deploy`, `Ledger`, `Templates`, `Layout`, and the proofs of
section 4. What is left:

1. Storage slots of distinct locations are distinct, proved from the injectivity of
   hashing.
2. An abstract dispatcher, a table from selectors to bodies, and the comparison
   chain of `build_runtime` proved to implement it.
