------------------------------- MODULE Syntax -------------------------------
(***************************************************************************)
(* The Rust a #[contract] module may be written in: the forms that the     *)
(* match arms of src/macro/src/lower.rs accept, as records.  Field e names *)
(* the form of an expression, field s the form of a statement.  Names are  *)
(* strings, values are numbers.                                            *)
(***************************************************************************)
EXTENDS Integers, SequencesExt

Lit(n)        == [e |-> "lit", n |-> n]                    \* U256::from(n), n, true
Field(f)      == [e |-> "field", f |-> f]                  \* self.f
Var(x)        == [e |-> "var", x |-> x]                    \* x
Env(op)       == [e |-> "env", op |-> op]                  \* msg_sender(), ...
Bin(l, op, r) == [e |-> "bin", op |-> op, l |-> l, r |-> r]
Get(of, key)  == [e |-> "get", of |-> of, key |-> key]     \* of.get(key)
LenOf(f)      == [e |-> "len", f |-> f]                    \* self.f.len()
Call(fn, args) == [e |-> "call", fn |-> fn, args |-> args] \* self.fn(args)
Str(text)     == [e |-> "str", text |-> text]              \* "text"
On(at, method, args) ==                                    \* I::at(at).method(args)
  [e |-> "extern", at |-> at, method |-> method, args |-> args]

Let(x, v)        == [s |-> "let", x |-> x, v |-> v]
Assign(x, v)     == [s |-> "assign", x |-> x, v |-> v]
Store(f, v)      == [s |-> "store", f |-> f, v |-> v]      \* self.f = v
Insert(of, k, v) == [s |-> "insert", of |-> of, k |-> k, v |-> v]
SetAt(f, k, v)   == [s |-> "set", f |-> f, k |-> k, v |-> v]
PushTo(f, v)     == [s |-> "push", f |-> f, v |-> v]
Require(v)       == [s |-> "require", v |-> v]
\* emit(Event { .. }): order says which of its values is the j-th declared field's.
EmitOf(event, order, vs) == [s |-> "emit", event |-> event, order |-> order, vs |-> vs]
Emit(event, vs)  == EmitOf(event, [j \in DOMAIN vs |-> j], vs)
While(v, body)   == [s |-> "while", v |-> v, body |-> body]
\* els is << >> or << the block >>; an else-if is a block of one If.
If(v, then, els) == [s |-> "if", v |-> v, then |-> then, els |-> els]
Do(v)            == [s |-> "do", v |-> v]                  \* v;
Result(v)        == [s |-> "result", v |-> v]              \* v   (no semicolon)
Tuple(vs)        == [s |-> "tuple", vs |-> vs]             \* (v, ..)

----------------------------------------------------------------------------
(* A storage field's type is the sequence of containers around its word:   *)
(* << >> for U256, <<"mapping">>, <<"mapping", "mapping">>, <<"array">>.   *)
(* returns says that the signature has an arrow.                           *)

FieldOf(name, type) == [name |-> name, type |-> type]
FunctionWith(name, external, params, returns, body) ==
  [name |-> name, external |-> external, params |-> params, returns |-> returns,
   body |-> body, texts |-> {}, text |-> <<>>, view |-> FALSE]
External(name, params, returns, body) == FunctionWith(name, TRUE, params, returns, body)
Internal(name, params, returns, body) == FunctionWith(name, FALSE, params, returns, body)

\* The parameters of texts are ShortStrings, and so are the results that text
\* says TRUE of.  A view takes &self.
Strings(f, texts) == [f EXCEPT !.texts = texts]
Textual(f, text) == [f EXCEPT !.text = text]
View(f) == [f EXCEPT !.view = TRUE]

\* A method of an #[interface]: the selector of its signature, and what the
\* trait says of its parameters, its receiver and its result.
Method(selector, nargs, mutable, returns) ==
  [selector |-> selector, nargs |-> nargs, mutable |-> mutable, returns |-> returns]

\* constructor is << >> or << the function >>.  events gives what is declared
\* of an event's fields: which of them are #[indexed], and which ShortStrings.
Contract(fields, functions) ==
  [fields |-> fields, functions |-> functions, constructor |-> <<>>, events |-> <<>>]
Constructed(c, params, texts, body) ==
  [c EXCEPT !.constructor = <<Strings(Internal("constructor", params, FALSE, body), texts)>>]

\* A ShortString is the number of its length and contents: two of the same
\* length differ in what, the first bytes of the word they fill.
Text(length, what) == 256 * what + 2 * length
LengthOf(text) == (text % 256) \div 2
IsShort(text) == LengthOf(text) < 32

IndexOf(names, x) == CHOOSE k \in DOMAIN names : names[k] = x

\* HashMap lookups by name; every name is declared once.
SlotOf(c, f) == (CHOOSE i \in DOMAIN c.fields : c.fields[i].name = f) - 1
TypeOf(c, f) == c.fields[SlotOf(c, f) + 1].type
FunctionOf(c, fn) ==
  c.functions[CHOOSE i \in DOMAIN c.functions : c.functions[i].name = fn]
Externals(c) == SelectSeq(c.functions, LAMBDA f : f.external)
EventOf(c, event) ==
  IF event \in DOMAIN c.events THEN c.events[event] ELSE [indexed |-> <<>>, text |-> <<>>]

----------------------------------------------------------------------------
(* The Solidity ABI, as the callers of a contract use it.                  *)

Says(flags, j) == j \in DOMAIN flags /\ flags[j]
ParamTexts(f) == [j \in DOMAIN f.params |-> f.params[j] \in f.texts]

\* The words a string fills: its contents, left aligned and padded with zeros.
TextWords(text) ==
  [j \in 1 .. (LengthOf(text) + 31) \div 32 |->
     IF IsShort(text) THEN 256 * (text \div 256) ELSE 256 * (text \div 256) + 255]

\* Head words in order, then the tails of the strings; a string's head is the
\* offset of its tail.
AbiEncode(text, vs) ==
  LET tail(j) == IF Says(text, j) THEN <<LengthOf(vs[j])>> \o TextWords(vs[j]) ELSE <<>>
      tails(n) == FlattenSeq([j \in 1 .. n |-> tail(j)])
  IN [j \in DOMAIN vs |-> IF Says(text, j) THEN 32 * (Len(vs) + Len(tails(j - 1))) ELSE vs[j]]
       \o tails(Len(vs))

\* What a caller makes of the words it is given: the string at an offset, -1 if
\* there is none or it is not short, and all the values.
TextAt(ws, offset) ==
  LET k == offset \div 32 + 1
  IN IF k \notin DOMAIN ws \/ ws[k] \notin 0 .. 31 \/ (ws[k] > 0 /\ k + 1 \notin DOMAIN ws) THEN -1
     ELSE Text(ws[k], IF ws[k] = 0 THEN 0 ELSE ws[k + 1] \div 256)
AbiDecode(text, ws) ==
  [j \in (IF TRUE \in Range(text) THEN DOMAIN text ELSE DOMAIN ws) |->
     IF Says(text, j) THEN TextAt(ws, ws[j]) ELSE ws[j]]
=============================================================================
