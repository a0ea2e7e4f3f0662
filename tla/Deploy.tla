------------------------------- MODULE Deploy -------------------------------
(***************************************************************************)
(* Deployment: lower_constructor() writes a prologue that takes each       *)
(* argument from behind the creation code, wrap_with_constructor() puts    *)
(* constructor, epilogue and runtime together, whoever deploys the         *)
(* contract appends the ABI encoding of the arguments, and the EVM runs    *)
(* the whole.                                                              *)
(*                                                                         *)
(* Code is bytes.  The arguments are words of 32 bytes behind it, and      *)
(* positions among them are counted in words from the end, as the prologue *)
(* counts them.                                                            *)
(***************************************************************************)
EXTENDS Integers, Sequences, FiniteSets

CONSTANTS
  Runtimes,      \* what build_runtime() may give
  Constructors,  \* what build_constructor() may give
  Signatures,    \* parameter lists, sequences over Kind
  Values,        \* words that are passed for a parameter that is no string
  Texts,         \* strings: [len |-> bytes, data |-> the words they fill]
  CodeWord,      \* what is read in front of the arguments: 32 bytes of code
  PcRange        \* 2^16: what two bytes can hold

Kind == {"word", "string"}
Byte == 0 .. 255

\* The ABI fills ceil(len / 32) words.
Text == {t \in [len : Nat, data : Seq(Nat)] : Len(t.data) = (t.len + 31) \div 32}

ASSUME DeployAssumption ==
  /\ Runtimes \subseteq Seq(Byte) /\ Constructors \subseteq Seq(Byte)
  /\ Signatures \subseteq Seq(Kind)
  /\ Values \subseteq Nat /\ Texts \subseteq Text /\ CodeWord \in Nat
  /\ PcRange \in Nat \ {0} /\ PcRange <= 65536

VARIABLES
  profile,      \* "debug" or "release"
  runtime,      \* bytes of the runtime
  constructor,  \* bytes of the constructor, its prologue included
  params,       \* kinds of its parameters
  stage,        \* where deployment is
  i, k,         \* index of a parameter, and how many strings came before it
  prologue,     \* what was generated for each parameter
  code,         \* the creation code
  args,         \* the arguments, as the caller means them
  heads, tails, \* their ABI encoding
  mem,          \* memory: byte offset -> word
  deployed      \* the code of the new contract

built == <<profile, runtime, constructor, params>>
sent == <<args, heads, tails>>
vars == <<profile, runtime, constructor, params, stage, i, k, prologue, code, args,
          heads, tails, mem, deployed>>

IsString(j) == params[j] = "string"
StringsIn(p, n) == Cardinality({j \in 1 .. n : p[j] = "string"})
Strings(n) == StringsIn(params, n)

Init ==
  /\ profile \in {"debug", "release"}
  /\ runtime \in Runtimes /\ constructor \in Constructors /\ params \in Signatures
  /\ stage = "lower" /\ i = 1 /\ k = 0
  /\ prologue = <<>> /\ code = <<>>
  /\ args = <<>> /\ heads = <<>> /\ tails = <<>>
  /\ mem = [a \in {} |-> 0]
  /\ deployed = <<>>

----------------------------------------------------------------------------
(* lower_constructor(): a loop over the parameters.                        *)

\* Mutant: all locals at 0x80.
SlotFirst(j) == 128
Slot(j) == 128 + 32 * (j - 1)

\* total_len, in words.
Total == Len(params) + 2 * Strings(Len(params))

WordBack == Total - (i - 1)
\* Mutant: counted from the end of the string, not from its start.
StringBackShort == 2 * (Strings(Len(params)) - k - 1)
StringBack == 2 * (Strings(Len(params)) - k)

Lower(back) ==
  /\ prologue' = Append(prologue, [kind |-> params[i], back |-> back, slot |-> Slot(i)])
  /\ i' = i + 1
  /\ UNCHANGED <<built, stage, code, sent, mem, deployed>>

LowerWord ==
  /\ stage = "lower" /\ i <= Len(params) /\ ~IsString(i)
  /\ Lower(WordBack)
  /\ UNCHANGED k

LowerString ==
  /\ stage = "lower" /\ i <= Len(params) /\ IsString(i)
  /\ Lower(StringBack)
  /\ k' = k + 1

----------------------------------------------------------------------------
(* wrap_with_constructor()                                                 *)

AsU16(n) == n % PcRange
Hi(n) == AsU16(n) \div 256
Lo(n) == AsU16(n) % 256

EpilogueLen == 15
\* Mutant: the epilogue does not count itself.
OffsetBare == Len(constructor)
Offset == Len(constructor) + EpilogueLen

\* PUSH2 size PUSH2 offset PUSH1 0 CODECOPY PUSH2 size PUSH1 0 RETURN
Epilogue ==
  LET size == Len(runtime)
  IN <<97, Hi(size), Lo(size), 97, Hi(Offset), Lo(Offset), 96, 0, 57,
       97, Hi(size), Lo(size), 96, 0, 243>>

\* debug_assert!(code_size <= 0xFFFF)
Wrap ==
  /\ stage = "lower" /\ i > Len(params)
  /\ profile = "release" \/ Len(runtime) < PcRange
  /\ code' = constructor \o Epilogue \o runtime
  /\ stage' = "encode" /\ i' = 1 /\ k' = 0
  /\ UNCHANGED <<built, prologue, sent, mem, deployed>>

WrapPanics ==
  /\ stage = "lower" /\ i > Len(params)
  /\ profile = "debug" /\ Len(runtime) >= PcRange
  /\ stage' = "panicked"
  /\ UNCHANGED <<built, i, k, prologue, code, sent, mem, deployed>>

----------------------------------------------------------------------------
(* The deployer: a head word per argument, then the tails of the strings.  *)

EncodeWord ==
  /\ stage = "encode" /\ i <= Len(params) /\ ~IsString(i)
  /\ \E v \in Values : args' = Append(args, v) /\ heads' = Append(heads, v)
  /\ i' = i + 1
  /\ UNCHANGED <<built, stage, k, prologue, code, tails, mem, deployed>>

EncodeString ==
  /\ stage = "encode" /\ i <= Len(params) /\ IsString(i)
  /\ \E t \in Texts :
       /\ args' = Append(args, t)
       /\ heads' = Append(heads, 32 * (Len(params) + Len(tails)))
       /\ tails' = tails \o <<t.len>> \o t.data
  /\ i' = i + 1 /\ k' = k + 1
  /\ UNCHANGED <<built, stage, prologue, code, mem, deployed>>

Send ==
  /\ stage = "encode" /\ i > Len(params)
  /\ stage' = "run" /\ i' = 1 /\ k' = 0
  /\ UNCHANGED <<built, prologue, code, sent, mem, deployed>>

----------------------------------------------------------------------------
(* The EVM runs the creation code.                                         *)

\* CODECOPY of the word that starts back words before the end of the code.
Tape == heads \o tails
FromEnd(back) == IF back <= Len(Tape) THEN Tape[Len(Tape) - back + 1] ELSE CodeWord

Stored(m, a, w) == [x \in DOMAIN m \cup {a} |-> IF x = a THEN w ELSE m[x]]

\* decode_short_string_constructor_arg: "revert unless len < 32", then the
\* first 31 bytes and, in the last one, twice the length.
\* Mutant: a string of 32 bytes passes.
FitsLoosely(len) == len <= 32
Fits(len) == len < 32
Pack(data, len) == (data - (data % 256)) + 2 * len

RunWord ==
  /\ stage = "run" /\ i <= Len(prologue) /\ prologue[i].kind = "word"
  /\ mem' = Stored(mem, prologue[i].slot, FromEnd(prologue[i].back))
  /\ i' = i + 1
  /\ UNCHANGED <<built, stage, k, prologue, code, sent, deployed>>

RunString ==
  /\ stage = "run" /\ i <= Len(prologue) /\ prologue[i].kind = "string"
  /\ LET len == FromEnd(prologue[i].back)
         data == FromEnd(prologue[i].back - 1)
         scratch == Stored(Stored(mem, 0, len), 32, data)
     IN \/ /\ Fits(len)
           /\ mem' = Stored(scratch, prologue[i].slot, Pack(data, len))
           /\ i' = i + 1 /\ k' = k + 1 /\ UNCHANGED stage
        \/ /\ ~Fits(len)
           /\ stage' = "refused"
           /\ UNCHANGED <<i, k, mem>>
  /\ UNCHANGED <<built, prologue, code, sent, deployed>>

\* The statements of the constructor, of which only this matters here: they
\* can revert, and cannot halt.
RunBody ==
  /\ stage = "run" /\ i > Len(prologue)
  /\ stage' \in {"epilogue", "reverted"}
  /\ UNCHANGED <<built, i, k, prologue, code, sent, mem, deployed>>

Operand(at) == 256 * code[Len(constructor) + at] + code[Len(constructor) + at + 1]

\* CODECOPY(0, offset, size); RETURN(0, size)
RunEpilogue ==
  /\ stage = "epilogue"
  /\ deployed' = SubSeq(code, Operand(5) + 1, Operand(5) + Operand(2))
  /\ stage' = "deployed"
  /\ UNCHANGED <<built, i, k, prologue, code, sent, mem>>

Next ==
  \/ LowerWord \/ LowerString \/ Wrap \/ WrapPanics
  \/ EncodeWord \/ EncodeString \/ Send
  \/ RunWord \/ RunString \/ RunBody \/ RunEpilogue

Spec == Init /\ [][Next]_vars

----------------------------------------------------------------------------
(* Properties.                                                             *)

\* The type of the state.  The prologue reads whole words, none of them past
\* the end of the code.
TypeOK ==
  /\ profile \in {"debug", "release"}
  /\ runtime \in Seq(Byte) /\ constructor \in Seq(Byte) /\ params \in Seq(Kind)
  /\ stage \in {"lower", "panicked", "encode", "run", "refused", "reverted", "epilogue",
                "deployed"}
  /\ i \in Nat /\ k \in Nat
  /\ \A j \in 1 .. Len(prologue) :
       /\ prologue[j].kind = params[j]
       /\ prologue[j].back \in IF IsString(j) THEN Nat \ {0, 1} ELSE Nat \ {0}
  /\ code \in Seq(Byte) /\ deployed \in Seq(Byte)
  /\ heads \in Seq(Nat) /\ tails \in Seq(Nat)

InBody == stage \in {"epilogue", "deployed"} \/ (stage = "run" /\ i > Len(prologue))

\* What the local of parameter j is to hold.
FirstWord(t) == IF t.data = <<>> THEN 0 ELSE t.data[1]
Meant(j) == IF IsString(j) THEN Pack(FirstWord(args[j]), args[j].len) ELSE args[j]

\* "arg i lives at args_start + 32 * i" and "tail is the last 64 * s bytes, the
\* Kth string's [len][data] live there" (lower.rs:119, 111): when the body of
\* the constructor runs, every parameter's local holds the argument that was
\* passed for it, whatever the others are.
ArgumentsArrive ==
  InBody => \A j \in 1 .. Len(params) : Slot(j) \in DOMAIN mem /\ mem[Slot(j)] = Meant(j)

\* "Support for strings is limited to short ones (< 32 bytes)" (README.md:137):
\* no other string reaches the body, and no deployment is refused without one.
LongStringsRefused ==
  LET long == {j \in 1 .. Len(params) : IsString(j) /\ args[j].len >= 32}
  IN (InBody => long = {}) /\ (stage = "refused" => long # {})

\* The contract that is created runs the runtime, neither cut nor shifted into
\* the creation code, if its offset (and, unless the build checks it, its
\* size) fits the PUSH2 of the epilogue.
RuntimeDeployed ==
  stage = "deployed" /\ Offset < PcRange /\ (profile = "debug" \/ Len(runtime) < PcRange)
    => deployed = runtime
=============================================================================
