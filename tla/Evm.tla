-------------------------------- MODULE Evm ---------------------------------
(***************************************************************************)
(* The machine the generated code runs on, as far as that code uses it: a  *)
(* stack of words with the top first, memory, the storage of every         *)
(* contract there is, the logs, and the callers that wait for an answer.   *)
(* Code is a sequence of ops whose jumps still name labels: module Asm     *)
(* shows what the assembler makes of them.                                 *)
(*                                                                         *)
(* A word is an offset from a base.  The base is << >> for the numbers, or *)
(* the words that were hashed: KECCAK256 is taken to be injective, and its *)
(* values to be far from the small numbers and from each other.            *)
(***************************************************************************)
EXTENDS Words, Sequences, FiniteSets

CONSTANTS
  SelectorShift,   \* position of the selector in calldata's first word (0xE0)
  CodeSize,        \* length of a creation code, its arguments included
  MaxDepth         \* calls within calls that the EVM allows (1024)

ASSUME EvmAssumption ==
  /\ SelectorShift \in 1 .. Bits - 1
  /\ CodeSize \in 512 .. 2^Bits - 1 /\ CodeSize % 32 = 0
  /\ MaxDepth \in Nat

Word(n) == [of |-> <<>>, plus |-> n % Modulus]
Keccak(ws) == [of |-> ws, plus |-> 0]
IsNumber(w) == w.of = <<>>
IsTrue(w) == w # Word(0)

\* What a word that started by bytes before (-by after) a word written later
\* has become: bytes of both.
Torn(old, new, by) == [of |-> <<old, new, Word(by)>>, plus |-> 0]
IsTorn(w) == Len(w.of) = 3
----------------------------------------------------------------------------
\* What an op takes from the stack and, for the plain ones, leaves there.
Pops ==
  [PUSH |-> 0, DUP1 |-> 1, SWAP1 |-> 2, POP |-> 1, CALLER |-> 0, TIMESTAMP |-> 0,
   ADDRESS |-> 0, CALLDATALOAD |-> 1, MLOAD |-> 1, SLOAD |-> 1, MSTORE |-> 2,
   SSTORE |-> 2, KECCAK256 |-> 2, JUMP |-> 0, JUMPI |-> 1, JUMPDEST |-> 0, LOG1 |-> 3,
   RETURN |-> 2, REVERT |-> 2, STOP |-> 0, ISZERO |-> 1, ADD |-> 2, SUB |-> 2,
   MUL |-> 2, DIV |-> 2, MOD |-> 2, LT |-> 2, GT |-> 2, EQ |-> 2, AND |-> 2, OR |-> 2,
   XOR |-> 2, SHL |-> 2, SHR |-> 2, NOT |-> 1, CODESIZE |-> 0, CODECOPY |-> 3, GAS |-> 0,
   CALL |-> 7, STATICCALL |-> 6]

Binary == {"ADD", "SUB", "MUL", "DIV", "MOD", "LT", "GT", "EQ", "AND", "OR", "XOR",
           "SHL", "SHR"}

\* a was on top of b.
Compute(op, a, b) ==
  LET x == a.plus  y == b.plus
  IN CASE op = "ADD" -> [of |-> a.of \o b.of, plus |-> (x + y) % Modulus]
       [] op = "SUB" -> Word(x - y)
       [] op = "MUL" -> Word(x * y)
       [] op = "DIV" -> Word(DivOrZero(x, y))
       [] op = "MOD" -> Word(ModOrZero(x, y))
       [] op = "LT"  -> Word(Truth(x < y))
       [] op = "GT"  -> Word(Truth(x > y))
       [] op = "EQ"  -> Word(Truth(a = b))
       [] op = "AND" -> Word(BitAnd(x, y))
       [] op = "OR"  -> Word(BitOr(x, y))
       [] op = "XOR" -> Word(BitXor(x, y))
       [] op = "SHL" -> Word(ShiftLeft(y, x))
       [] op = "SHR" -> Word(ShiftRight(y, x))

\* Memory and storage read as zero where nothing was written.  Memory maps the
\* offset of each word that was written to that word.
At(f, k) == IF k \in DOMAIN f THEN f[k] ELSE Word(0)
Words(mem, from, bytes) == [j \in 1 .. bytes \div 32 |-> At(mem, from + 32 * (j - 1))]
WriteWord(mem, at, w) ==
  [k \in DOMAIN mem \cup {at} |->
     IF k = at THEN w ELSE IF k \in at - 31 .. at + 31 THEN Torn(mem[k], w, at - k) ELSE mem[k]]
NonZero(f) == [k \in {x \in DOMAIN f : f[x] # Word(0)} |-> f[k]]

\* What a frame is given: the account it runs as, who called it, its calldata
\* (or, when that account is being created, the arguments behind the code),
\* and whether it may change any state.
Envelope(create, this, sender, time, selector, words, static) ==
  [create |-> create, this |-> this, sender |-> sender, time |-> time,
   selector |-> selector, words |-> words, static |-> static]

WordAt(ws, j, otherwise) == IF j \in DOMAIN ws THEN ws[j] ELSE Word(otherwise)

\* The first word of calldata starts with the selector; the others follow at
\* 4, 36, ...  Past the end, calldata reads as zero.
CallData(env, at) ==
  IF at = 0 THEN Word(env.selector * 2^SelectorShift) ELSE WordAt(env.words, (at - 4) \div 32 + 1, 0)

\* The first four bytes of the word at an offset, four bytes into which the
\* next word may have been written.
RECURSIVE Head4(_)
Head4(w) == IF IsTorn(w) THEN Head4(w.of[1]) ELSE w.plus \div 2^SelectorShift

Boot(world, env) ==
  [pc |-> 1, stack |-> <<>>, mem |-> NoMap, world |-> world, logs |-> <<>>, output |-> <<>>,
   status |-> "running", env |-> env, callers |-> <<>>]

Halt(m, status, output) == [m EXCEPT !.status = status, !.output = output]
Refuse(m) == Halt(m, "revert", <<>>)
HasCode(m, a) == a \in DOMAIN m.world /\ ~(a = m.env.this /\ m.env.create)

\* CALL and STATICCALL: n operands, of which the last four are the offset and
\* length of the calldata and of the place for the result.  An account without
\* code answers at once, with nothing.
SendMessage(m, n, static) ==
  LET s == m.stack
      to == s[2].plus
      in == s[n - 3].plus
      caller == [pc |-> m.pc + 1, stack |-> SubSeq(s, n + 1, Len(s)), mem |-> m.mem,
                 world |-> m.world, logs |-> m.logs, env |-> m.env,
                 into |-> s[n - 1].plus, room |-> s[n].plus]
      words == Words(m.mem, in + 4, s[n - 2].plus - 4)
      answer(bit) == [m EXCEPT !.pc = @ + 1, !.stack = <<Word(bit)>> \o caller.stack]
  IN IF Len(m.callers) = MaxDepth THEN answer(0)
     ELSE IF ~HasCode(m, to) THEN answer(1)
     ELSE [Boot(m.world, Envelope(FALSE, to, m.env.this, m.env.time, Head4(At(m.mem, in)),
                                  words, static \/ m.env.static))
             EXCEPT !.logs = m.logs, !.callers = <<caller>> \o m.callers]

\* A call has ended: its caller goes on, with what it did or as if it had not
\* happened.
Resume(m) ==
  LET c == Head(m.callers)
      ok == m.status \in {"stop", "return"}
  IN [m EXCEPT !.pc = c.pc, !.stack = <<Word(Truth(ok))>> \o c.stack, !.env = c.env,
        !.mem = IF c.room > 0 /\ m.output # <<>> THEN WriteWord(c.mem, c.into, m.output[1])
                ELSE c.mem,
        !.world = IF ok THEN @ ELSE c.world, !.logs = IF ok THEN @ ELSE c.logs,
        !.output = <<>>, !.status = "running", !.callers = Tail(@)]

\* One instruction.  code.dest gives the position of a label, 0 for one that
\* was never placed: offset 0 is not a JUMPDEST.
Step(code, m) ==
  IF m.pc > Len(code.ops) THEN Halt(m, "stop", <<>>)
  ELSE
  LET o == code.ops[m.pc]
      s == m.stack
      env == m.env
      rest(n) == SubSeq(s, n + 1, Len(s))
      onto(n, w) == [m EXCEPT !.pc = @ + 1, !.stack = <<w>> \o rest(n)]
      after(n) == [m EXCEPT !.pc = @ + 1, !.stack = rest(n)]
      goto(n) == IF code.dest[o.arg] = 0 THEN Halt(m, "invalid", <<>>)
                 ELSE [m EXCEPT !.pc = code.dest[o.arg], !.stack = rest(n)]
  IN IF Len(s) < Pops[o.op] THEN Halt(m, "invalid", <<>>)
     ELSE IF env.static /\ o.op \in {"SSTORE", "LOG1"} THEN Refuse(m)
     ELSE
     CASE o.op = "PUSH" -> onto(0, Word(o.arg))
       [] o.op = "DUP1" -> onto(0, s[1])
       [] o.op = "SWAP1" -> [m EXCEPT !.pc = @ + 1, !.stack = <<s[2], s[1]>> \o rest(2)]
       [] o.op = "POP" -> after(1)
       [] o.op = "JUMPDEST" -> after(0)
       [] o.op = "CALLER" -> onto(0, Word(env.sender))
       [] o.op = "TIMESTAMP" -> onto(0, Word(env.time))
       [] o.op = "ADDRESS" -> onto(0, Word(env.this))
       [] o.op = "GAS" -> onto(0, Word(0))
       [] o.op = "CODESIZE" -> onto(0, Word(CodeSize))
       [] o.op = "CALLDATALOAD" -> onto(1, CallData(env, s[1].plus))
       [] o.op \in Binary -> onto(2, Compute(o.op, s[1], s[2]))
       [] o.op = "ISZERO" -> onto(1, Word(Truth(s[1] = Word(0))))
       [] o.op = "NOT" -> onto(1, Word(Modulus - 1 - s[1].plus))
       [] o.op = "KECCAK256" -> onto(2, Keccak(Words(m.mem, s[1].plus, s[2].plus)))
       [] o.op = "MLOAD" -> onto(1, At(m.mem, s[1].plus))
       [] o.op = "SLOAD" -> onto(1, At(m.world[env.this], s[1]))
       [] o.op = "MSTORE" -> [after(2) EXCEPT !.mem = WriteWord(@, s[1].plus, s[2])]
       [] o.op = "SSTORE" ->
            [after(2) EXCEPT !.world[env.this] = NonZero(Write(@, s[1], s[2]))]
       [] o.op = "CODECOPY" ->      \* one word: an argument, or code that precedes them
            [after(3) EXCEPT !.mem = WriteWord(@, s[1].plus,
               WordAt(env.words, Len(env.words) + 1 - (CodeSize - s[2].plus) \div 32, Modulus - 1))]
       [] o.op = "LOG1" ->
            [after(3) EXCEPT !.logs =
               Append(@, [by |-> env.this, topics |-> <<s[3].plus>>,
                          data |-> Words(m.mem, s[1].plus, s[2].plus)])]
       [] o.op = "CALL" -> SendMessage(m, 7, FALSE)
       [] o.op = "STATICCALL" -> SendMessage(m, 6, TRUE)
       [] o.op = "JUMP" -> goto(0)
       [] o.op = "JUMPI" -> IF IsTrue(s[1]) THEN goto(1) ELSE after(1)
       [] o.op = "STOP" -> Halt(after(0), "stop", <<>>)
       [] o.op = "RETURN" -> Halt(after(2), "return", Words(m.mem, s[1].plus, s[2].plus))
       [] o.op = "REVERT" -> Refuse(after(2))
=============================================================================
