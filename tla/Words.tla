------------------------------- MODULE Words --------------------------------
(* Unsigned arithmetic on words of Bits bits, and maps that grow.          *)
EXTENDS Integers, FiniteSetsExt

CONSTANT Bits    \* width of a word (256)

ASSUME WordsAssumption == Bits \in 11 .. 14

Modulus == 2^Bits
Truth(b) == IF b THEN 1 ELSE 0

\* Bit by bit combination of two numbers.
BitByBit(keep(_, _), a, b) ==
  MapThenSumSet(LAMBDA k : IF keep((a \div 2^k) % 2, (b \div 2^k) % 2) THEN 2^k ELSE 0,
                0 .. Bits - 1)
BitAnd(a, b) == BitByBit(LAMBDA x, y : x + y = 2, a, b)
BitOr(a, b)  == BitByBit(LAMBDA x, y : x + y > 0, a, b)
BitXor(a, b) == BitByBit(LAMBDA x, y : x + y = 1, a, b)
ShiftLeft(a, n)  == IF n < Bits THEN (a * 2^n) % Modulus ELSE 0
ShiftRight(a, n) == IF n < Bits THEN a \div 2^n ELSE 0
DivOrZero(a, b) == IF b = 0 THEN 0 ELSE a \div b
ModOrZero(a, b) == IF b = 0 THEN 0 ELSE a % b

NoMap == [k \in {} |-> 0]
Write(f, k, v) == [x \in DOMAIN f \cup {k} |-> IF x = k THEN v ELSE f[x]]
=============================================================================
