------------------------------ MODULE MCDeploy ------------------------------
(* Constructors of up to three parameters.                                 *)
EXTENDS Deploy

CONSTANT Lengths   \* of the strings that are passed, in bytes

MCSignatures == UNION {[1 .. n -> Kind] : n \in 0 .. 3}
\* Runtimes of 1, 3 and 21 bytes, which is beyond PcRange in Deploy.cfg;
\* constructors of 0, 2 and 6.
MCRuntimes == {<<91>>, <<1, 2, 3>>, [b \in 1 .. 21 |-> b]}
MCConstructors == {<<>>, <<95, 80>>, [b \in 1 .. 6 |-> 100 + b]}
\* Strings of a length differ from the others in their first word.
MCTexts ==
  {[len |-> n, data |-> [w \in 1 .. (n + 31) \div 32 |-> 256 * (1000 * w + n)]] : n \in Lengths}
=============================================================================
