------------------------------- MODULE MCAsm -------------------------------
(* A small assembler: every program of up to MaxOps ops over a vocabulary  *)
(* with jumps both ways, and a pushed constant whose bytes are JUMPDEST    *)
(* and PUSH1.                                                              *)
EXTENDS Asm

MCVocabulary ==
  {[op |-> "Push", bytes |-> <<>>], [op |-> "Push", bytes |-> <<91, 96>>],
   [op |-> "Dup", n |-> 1], [op |-> "Simple", byte |-> 0]}
  \cup [op : {"Jump", "JumpI", "JumpDest"}, label : 0 .. 1]
============================================================================
