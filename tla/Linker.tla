------------------------------- MODULE Linker -------------------------------
(***************************************************************************)
(* What an assembler promises to those who append ops to it.  It is given  *)
(* items, each of some size, that may place a label or jump to one, and    *)
(* then links them in one step, or refuses to.  Nothing is said of passes, *)
(* of a label table or of bytes; module Asm implements this.               *)
(***************************************************************************)
EXTENDS Integers, Sequences

CONSTANTS
  Items,   \* what it may be given: records of kind, label and size
  Range    \* number of offsets a jump can name

VARIABLES
  checked,  \* does it refuse offsets that a jump cannot name?
  items,    \* what it has been given
  status,   \* "open" | "linked" | "refused"
  at,       \* the offset of each item, and behind the last
  to        \* the offset each jump goes to

vars == <<checked, items, status, at, to>>

Jumps == {j \in 1 .. Len(items) : items[j].kind = "jump"}

\* Where label l is placed, and where it is placed last.
Places(l) == {k \in 1 .. Len(items) : items[k].kind = "dest" /\ items[k].label = l}
Final(l) == {k \in Places(l) : \A m \in Places(l) : m <= k}

\* The offsets of the first n items, one behind the other.
Laid(offsets, n) ==
  /\ Len(offsets) = n + 1 /\ offsets[1] = 0
  /\ \A k \in 1 .. n : offsets[k + 1] = offsets[k] + items[k].size

Init ==
  /\ checked \in BOOLEAN
  /\ items = <<>> /\ status = "open" /\ at = <<>> /\ to = <<>>

Give(x) ==
  /\ status = "open"
  /\ items' = Append(items, x)
  /\ UNCHANGED <<checked, status, at, to>>

\* A jump goes to where its label is placed last, or, if it never is, to 0; an
\* offset that a jump cannot name is cut to one that it can.
Link ==
  /\ status = "open" /\ status' = "linked"
  /\ Laid(at', Len(items))
  /\ DOMAIN to' = Jumps
  /\ \A j \in Jumps :
       /\ Places(items[j].label) = {} => to'[j] = 0
       /\ Places(items[j].label) # {} =>
            \E k \in Final(items[j].label) : to'[j] = at'[k] % Range /\ (checked => at'[k] < Range)
  /\ UNCHANGED <<checked, items>>

\* Only if there is a jump to an offset that it cannot name.
Refuse ==
  /\ checked /\ status = "open" /\ status' = "refused"
  /\ \E n \in 0 .. Len(items) :
       /\ Laid(at', n)
       /\ \E j \in Jumps : \E k \in Places(items[j].label) : k <= n /\ at'[k] >= Range
  /\ UNCHANGED <<checked, items, to>>

Next == (\E x \in Items : Give(x)) \/ Link \/ Refuse

Spec == Init /\ [][Next]_vars
=============================================================================
