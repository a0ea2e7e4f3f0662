----------------------------- MODULE LayoutProofs -----------------------------
(***************************************************************************)
(* The memory of module Layout, for every program.  While no event and no  *)
(* returned tuple has more than four words, what a function stores in a    *)
(* local or a call's buffer is never another's; and if the elements of     *)
(* returned tuples leave the scratch alone too, every load reads what was  *)
(* stored for it.                                                          *)
(*                                                                         *)
(* What is yet to be emitted divides the memory that is yet to be used:    *)
(* each template has a room to allocate in, each access or partly filled   *)
(* buffer a reach, and no two of them, nor any of them and what has been   *)
(* stored, meet, except where they have the same owner.  Replacing a       *)
(* template divides its room among the items of its code.                  *)
(***************************************************************************)
EXTENDS Layout, TLAPS, SequenceTheorems

\* An event of five fields reaches the first local, and so does a tuple.
FewWords == MaxWords <= 4

\* Whatever is read from the scratch was put there without anything between.
Careful == FewWords /\ ~ScratchInTuples

----------------------------------------------------------------------------
(* Items.                                                                  *)

\* The items that TypeOK speaks of.
Typed ==
  {y \in Items : /\ y.lo <= y.hi
                 /\ y.op \in Templates => FirstLocal <= y.lo /\ y.hi <= MaxLocal}

\* What else is true of an item, by its kind.
Well(y) ==
  /\ y.op \in {"Store", "Load"} => y.lo = y.hi
  /\ y.op = "Store" /\ y.owner[1] = "local" =>
       FirstLocal <= y.at /\ y.to = y.at + Word /\ y.owner = Local(y.at)
  /\ y.op = "Args" => /\ FirstLocal <= y.at /\ y.to <= y.lo /\ \E n \in Nat : y.to = y.at + n * Word
                      /\ y.owner[1] = "buffer"
  /\ y.op = "Tuple" => y.at = 0 /\ y.to <= MaxWords * Word /\ y.owner[1] = "scratch"
  /\ y.op \in Templates \ {"Args", "Tuple"} => y.to = 0
  /\ y.op \in {"Fields", "Return", "Tuple", "Params"} => ~y.quiet

\* The memory an item may allocate, and the memory above the scratch it accesses.
InRoom(y, a) == y.lo <= a /\ a < y.hi
InReach(y, a) == FirstLocal <= a /\ y.at <= a /\ a < y.to

\* Two items do not meet in memory.
Apart(x, y) ==
  \A a \in Nat :
    /\ ~(InRoom(x, a) /\ InRoom(y, a))
    /\ ~(InRoom(x, a) /\ InReach(y, a))
    /\ ~(InReach(x, a) /\ InRoom(y, a))
    /\ InReach(x, a) /\ InReach(y, a) => x.owner = y.owner

\* The address a holds what was stored for o.
Given(a, o) == a \in DOMAIN mem /\ mem[a] = o

\* An item that reads, or, a tuple, is going to; one that stores, or is going
\* to; and one that may destroy what is in the scratch for o.
Reads(y, a) == y.op \in {"Load", "Tuple"} /\ y.at <= a /\ a < y.to
Fills(y, a, o) == y.op \in {"Store", "Args"} /\ y.owner = o /\ y.at <= a /\ a < y.to
Spoils(y, a, o) ==
  /\ a < FirstLocal
  /\ \/ y.op \in Templates /\ ~y.quiet
     \/ y.op = "Store" /\ y.at <= a /\ a < y.to /\ y.owner # o

\* An item that leaves the scratch alone.
Calm(y) == (y.op \in Templates => y.quiet) /\ (y.op = "Store" => FirstLocal <= y.at)

\* Something before the k-th item of c fills a for it.
Filled(c, k, a) ==
  \E j \in 1 .. k - 1 :
    /\ Fills(c[j], a, c[k].owner)
    /\ \A i \in j + 1 .. k - 1 : ~Spoils(c[i], a, c[k].owner)

----------------------------------------------------------------------------
(* The inductive invariant, in three parts.                                *)

\* Items are what they seem.
Shapes ==
  /\ code \in Seq(Typed)
  /\ \A k \in 1 .. Len(code) : Well(code[k])
  /\ \A s \in locals : s \in Nat /\ FirstLocal <= s

\* No two items of the code c meet, nor does one meet what is stored.
Separate(c) ==
  /\ \A j, k \in 1 .. Len(c) : j # k => Apart(c[j], c[k])
  /\ \A k \in 1 .. Len(c) : \A a \in DOMAIN mem :
       ~InRoom(c[k], a) /\ (InReach(c[k], a) => mem[a] = c[k].owner)

\* Nor do those that are to be emitted, and locals are stored.
Disjoint ==
  /\ Separate(code)
  /\ \A s \in locals : \A a \in s .. s + Word - 1 : Given(a, Local(s))

\* What an item of the code c is going to read is stored, or is going to be.
Supplied(c) ==
  \A k \in 1 .. Len(c) : \A a \in Nat :
    Reads(c[k], a) =>
      \/ Given(a, c[k].owner) /\ \A i \in 1 .. k - 1 : ~Spoils(c[i], a, c[k].owner)
      \/ Filled(c, k, a)

Kept == Supplied(code)

----------------------------------------------------------------------------
(* What a replacement has to be for the invariant to survive it.           *)

\* The code new may replace the item x: it keeps to x's room and reach, fills
\* what x would have filled, and reads what x would have read or it has filled.
Replaces(x, new) ==
  /\ new \in Seq(Typed)
  /\ \A k \in 1 .. Len(new) : Well(new[k]) /\ (x.quiet => Calm(new[k]))
  /\ FewWords =>
       /\ \A j, k \in 1 .. Len(new) : j # k => Apart(new[j], new[k])
       /\ \A k \in 1 .. Len(new) : \A a \in Nat :
            /\ InRoom(new[k], a) => InRoom(x, a)
            /\ InReach(new[k], a) =>
                 InRoom(x, a) \/ (InReach(x, a) /\ new[k].owner = x.owner) \/ Given(a, new[k].owner)
  /\ \A a \in Nat : Fills(x, a, x.owner) =>
       \E j \in 1 .. Len(new) :
         /\ Fills(new[j], a, x.owner)
         /\ \A i \in j + 1 .. Len(new) : ~Spoils(new[i], a, x.owner)
  /\ Careful => \A k \in 1 .. Len(new) : \A a \in Nat :
       Reads(new[k], a) =>
         \/ FirstLocal <= a /\ Given(a, new[k].owner)
         \/ Reads(x, a) /\ new[k].owner = x.owner /\ \A i \in 1 .. k - 1 : ~Spoils(new[i], a, x.owner)
         \/ Filled(new, k, a)

\* No word is stored between lo and hi.
Free(lo, hi) == \A a \in Nat : lo <= a /\ a < hi => a \notin DOMAIN mem

\* The item y keeps between lo and hi, or to what is stored for its owner; q if
\* it has to leave the scratch alone.
In(y, lo, hi, q) ==
  /\ y \in Typed /\ Well(y)
  /\ \A a \in Nat : InRoom(y, a) => lo <= a /\ a < hi
  /\ FewWords => \A a \in Nat : InReach(y, a) => (lo <= a /\ a < hi) \/ Given(a, y.owner)
  /\ q => Calm(y)

\* The code c does, as most replacements do.
Fits(c, lo, hi, q) ==
  /\ c \in Seq(Typed)
  /\ \A k \in 1 .. Len(c) : In(c[k], lo, hi, q)
  /\ FewWords => \A j, k \in 1 .. Len(c) : j # k => Apart(c[j], c[k])
  /\ FewWords => \A k \in 1 .. Len(c) : \A a \in Nat :
       Reads(c[k], a) => (FirstLocal <= a /\ Given(a, c[k].owner)) \/ Filled(c, k, a)

----------------------------------------------------------------------------
(* Items, one at a time.                                                   *)

\* The constants.
LEMMA Constants ==
  /\ Word \in Nat /\ 1 <= Word /\ SelectorLen \in Nat /\ 1 <= SelectorLen /\ SelectorLen <= Word
  /\ MaxLocal \in Nat /\ MaxWords \in Nat /\ MaxSize \in Nat /\ ScratchInTuples \in BOOLEAN
  /\ FirstLocal \in Nat /\ FirstLocal = 4 * Word
BY LayoutAssumption DEF FirstLocal

\* Words of the scratch end below the first local, if they are few.
LEMMA Multiples ==
  ASSUME NEW k \in Nat
  PROVE  /\ k * Word \in Nat
         /\ k <= 4 => k * Word <= FirstLocal
         /\ (k + 1) * Word = k * Word + Word
         /\ k # 0 => k - 1 \in Nat /\ k * Word = (k - 1) * Word + Word
<1>1. Word \in Nat /\ FirstLocal = 4 * Word
  BY Constants
<1> HIDE DEF FirstLocal
<1>2. k * Word \in Nat /\ (k + 1) * Word = k * Word + Word
  BY <1>1
<1>3. ASSUME k <= 4
      PROVE  k * Word <= FirstLocal
  <2>1. k = 0 \/ k = 1 \/ k = 2 \/ k = 3 \/ k = 4
    BY <1>3
  <2> QED
    BY <2>1, <1>1
<1>4. ASSUME k # 0
      PROVE  k - 1 \in Nat /\ k * Word = (k - 1) * Word + Word
  BY <1>1, <1>4
<1> QED
  BY <1>2, <1>3, <1>4

\* While they are few, all the words of an event or a tuple are scratch.
LEMMA Scratched ==
  ASSUME FewWords
  PROVE  MaxWords * Word <= FirstLocal
BY Constants, Multiples DEF FewWords

\* The fields of an item.
LEMMA Fielded ==
  ASSUME NEW y \in Typed
  PROVE  /\ y \in Items /\ y.op \in Templates \cup {"Store", "Load"}
         /\ y.lo \in Nat /\ y.hi \in Nat /\ y.lo <= y.hi
         /\ y.at \in Nat /\ y.to \in Nat /\ y.owner \in Owners /\ y.quiet \in BOOLEAN
         /\ y.op \in Templates => FirstLocal <= y.lo /\ y.hi <= MaxLocal
<1> HIDE DEF Templates, Owners, FirstLocal
<1> QED
  BY DEF Typed, Items

\* The templates that may leave the scratch alone, but for those with a reach.
Plain == {"Expr", "Place", "Internal", "Bind", "External", "Stmt", "Stmts"}

\* Templates are not accesses.
LEMMA Kinds ==
  /\ "Store" \notin Templates /\ "Load" \notin Templates
  /\ \A op \in Plain :
       op \in Templates /\ op \notin {"Args", "Tuple", "Fields", "Return", "Params", "Store", "Load"}
  /\ \A op \in {"Fields", "Return", "Params"} : op \in Templates /\ op \notin {"Args", "Tuple", "Store", "Load"}
  /\ "Args" \in Templates /\ "Tuple" \in Templates
BY DEF Templates, Plain

\* A template that has no reach.
LEMMA TemplateIn ==
  ASSUME NEW op \in Templates \ {"Args", "Tuple"}, NEW lo \in Nat, NEW hi \in Nat,
         FirstLocal <= lo, lo <= hi, hi <= MaxLocal,
         NEW t, t \in BOOLEAN, op \in {"Fields", "Return", "Params"} => ~t,
         NEW q, q \in BOOLEAN, q => t
  PROVE  /\ In(Template(op, lo, hi, t), lo, hi, q)
         /\ \A a \in Nat : ~Reads(Template(op, lo, hi, t), a)
<1> DEFINE y == Template(op, lo, hi, t)
<1>1. /\ y.op = op /\ y.lo = lo /\ y.hi = hi /\ y.at = 0 /\ y.to = 0 /\ y.owner = <<"none", 0>>
      /\ y.quiet = t
  BY DEF Template
<1>2. y \in Items
  <2>1. <<"none", 0>> \in Owners
    BY DEF Owners
  <2> HIDE DEF Owners, Templates
  <2> QED
    BY <2>1 DEF Template, Items
<1>3. op \notin {"Store", "Load"} /\ FirstLocal \in Nat
  BY Kinds, Constants
<1> HIDE DEF y, Templates, FirstLocal
<1>4. y \in Typed
  BY <1>1, <1>2 DEF Typed
<1>5. Well(y)
  BY <1>1, <1>3 DEF Well
<1>6. \A a \in Nat : ~InReach(y, a) /\ ~Reads(y, a)
  BY <1>1, <1>3 DEF InReach, Reads
<1>7. q => Calm(y)
  BY <1>1, <1>3 DEF Calm
<1> QED
  BY <1>1, <1>4, <1>5, <1>6, <1>7 DEF In, InRoom, y

\* An access, which allocates nothing.
LEMMA Accessed ==
  ASSUME NEW op, NEW at, NEW to, NEW owner, NEW y, y = Access(op, at, to, owner),
         op \in {"Store", "Load"}, at \in Nat, to \in Nat, owner \in Owners
  PROVE  /\ y.op = op /\ y.lo = y.hi /\ y.at = at /\ y.to = to /\ y.owner = owner
         /\ y \in Typed /\ \A a \in Nat : ~InRoom(y, a)
<1>1. /\ y.op = op /\ y.lo = 0 /\ y.hi = 0 /\ y.at = at /\ y.to = to /\ y.owner = owner
      /\ y.quiet = TRUE
  BY DEF Access
<1>2. y \in Items
  <2> HIDE DEF Owners, Templates
  <2> QED
    BY DEF Access, Items
<1>3. op \notin Templates
  BY Kinds
<1> HIDE DEF Templates, FirstLocal
<1>4. y \in Typed
  BY <1>1, <1>2, <1>3 DEF Typed
<1> QED
  BY <1>1, <1>4 DEF InRoom

\* The scratch for a load, or for the store that fills it.
LEMMA ScratchIn ==
  ASSUME NEW op \in {"Store", "Load"}, NEW k \in Nat, k <= 4 \/ k <= MaxWords,
         replaced \in Nat, NEW lo, NEW hi,
         NEW y, y = Access(op, 0, k * Word, <<"scratch", New>>)
  PROVE  In(y, lo, hi, FALSE) /\ (FewWords => \A a \in Nat : ~InReach(y, a))
<1>1. PICK to, owner : to = k * Word /\ owner = <<"scratch", New>>
  OBVIOUS
<1>2. to \in Nat /\ (FewWords => to <= FirstLocal) /\ FirstLocal \in Nat
  BY <1>1, Constants, Multiples DEF FewWords
<1>3. owner \in Owners /\ owner[1] = "scratch"
  BY <1>1 DEF Owners, New
<1> HIDE DEF Owners, Templates, FirstLocal
<1>4. /\ y.op = op /\ y.lo = y.hi /\ y.at = 0 /\ y.to = to /\ y.owner = owner
      /\ y \in Typed /\ \A a \in Nat : ~InRoom(y, a)
  BY <1>1, <1>2, <1>3, Accessed
<1>5. y.op \notin Templates \cup {"Args", "Tuple", "Fields", "Return", "Params"}
  BY <1>4, Kinds
<1>6. Well(y)
  BY <1>3, <1>4, <1>5 DEF Well
<1>7. FewWords => \A a \in Nat : ~InReach(y, a)
  BY <1>2, <1>4 DEF InReach
<1> QED
  BY <1>4, <1>6, <1>7 DEF In

\* The access of a local between lo and hi, or one that has been stored.
LEMMA LocalIn ==
  ASSUME NEW op \in {"Store", "Load"}, NEW slot \in Nat, FirstLocal <= slot,
         NEW lo, NEW hi, NEW q,
         FewWords => \A a \in slot .. slot + Word - 1 : (lo <= a /\ a < hi) \/ Given(a, Local(slot)),
         NEW y, y = Access(op, slot, slot + Word, Local(slot))
  PROVE  In(y, lo, hi, q)
<1>1. PICK to, owner : to = slot + Word /\ owner = Local(slot)
  OBVIOUS
<1>2. owner \in Owners /\ to \in Nat /\ FirstLocal \in Nat /\ Word \in Nat
  BY <1>1, Constants DEF Owners, Local
<1> HIDE DEF Owners, Templates, FirstLocal
<1>3. /\ y.op = op /\ y.lo = y.hi /\ y.at = slot /\ y.to = to /\ y.owner = owner
      /\ y \in Typed /\ \A a \in Nat : ~InRoom(y, a)
  BY <1>1, <1>2, Accessed
<1>4. y.op \notin Templates \cup {"Args", "Tuple", "Fields", "Return", "Params"}
  BY <1>3, Kinds
<1>5. Well(y)
  BY <1>1, <1>3, <1>4 DEF Well
<1>6. \A a \in Nat : InReach(y, a) => a \in slot .. slot + Word - 1
  BY <1>1, <1>2, <1>3 DEF InReach
<1>7. Calm(y)
  BY <1>3, <1>4 DEF Calm
<1> QED
  BY <1>1, <1>3, <1>5, <1>6, <1>7 DEF In

\* An item keeps between any bounds that are further apart.
LEMMA Wider ==
  ASSUME NEW y, NEW q, NEW lo \in Nat, NEW m \in Nat, NEW k \in Nat, NEW hi \in Nat,
         In(y, m, k, q), lo <= m, k <= hi
  PROVE  In(y, lo, hi, q)
<1> HIDE DEF Typed
<1> QED
  BY DEF In

\* Items that keep to parts of what is free, one above the other, do not meet.
LEMMA Divided ==
  ASSUME NEW y, NEW z, NEW q, NEW lo \in Nat, NEW m \in Nat, NEW k \in Nat, NEW hi \in Nat,
         lo <= m, m <= k, k <= hi, FewWords, Free(lo, hi),
         In(y, lo, m, q), In(z, k, hi, q)
  PROVE  Apart(y, z) /\ Apart(z, y)
<1> SUFFICES ASSUME NEW a \in Nat
             PROVE  /\ ~(InRoom(y, a) /\ InRoom(z, a))
                    /\ ~(InRoom(y, a) /\ InReach(z, a))
                    /\ ~(InReach(y, a) /\ InRoom(z, a))
                    /\ InReach(y, a) /\ InReach(z, a) => y.owner = z.owner
  BY DEF Apart
<1>1. InRoom(y, a) => lo <= a /\ a < m
  BY DEF In
<1>2. InRoom(z, a) => k <= a /\ a < hi
  BY DEF In
<1>3. InReach(y, a) => (lo <= a /\ a < m) \/ Given(a, y.owner)
  BY DEF In
<1>4. InReach(z, a) => (k <= a /\ a < hi) \/ Given(a, z.owner)
  BY DEF In
<1>5. \A o : Given(a, o) => ~(lo <= a /\ a < hi)
  BY DEF Free, Given
<1>6. \A o, p : Given(a, o) /\ Given(a, p) => o = p
  BY DEF Given
<1> HIDE DEF InRoom, InReach, Given
<1> QED
  BY <1>1, <1>2, <1>3, <1>4, <1>5, <1>6

\* An item with neither room nor reach meets none.
LEMMA Nowhere ==
  ASSUME NEW y, NEW z, \A a \in Nat : ~InRoom(y, a) /\ ~InReach(y, a)
  PROVE  Apart(y, z) /\ Apart(z, y)
BY DEF Apart

----------------------------------------------------------------------------
(* Codes.                                                                  *)

\* The empty code.
LEMMA FitsNone ==
  ASSUME NEW lo, NEW hi, NEW q
  PROVE  Fits(<<>>, lo, hi, q)
<1>1. <<>> \in Seq(Typed) /\ Len(<<>>) = 0
  <2> HIDE DEF Typed
  <2> QED
    OBVIOUS
<1> QED
  BY <1>1 DEF Fits

\* A code of one item, which reads nothing or what is stored for it.
LEMMA FitsOne ==
  ASSUME NEW y, NEW lo, NEW hi, NEW q, In(y, lo, hi, q),
         FewWords => \A a \in Nat : Reads(y, a) => FirstLocal <= a /\ Given(a, y.owner)
  PROVE  Fits(<<y>>, lo, hi, q)
<1>1. y \in Typed
  BY DEF In
<1> HIDE DEF Typed
<1>2. <<y>> \in Seq(Typed) /\ Len(<<y>>) = 1 /\ <<y>>[1] = y
  BY <1>1
<1> DEFINE c == <<y>>
<1>3. c \in Seq(Typed) /\ Len(c) = 1 /\ c[1] = y
  BY <1>2
<1> HIDE DEF c
<1>4. \A k \in 1 .. Len(c) : k = 1
  BY <1>3
<1>5. Fits(c, lo, hi, q)
  BY <1>3, <1>4 DEF Fits
<1> QED
  BY <1>5 DEF c

\* Of two that read nothing and do not meet.
LEMMA FitsTwo ==
  ASSUME NEW y, NEW z, NEW lo, NEW hi, NEW q,
         In(y, lo, hi, q), In(z, lo, hi, q),
         FewWords => Apart(y, z) /\ Apart(z, y),
         \A a \in Nat : ~Reads(y, a) /\ ~Reads(z, a)
  PROVE  Fits(<<y, z>>, lo, hi, q)
<1>1. y \in Typed /\ z \in Typed
  BY DEF In
<1> HIDE DEF Typed
<1> DEFINE c == <<y, z>>
<1>2. c \in Seq(Typed) /\ Len(c) = 2 /\ c[1] = y /\ c[2] = z
  BY <1>1
<1> HIDE DEF c
<1>3. \A k \in 1 .. Len(c) : k = 1 \/ k = 2
  BY <1>2
<1>4. Fits(c, lo, hi, q)
  BY <1>2, <1>3 DEF Fits
<1> QED
  BY <1>4 DEF c

\* Of three.
LEMMA FitsThree ==
  ASSUME NEW x, NEW y, NEW z, NEW lo, NEW hi, NEW q,
         In(x, lo, hi, q), In(y, lo, hi, q), In(z, lo, hi, q),
         FewWords => /\ Apart(x, y) /\ Apart(y, x) /\ Apart(y, z) /\ Apart(z, y)
                     /\ Apart(x, z) /\ Apart(z, x),
         \A a \in Nat : ~Reads(x, a) /\ ~Reads(y, a) /\ ~Reads(z, a)
  PROVE  Fits(<<x, y, z>>, lo, hi, q)
<1>1. x \in Typed /\ y \in Typed /\ z \in Typed
  BY DEF In
<1> HIDE DEF Typed
<1> DEFINE c == <<x, y, z>>
<1>2. c \in Seq(Typed) /\ Len(c) = 3 /\ c[1] = x /\ c[2] = y /\ c[3] = z
  BY <1>1
<1> HIDE DEF c
<1>3. \A k \in 1 .. Len(c) : k = 1 \/ k = 2 \/ k = 3
  BY <1>2
<1>4. Fits(c, lo, hi, q)
  <2>1. \A k \in 1 .. Len(c) : In(c[k], lo, hi, q) /\ \A a \in Nat : ~Reads(c[k], a)
    BY <1>2, <1>3
  <2>2. FewWords => \A j, k \in 1 .. Len(c) : j # k => Apart(c[j], c[k])
    BY <1>2, <1>3
  <2> QED
    BY <1>2, <2>1, <2>2 DEF Fits
<1> QED
  BY <1>4 DEF c

\* One code after another, of which it meets no item.
LEMMA FitsJoined ==
  ASSUME NEW c, NEW d, NEW lo, NEW hi, NEW q, Fits(c, lo, hi, q), Fits(d, lo, hi, q),
         FewWords => \A j \in 1 .. Len(c), k \in 1 .. Len(d) : Apart(c[j], d[k]) /\ Apart(d[k], c[j])
  PROVE  Fits(c \o d, lo, hi, q)
<1>1. c \in Seq(Typed) /\ d \in Seq(Typed)
  BY DEF Fits
<1> HIDE DEF Typed
<1>2. Len(c) \in Nat /\ Len(d) \in Nat
  BY <1>1
<1> DEFINE s == c \o d
<1>3. s \in Seq(Typed) /\ Len(s) = Len(c) + Len(d)
  BY <1>1, ConcatProperties
<1>4. \A k \in 1 .. Len(c) : s[k] = c[k]
  <2>1. \A i \in 1 .. Len(c) + Len(d) : s[i] = IF i <= Len(c) THEN c[i] ELSE d[i - Len(c)]
    BY <1>1, ConcatProperties
  <2> QED
    BY <2>1, <1>2
<1>5. \A k \in 1 .. Len(d) : s[Len(c) + k] = d[k]
  <2>1. \A i \in 1 .. Len(c) + Len(d) : s[i] = IF i <= Len(c) THEN c[i] ELSE d[i - Len(c)]
    BY <1>1, ConcatProperties
  <2> TAKE k \in 1 .. Len(d)
  <2>2. /\ Len(c) + k \in 1 .. Len(c) + Len(d) /\ ~(Len(c) + k <= Len(c))
        /\ Len(c) + k - Len(c) = k
    BY <1>2
  <2> QED
    BY <2>1, <2>2
<1> HIDE DEF s
<1>6. \A i \in 1 .. Len(s) : i \in 1 .. Len(c) \/ \E k \in 1 .. Len(d) : i = Len(c) + k
  <2> TAKE i \in 1 .. Len(s)
  <2>1. CASE i <= Len(c)
    BY <2>1, <1>2, <1>3
  <2>2. CASE ~(i <= Len(c))
    <3>1. i - Len(c) \in 1 .. Len(d) /\ i = Len(c) + (i - Len(c))
      BY <2>2, <1>2, <1>3
    <3> QED
      BY <3>1
  <2> QED
    BY <2>1, <2>2
<1>7. \A i \in 1 .. Len(s) : In(s[i], lo, hi, q)
  BY <1>4, <1>5, <1>6 DEF Fits
<1>8. ASSUME FewWords
      PROVE  \A i, k \in 1 .. Len(s) : i # k => Apart(s[i], s[k])
  <2> SUFFICES ASSUME NEW i \in 1 .. Len(s), NEW k \in 1 .. Len(s), i # k
               PROVE  Apart(s[i], s[k])
    OBVIOUS
  <2>1. \A n, m \in 1 .. Len(c) : n # m => Apart(c[n], c[m])
    BY <1>8 DEF Fits
  <2>2. \A n, m \in 1 .. Len(d) : n # m => Apart(d[n], d[m])
    BY <1>8 DEF Fits
  <2>3. \A n \in 1 .. Len(c), m \in 1 .. Len(d) : Apart(c[n], d[m]) /\ Apart(d[m], c[n])
    BY <1>8
  <2> HIDE DEF Apart
  <2>4. CASE i \in 1 .. Len(c) /\ k \in 1 .. Len(c)
    BY <2>1, <2>4, <1>4
  <2>5. CASE i \in 1 .. Len(c) /\ \E m \in 1 .. Len(d) : k = Len(c) + m
    BY <2>3, <2>5, <1>4, <1>5
  <2>6. CASE (\E n \in 1 .. Len(d) : i = Len(c) + n) /\ k \in 1 .. Len(c)
    BY <2>3, <2>6, <1>4, <1>5
  <2>7. CASE (\E n \in 1 .. Len(d) : i = Len(c) + n) /\ (\E m \in 1 .. Len(d) : k = Len(c) + m)
    <3>1. PICK n \in 1 .. Len(d), m \in 1 .. Len(d) : i = Len(c) + n /\ k = Len(c) + m
      BY <2>7
    <3> QED
      BY <3>1, <2>2, <1>5
  <2> QED
    BY <2>4, <2>5, <2>6, <2>7, <1>6
<1>9. ASSUME FewWords, NEW i \in 1 .. Len(s), NEW a \in Nat, Reads(s[i], a)
      PROVE  (FirstLocal <= a /\ Given(a, s[i].owner)) \/ Filled(s, i, a)
  <2> HIDE DEF FirstLocal
  <2>1. CASE i \in 1 .. Len(c)
    <3>1. s[i] = c[i] /\ \A j \in 1 .. i - 1 : s[j] = c[j]
      BY <2>1, <1>2, <1>4
    <3>2. (FirstLocal <= a /\ Given(a, c[i].owner)) \/ Filled(c, i, a)
      BY <3>1, <2>1, <1>9 DEF Fits
    <3>3. Filled(c, i, a) => Filled(s, i, a)
      <4>1. SUFFICES ASSUME Filled(c, i, a) PROVE Filled(s, i, a)
        OBVIOUS
      <4>2. PICK j \in 1 .. i - 1 :
              Fills(c[j], a, c[i].owner) /\ \A n \in j + 1 .. i - 1 : ~Spoils(c[n], a, c[i].owner)
        BY <4>1 DEF Filled
      <4>3. \A n \in j + 1 .. i - 1 : n \in 1 .. i - 1
        BY <2>1
      <4> QED
        BY <4>2, <4>3, <3>1 DEF Filled
    <3> QED
      BY <3>1, <3>2, <3>3
  <2>2. ASSUME NEW k \in 1 .. Len(d), i = Len(c) + k
        PROVE  (FirstLocal <= a /\ Given(a, s[i].owner)) \/ Filled(s, i, a)
    <3>1. s[i] = d[k]
      BY <2>2, <1>5
    <3>2. (FirstLocal <= a /\ Given(a, d[k].owner)) \/ Filled(d, k, a)
      BY <3>1, <1>9 DEF Fits
    <3>3. Filled(d, k, a) => Filled(s, i, a)
      <4>1. SUFFICES ASSUME Filled(d, k, a) PROVE Filled(s, i, a)
        OBVIOUS
      <4>2. PICK j \in 1 .. k - 1 :
              Fills(d[j], a, d[k].owner) /\ \A n \in j + 1 .. k - 1 : ~Spoils(d[n], a, d[k].owner)
        BY <4>1 DEF Filled
      <4>3. Len(c) + j \in 1 .. i - 1 /\ s[Len(c) + j] = d[j]
        BY <2>2, <1>2, <1>5
      <4>4. ASSUME NEW n \in Len(c) + j + 1 .. i - 1
            PROVE  ~Spoils(s[n], a, d[k].owner)
        <5>1. /\ n - Len(c) \in j + 1 .. k - 1 /\ n - Len(c) \in 1 .. Len(d)
              /\ n = Len(c) + (n - Len(c))
          BY <2>2, <1>2
        <5> QED
          BY <5>1, <4>2, <1>5
      <4> QED
        BY <4>2, <4>3, <4>4, <3>1 DEF Filled
    <3> QED
      BY <3>1, <3>2, <3>3
  <2> QED
    BY <2>1, <2>2, <1>6
<1> QED
  BY <1>3, <1>7, <1>8, <1>9 DEF Fits, s

\* What is stored in the scratch and then read.
LEMMA Scratches ==
  ASSUME NEW k \in Nat, k <= 4 \/ k <= MaxWords, replaced \in Nat, NEW lo, NEW hi
  PROVE  /\ Fits(Scratch(k), lo, hi, FALSE)
         /\ FewWords => \A j \in 1 .. Len(Scratch(k)) : \A z :
              Apart(Scratch(k)[j], z) /\ Apart(z, Scratch(k)[j])
<1>1. PICK y : y = Access("Store", 0, k * Word, <<"scratch", New>>)
  OBVIOUS
<1>2. PICK z : z = Access("Load", 0, k * Word, <<"scratch", New>>)
  OBVIOUS
<1>3. /\ In(y, lo, hi, FALSE) /\ In(z, lo, hi, FALSE)
      /\ FewWords => \A a \in Nat : ~InReach(y, a) /\ ~InReach(z, a)
  BY <1>1, <1>2, ScratchIn
<1>4. /\ y.op = "Store" /\ z.op = "Load" /\ y.at = z.at /\ y.to = z.to /\ y.owner = z.owner
      /\ y.lo = 0 /\ y.hi = 0 /\ z.lo = 0 /\ z.hi = 0
  <2> HIDE DEF New
  <2> QED
    BY <1>1, <1>2 DEF Access
<1>5. FewWords => \A x : Apart(y, x) /\ Apart(x, y) /\ Apart(z, x) /\ Apart(x, z)
  <2>1. \A a \in Nat : ~InRoom(y, a) /\ ~InRoom(z, a)
    BY <1>4 DEF InRoom
  <2> QED
    BY <2>1, <1>3, Nowhere
<1> DEFINE c == <<y, z>>
<1>6. y \in Typed /\ z \in Typed
  BY <1>3 DEF In
<1> HIDE DEF Typed
<1>7. c \in Seq(Typed) /\ Len(c) = 2 /\ c[1] = y /\ c[2] = z
  BY <1>6
<1> HIDE DEF c
<1>8. \A j \in 1 .. Len(c) : j = 1 \/ j = 2
  BY <1>7
<1>9. ASSUME NEW a \in Nat
      PROVE  ~Reads(y, a) /\ (Reads(z, a) => Filled(c, 2, a))
  <2>1. ~Reads(y, a)
    BY <1>4 DEF Reads
  <2>2. Reads(z, a) => Fills(y, a, z.owner)
    BY <1>4 DEF Reads, Fills
  <2>3. Fills(y, a, z.owner) => Filled(c, 2, a)
    <3>1. 1 \in 1 .. 2 - 1 /\ 1 + 1 .. 2 - 1 = {}
      OBVIOUS
    <3> QED
      BY <3>1, <1>7 DEF Filled
  <2> QED
    BY <2>1, <2>2, <2>3
<1>10. Fits(c, lo, hi, FALSE)
  <2>1. \A j \in 1 .. Len(c) : In(c[j], lo, hi, FALSE)
    BY <1>3, <1>7, <1>8
  <2>2. FewWords => \A j, n \in 1 .. Len(c) : j # n => Apart(c[j], c[n])
    BY <1>5, <1>7, <1>8
  <2>3. \A j \in 1 .. Len(c) : \A a \in Nat : Reads(c[j], a) => Filled(c, j, a)
    BY <1>7, <1>8, <1>9
  <2> QED
    BY <1>7, <2>1, <2>2, <2>3 DEF Fits
<1>11. FewWords => \A j \in 1 .. Len(c) : \A x : Apart(c[j], x) /\ Apart(x, c[j])
  BY <1>5, <1>7, <1>8
<1>12. Scratch(k) = c
  BY <1>1, <1>2 DEF Scratch, c
<1> QED
  BY <1>10, <1>11, <1>12

\* A code that fits may be followed, or preceded, by scratch.
LEMMA Scratchy ==
  ASSUME NEW k \in Nat, k <= 4 \/ k <= MaxWords, replaced \in Nat,
         NEW c, NEW lo, NEW hi, Fits(c, lo, hi, FALSE)
  PROVE  Fits(c \o Scratch(k), lo, hi, FALSE) /\ Fits(Scratch(k) \o c, lo, hi, FALSE)
<1> HIDE DEF Scratch, Fits, Apart, FewWords
<1> QED
  BY Scratches, FitsJoined

\* Where a template has neither reach nor something to read or to fill, what
\* fits may replace it.
LEMMA FitsReplaces ==
  ASSUME NEW x \in Typed, Well(x), x.op \in Templates \ {"Args", "Tuple"},
         NEW new, Fits(new, x.lo, x.hi, x.quiet)
  PROVE  Replaces(x, new)
<1>1. new \in Seq(Typed) /\ \A k \in 1 .. Len(new) : In(new[k], x.lo, x.hi, x.quiet)
  BY DEF Fits
<1>2. \A k \in 1 .. Len(new) : Well(new[k]) /\ (x.quiet => Calm(new[k]))
  BY <1>1 DEF In
<1>3. ASSUME FewWords, NEW k \in 1 .. Len(new), NEW a \in Nat
      PROVE  /\ InRoom(new[k], a) => InRoom(x, a)
             /\ InReach(new[k], a) => InRoom(x, a) \/ Given(a, new[k].owner)
  <2>1. /\ InRoom(new[k], a) => x.lo <= a /\ a < x.hi
        /\ InReach(new[k], a) => (x.lo <= a /\ a < x.hi) \/ Given(a, new[k].owner)
    BY <1>1, <1>3 DEF In
  <2> QED
    BY <2>1 DEF InRoom
<1>4. \A a : ~Fills(x, a, x.owner)
  BY Kinds DEF Fills
<1>5. FewWords => \A j, k \in 1 .. Len(new) : j # k => Apart(new[j], new[k])
  BY DEF Fits
<1>6. Careful => \A k \in 1 .. Len(new) : \A a \in Nat :
        Reads(new[k], a) => (FirstLocal <= a /\ Given(a, new[k].owner)) \/ Filled(new, k, a)
  BY DEF Fits, Careful
<1> HIDE DEF Typed, Well, Calm, FewWords, Careful, Apart, InRoom, InReach, Given, Fills, Spoils, Reads, Filled, FirstLocal
<1>7. \A a \in Nat : Fills(x, a, x.owner) =>
        \E j \in 1 .. Len(new) :
          /\ Fills(new[j], a, x.owner)
          /\ \A i \in j + 1 .. Len(new) : ~Spoils(new[i], a, x.owner)
  BY <1>4
<1>8. Careful => \A k \in 1 .. Len(new) : \A a \in Nat :
        Reads(new[k], a) =>
          \/ FirstLocal <= a /\ Given(a, new[k].owner)
          \/ Reads(x, a) /\ new[k].owner = x.owner /\ \A i \in 1 .. k - 1 : ~Spoils(new[i], a, x.owner)
          \/ Filled(new, k, a)
  BY <1>6
<1>9. FewWords => \A k \in 1 .. Len(new) : \A a \in Nat :
        /\ InRoom(new[k], a) => InRoom(x, a)
        /\ InReach(new[k], a) =>
             InRoom(x, a) \/ (InReach(x, a) /\ new[k].owner = x.owner) \/ Given(a, new[k].owner)
  BY <1>3
<1> QED
  BY <1>1, <1>2, <1>5, <1>7, <1>8, <1>9, Zenon DEF Replaces

----------------------------------------------------------------------------
(* The codes a template may stand for.                                     *)

\* What is known of the first item of a code, and of the locals.
Ready(x) ==
  /\ x \in Typed /\ Well(x) /\ replaced \in Nat
  /\ \A slot \in locals : slot \in Nat /\ FirstLocal <= slot
  /\ FewWords => /\ Free(x.lo, x.hi)
                 /\ \A slot \in locals : \A a \in slot .. slot + Word - 1 : Given(a, Local(slot))

\* The bounds of a template, and a value of next_local between them.
LEMMA Bounds ==
  ASSUME NEW x, Ready(x), x.op \in Templates
  PROVE  /\ x.lo \in Nat /\ x.hi \in Nat /\ FirstLocal \in Nat /\ FirstLocal <= x.lo /\ x.lo <= x.hi
         /\ x.hi <= MaxLocal /\ x.quiet \in BOOLEAN /\ Word \in Nat /\ 1 <= Word
         /\ \A m \in Between(x.lo, x.hi) : m \in Nat /\ x.lo <= m /\ m <= x.hi
<1>1. /\ x.lo \in Nat /\ x.hi \in Nat /\ FirstLocal <= x.lo /\ x.lo <= x.hi
      /\ x.hi <= MaxLocal /\ x.quiet \in BOOLEAN
  BY Fielded DEF Ready
<1>2. FirstLocal \in Nat /\ Word \in Nat /\ 1 <= Word
  BY Constants
<1> HIDE DEF FirstLocal
<1>3. \A m \in Between(x.lo, x.hi) : m \in Nat /\ x.lo <= m /\ m <= x.hi
  BY <1>1 DEF Between
<1> QED
  BY <1>1, <1>2, <1>3

\* One template in the place of another.
LEMMA OnePart ==
  ASSUME NEW op \in Templates \ {"Args", "Tuple"}, NEW lo \in Nat, NEW hi \in Nat,
         FirstLocal <= lo, lo <= hi, hi <= MaxLocal,
         NEW t, t \in BOOLEAN, op \in {"Fields", "Return", "Params"} => ~t,
         NEW q, q \in BOOLEAN, q => t
  PROVE  Fits(<<Template(op, lo, hi, t)>>, lo, hi, q)
<1> HIDE DEF Templates, FirstLocal
<1>1. PICK y : y = Template(op, lo, hi, t)
  OBVIOUS
<1>2. In(y, lo, hi, q) /\ \A a \in Nat : ~Reads(y, a)
  BY <1>1, TemplateIn
<1>3. Fits(<<y>>, lo, hi, q)
  BY <1>2, FitsOne
<1> QED
  BY <1>1, <1>3

\* Two items, of which one keeps below the other, in either order.
LEMMA TwoItems ==
  ASSUME NEW y, NEW z, NEW lo \in Nat, NEW m \in Nat, NEW hi \in Nat, lo <= m, m <= hi, NEW q,
         FewWords => Free(lo, hi), In(y, lo, m, q), In(z, m, hi, q),
         \A a \in Nat : ~Reads(y, a) /\ ~Reads(z, a)
  PROVE  Fits(<<y, z>>, lo, hi, q) /\ Fits(<<z, y>>, lo, hi, q)
<1>1. In(y, lo, hi, q) /\ In(z, lo, hi, q)
  BY Wider
<1>2. FewWords => Apart(y, z) /\ Apart(z, y)
  BY Divided
<1> HIDE DEF In, Apart, FewWords, Reads, Fits
<1> QED
  BY <1>1, <1>2, FitsTwo

\* Three.
LEMMA ThreeItems ==
  ASSUME NEW x, NEW y, NEW z, NEW q,
         NEW lo \in Nat, NEW m \in Nat, NEW k \in Nat, NEW hi \in Nat, lo <= m, m <= k, k <= hi,
         FewWords => Free(lo, hi), In(x, lo, m, q), In(y, m, k, q), In(z, k, hi, q),
         \A a \in Nat : ~Reads(x, a) /\ ~Reads(y, a) /\ ~Reads(z, a)
  PROVE  Fits(<<x, y, z>>, lo, hi, q) /\ Fits(<<y, x, z>>, lo, hi, q)
<1>1. In(x, lo, hi, q) /\ In(y, lo, hi, q) /\ In(z, lo, hi, q) /\ In(y, m, hi, q)
  BY Wider
<1>2. FewWords => Apart(x, y) /\ Apart(y, x)
  BY <1>1, Divided
<1>3. FewWords => Apart(x, z) /\ Apart(z, x)
  BY Divided
<1>4. FewWords => Apart(y, z) /\ Apart(z, y)
  <2>1. FewWords => Free(m, hi)
    BY DEF Free
  <2> QED
    BY <2>1, Divided
<1> HIDE DEF In, Apart, FewWords, Reads, Fits
<1>5. Fits(<<x, y, z>>, lo, hi, q)
  BY <1>1, <1>2, <1>3, <1>4, FitsThree
<1>6. Fits(<<y, x, z>>, lo, hi, q)
  BY <1>1, <1>2, <1>3, <1>4, FitsThree
<1> QED
  BY <1>5, <1>6

\* Two templates that share the room of one.
LEMMA TwoParts ==
  ASSUME NEW op \in Templates \ {"Args", "Tuple"}, NEW op2 \in Templates \ {"Args", "Tuple"},
         NEW lo \in Nat, NEW m \in Nat, NEW hi \in Nat,
         FirstLocal <= lo, lo <= m, m <= hi, hi <= MaxLocal, FewWords => Free(lo, hi),
         NEW t, t \in BOOLEAN, NEW q, q \in BOOLEAN, q => t,
         op \in {"Fields", "Return", "Params"} => ~t, op2 \in {"Fields", "Return", "Params"} => ~t
  PROVE  /\ Fits(<<Template(op, lo, m, t), Template(op2, m, hi, t)>>, lo, hi, q)
         /\ Fits(<<Template(op2, m, hi, t), Template(op, lo, m, t)>>, lo, hi, q)
<1> HIDE DEF Templates
<1>1. PICK y, z : y = Template(op, lo, m, t) /\ z = Template(op2, m, hi, t)
  OBVIOUS
<1>2. FirstLocal \in Nat /\ MaxLocal \in Nat
  BY Constants
<1> HIDE DEF FirstLocal
<1>3. In(y, lo, m, q) /\ \A a \in Nat : ~Reads(y, a)
  <2>1. m <= MaxLocal
    BY <1>2
  <2> QED
    BY <2>1, <1>1, TemplateIn
<1>4. In(z, m, hi, q) /\ \A a \in Nat : ~Reads(z, a)
  <2>1. FirstLocal <= m
    BY <1>2
  <2> QED
    BY <2>1, <1>1, TemplateIn
<1> HIDE DEF FewWords, In, Reads, Fits
<1>5. Fits(<<y, z>>, lo, hi, q) /\ Fits(<<z, y>>, lo, hi, q)
  BY <1>3, <1>4, TwoItems
<1> QED
  BY <1>1, <1>5

\* Three, in the order of their rooms.
LEMMA ThreeParts ==
  ASSUME NEW op \in Plain, NEW op2 \in Plain, NEW op3 \in Plain,
         NEW lo \in Nat, NEW m \in Nat, NEW k \in Nat, NEW hi \in Nat,
         FirstLocal <= lo, lo <= m, m <= k, k <= hi, hi <= MaxLocal, FewWords => Free(lo, hi),
         NEW q, q \in BOOLEAN
  PROVE  Fits(<<Template(op, lo, m, q), Template(op2, m, k, q), Template(op3, k, hi, q)>>, lo, hi, q)
<1>1. PICK x, y, z : /\ x = Template(op, lo, m, q) /\ y = Template(op2, m, k, q)
                     /\ z = Template(op3, k, hi, q)
  OBVIOUS
<1>2. FirstLocal \in Nat /\ MaxLocal \in Nat
  BY Constants
<1>3. /\ op \in Templates \ {"Args", "Tuple"} /\ op \notin {"Fields", "Return", "Params"}
      /\ op2 \in Templates \ {"Args", "Tuple"} /\ op2 \notin {"Fields", "Return", "Params"}
      /\ op3 \in Templates \ {"Args", "Tuple"} /\ op3 \notin {"Fields", "Return", "Params"}
  BY Kinds
<1> HIDE DEF FirstLocal, Templates
<1>4. m <= MaxLocal /\ k <= MaxLocal /\ FirstLocal <= m /\ FirstLocal <= k
  BY <1>2
<1>5. In(x, lo, m, q) /\ \A a \in Nat : ~Reads(x, a)
  BY <1>1, <1>3, <1>4, TemplateIn
<1>6. In(y, m, k, q) /\ \A a \in Nat : ~Reads(y, a)
  BY <1>1, <1>3, <1>4, TemplateIn
<1>7. In(z, k, hi, q) /\ \A a \in Nat : ~Reads(z, a)
  BY <1>1, <1>3, <1>4, TemplateIn
<1> HIDE DEF FewWords, In, Reads, Fits
<1>8. Fits(<<x, y, z>>, lo, hi, q)
  BY <1>5, <1>6, <1>7, ThreeItems
<1> QED
  BY <1>1, <1>8

\* A local between m and m + Word, for a store.
LEMMA StoreIn ==
  ASSUME NEW m \in Nat, FirstLocal <= m, NEW q
  PROVE  /\ In(StoreLocal(m), m, m + Word, q)
         /\ \A a \in Nat : ~Reads(StoreLocal(m), a)
<1>1. PICK y : y = Access("Store", m, m + Word, Local(m))
  OBVIOUS
<1>2. Word \in Nat
  BY Constants
<1> HIDE DEF FirstLocal
<1>3. \A a \in m .. m + Word - 1 : m <= a /\ a < m + Word
  BY <1>2
<1>4. In(y, m, m + Word, q)
  BY <1>1, <1>3, LocalIn
<1>5. y.op = "Store"
  BY <1>1 DEF Access
<1>6. \A a \in Nat : ~Reads(y, a)
  BY <1>5 DEF Reads
<1> QED
  BY <1>1, <1>4, <1>6 DEF StoreLocal

\* Expressions.
LEMMA ExprCodes ==
  ASSUME NEW x, Ready(x), x.op = "Expr", NEW new \in LowerExpr(x)
  PROVE  Fits(new, x.lo, x.hi, x.quiet)
<1>1. /\ x.lo \in Nat /\ x.hi \in Nat /\ FirstLocal \in Nat /\ FirstLocal <= x.lo /\ x.lo <= x.hi
      /\ x.hi <= MaxLocal /\ x.quiet \in BOOLEAN
  BY Bounds, Kinds DEF Plain
<1>2. FewWords => Free(x.lo, x.hi)
  BY DEF Ready
<1>3. CASE new \in Nothing(x)
  BY <1>3, FitsNone DEF Nothing
<1>4. ASSUME NEW slot \in locals, new = <<LoadLocal(slot)>>
      PROVE  Fits(new, x.lo, x.hi, x.quiet)
  <2>1. PICK y : y = Access("Load", slot, slot + Word, Local(slot))
    OBVIOUS
  <2>2. /\ slot \in Nat /\ FirstLocal <= slot
        /\ FewWords => \A a \in slot .. slot + Word - 1 : Given(a, Local(slot))
    BY DEF Ready
  <2> HIDE DEF FirstLocal, FewWords, Given
  <2>3. In(y, x.lo, x.hi, x.quiet)
    BY <2>1, <2>2, LocalIn
  <2>4. y.op = "Load" /\ y.at = slot /\ y.to = slot + Word /\ y.owner = Local(slot) /\ Word \in Nat
    BY <2>1, Constants DEF Access
  <2>5. \A a \in Nat : Reads(y, a) => FirstLocal <= a /\ a \in slot .. slot + Word - 1
    BY <1>1, <2>2, <2>4 DEF Reads
  <2>6. FewWords => \A a \in Nat : Reads(y, a) => FirstLocal <= a /\ Given(a, y.owner)
    BY <2>2, <2>4, <2>5
  <2> HIDE DEF In, Reads, Fits
  <2>7. Fits(<<y>>, x.lo, x.hi, x.quiet)
    BY <2>3, <2>6, FitsOne
  <2> QED
    BY <2>1, <2>7, <1>4 DEF LoadLocal
<1>5. ASSUME NEW m \in Between(x.lo, x.hi),
             \/ new = <<Expr(x.lo, m, x.quiet), Expr(m, x.hi, x.quiet)>>
             \/ new = <<Expr(m, x.hi, x.quiet), Expr(x.lo, m, x.quiet)>>
      PROVE  Fits(new, x.lo, x.hi, x.quiet)
  <2>1. m \in Nat /\ x.lo <= m /\ m <= x.hi
    BY <1>1, Bounds, Kinds DEF Plain
  <2>2. "Expr" \in Templates \ {"Args", "Tuple"} /\ "Expr" \notin {"Fields", "Return", "Params"}
    BY Kinds DEF Plain
  <2> HIDE DEF FirstLocal, Templates, FewWords, Free, Between, Fits
  <2>3. /\ Fits(<<Template("Expr", x.lo, m, x.quiet), Template("Expr", m, x.hi, x.quiet)>>, x.lo, x.hi, x.quiet)
        /\ Fits(<<Template("Expr", m, x.hi, x.quiet), Template("Expr", x.lo, m, x.quiet)>>, x.lo, x.hi, x.quiet)
    BY <1>1, <1>2, <2>1, <2>2, TwoParts
  <2> QED
    BY <1>5, <2>3, Zenon DEF Expr
<1>6. ASSUME NEW op \in {"Place", "Internal", "External"},
             new = <<Template(op, x.lo, x.hi, x.quiet)>>
      PROVE  Fits(new, x.lo, x.hi, x.quiet)
  <2>1. op \in Templates \ {"Args", "Tuple"} /\ op \notin {"Fields", "Return", "Params"}
    BY Kinds DEF Plain
  <2> HIDE DEF FirstLocal, Templates, Fits
  <2> QED
    BY <1>1, <1>6, <2>1, OnePart
<1>7. \/ new \in Nothing(x)
      \/ \E slot \in locals : new = <<LoadLocal(slot)>>
      \/ \E m \in Between(x.lo, x.hi) :
           \/ new = <<Expr(x.lo, m, x.quiet), Expr(m, x.hi, x.quiet)>>
           \/ new = <<Expr(m, x.hi, x.quiet), Expr(x.lo, m, x.quiet)>>
      \/ \E op \in {"Place", "Internal", "External"} : new = <<Template(op, x.lo, x.hi, x.quiet)>>
  <2> HIDE DEF Nothing, LoadLocal, Between, Expr, Template
  <2> QED
    BY Zenon DEF LowerExpr
<1> QED
  BY <1>3, <1>4, <1>5, <1>6, <1>7

\* Places.
LEMMA PlaceCodes ==
  ASSUME NEW x, Ready(x), x.op = "Place", NEW new \in LowerPlace(x)
  PROVE  Fits(new, x.lo, x.hi, x.quiet)
<1>1. /\ x.lo \in Nat /\ x.hi \in Nat /\ FirstLocal \in Nat /\ FirstLocal <= x.lo /\ x.lo <= x.hi
      /\ x.hi <= MaxLocal /\ x.quiet \in BOOLEAN
  BY Bounds, Kinds DEF Plain
<1>2. (FewWords => Free(x.lo, x.hi)) /\ replaced \in Nat
  BY DEF Ready
<1>3. CASE new \in Nothing(x)
  BY <1>3, FitsNone DEF Nothing
<1>4. ASSUME ~x.quiet, NEW m \in Between(x.lo, x.hi), NEW k \in {1, 2},
             new = <<Place(x.lo, m, x.quiet), Expr(m, x.hi, x.quiet)>> \o Scratch(k)
      PROVE  Fits(new, x.lo, x.hi, x.quiet)
  <2>1. m \in Nat /\ x.lo <= m /\ m <= x.hi /\ x.quiet = FALSE /\ k \in Nat /\ k <= 4
    BY <1>1, <1>4, Bounds, Kinds DEF Plain
  <2>2. /\ "Expr" \in Templates \ {"Args", "Tuple"} /\ "Expr" \notin {"Fields", "Return", "Params"}
        /\ "Place" \in Templates \ {"Args", "Tuple"} /\ "Place" \notin {"Fields", "Return", "Params"}
    BY Kinds DEF Plain
  <2> HIDE DEF FirstLocal, Templates, FewWords, Free, Between, Fits, Scratch
  <2>3. Fits(<<Template("Place", x.lo, m, FALSE), Template("Expr", m, x.hi, FALSE)>>, x.lo, x.hi, FALSE)
    BY <1>1, <1>2, <2>1, <2>2, TwoParts
  <2>4. Fits(<<Template("Place", x.lo, m, FALSE), Template("Expr", m, x.hi, FALSE)>> \o Scratch(k),
             x.lo, x.hi, FALSE)
    BY <1>2, <2>1, <2>3, Scratchy
  <2> QED
    BY <1>4, <2>1, <2>4 DEF Expr, Place
<1>5. CASE x.quiet
  <2>1. LowerPlace(x) = Nothing(x) \cup {}
    BY <1>5 DEF LowerPlace
  <2> QED
    BY <2>1, <1>3
<1>6. CASE ~x.quiet
  <2> DEFINE S == {<<Place(x.lo, m, x.quiet), Expr(m, x.hi, x.quiet)>> \o Scratch(k) :
                     m \in Between(x.lo, x.hi), k \in {1, 2}}
  <2> HIDE DEF Nothing, Scratch, Between, Expr, Place
  <2>1. LowerPlace(x) = Nothing(x) \cup S
    BY <1>6 DEF LowerPlace
  <2>2. new \in S => \E m \in Between(x.lo, x.hi), k \in {1, 2} :
                       new = <<Place(x.lo, m, x.quiet), Expr(m, x.hi, x.quiet)>> \o Scratch(k)
    OBVIOUS
  <2> HIDE DEF S
  <2>3. new \in Nothing(x) \/ new \in S
    BY <2>1
  <2> QED
    BY <2>2, <2>3, <1>3, <1>4, <1>6
<1> QED
  BY <1>1, <1>5, <1>6

\* Calls of functions of the contract.
LEMMA InternalCodes ==
  ASSUME NEW x, Ready(x), x.op = "Internal", NEW new \in LowerInternal(x)
  PROVE  Fits(new, x.lo, x.hi, x.quiet)
<1>1. /\ x.lo \in Nat /\ x.hi \in Nat /\ FirstLocal \in Nat /\ FirstLocal <= x.lo /\ x.lo <= x.hi
      /\ x.hi <= MaxLocal /\ x.quiet \in BOOLEAN
  BY Bounds, Kinds DEF Plain
<1>2. FewWords => Free(x.lo, x.hi)
  BY DEF Ready
<1>3. PICK m \in {p \in Between(x.lo, x.hi) \X Between(x.lo, x.hi) : p[1] <= p[2]} :
        new = <<Template("Bind", x.lo, m[1], x.quiet), Stmts(m[1], m[2], x.quiet), Expr(m[2], x.hi, x.quiet)>>
  <2> HIDE DEF Between, Expr, Stmts, Template
  <2> QED
    BY DEF LowerInternal
<1> DEFINE j == m[1]
           k == m[2]
<1>4. j \in Nat /\ k \in Nat /\ x.lo <= j /\ j <= k /\ k <= x.hi
  <2> HIDE DEF Between
  <2>1. m[1] \in Between(x.lo, x.hi) /\ m[2] \in Between(x.lo, x.hi) /\ m[1] <= m[2]
    OBVIOUS
  <2> QED
    BY <1>1, <2>1, Bounds, Kinds DEF Plain
<1> HIDE DEF j, k, FirstLocal, FewWords, Free, Fits, Between
<1>5. PICK lo, hi, q : lo = x.lo /\ hi = x.hi /\ q = x.quiet
  OBVIOUS
<1>6. Fits(<<Template("Bind", lo, j, q), Template("Stmts", j, k, q), Template("Expr", k, hi, q)>>, lo, hi, q)
  <2>1. /\ lo \in Nat /\ hi \in Nat /\ j \in Nat /\ k \in Nat /\ FirstLocal <= lo /\ lo <= j /\ j <= k
        /\ k <= hi /\ hi <= MaxLocal /\ q \in BOOLEAN
    BY <1>1, <1>4, <1>5
  <2>2. FewWords => Free(lo, hi)
    BY <1>2, <1>5
  <2>3. "Bind" \in Plain /\ "Stmts" \in Plain /\ "Expr" \in Plain
    BY DEF Plain
  <2> QED
    BY <2>1, <2>2, <2>3, ThreeParts
<1> QED
  BY <1>3, <1>5, <1>6 DEF Stmts, Expr, j, k

\* Their arguments.
LEMMA BindCodes ==
  ASSUME NEW x, Ready(x), x.op = "Bind", NEW new \in LowerBind(x)
  PROVE  Fits(new, x.lo, x.hi, x.quiet)
<1>1. /\ x.lo \in Nat /\ x.hi \in Nat /\ FirstLocal \in Nat /\ FirstLocal <= x.lo /\ x.lo <= x.hi
      /\ x.hi <= MaxLocal /\ MaxLocal \in Nat /\ x.quiet \in BOOLEAN /\ Word \in Nat
  BY Bounds, Kinds, Constants DEF Plain
<1>2. FewWords => Free(x.lo, x.hi)
  BY DEF Ready
<1>3. CASE new \in Nothing(x)
  BY <1>3, FitsNone DEF Nothing
<1>4. ASSUME NEW m \in Between(x.lo, x.hi), m + Word <= x.hi,
             new = <<Expr(x.lo, m, x.quiet), StoreLocal(m), Template("Bind", m + Word, x.hi, x.quiet)>>
      PROVE  Fits(new, x.lo, x.hi, x.quiet)
  <2>1. PICK y, z : y = Template("Expr", x.lo, m, x.quiet) /\ z = Template("Bind", m + Word, x.hi, x.quiet)
    OBVIOUS
  <2>2. /\ m \in Nat /\ x.lo <= m /\ m <= m + Word /\ m + Word <= x.hi /\ m + Word \in Nat
        /\ FirstLocal <= m /\ FirstLocal <= m + Word /\ m <= MaxLocal
    <3> HIDE DEF FirstLocal, Between
    <3>1. m \in Nat /\ x.lo <= m
      BY Bounds, Kinds DEF Plain
    <3> QED
      BY <1>1, <1>4, <3>1
  <2>3. /\ "Expr" \in Templates \ {"Args", "Tuple"} /\ "Expr" \notin {"Fields", "Return", "Params"}
        /\ "Bind" \in Templates \ {"Args", "Tuple"} /\ "Bind" \notin {"Fields", "Return", "Params"}
    BY Kinds DEF Plain
  <2> HIDE DEF FirstLocal, Templates, FewWords, Free, Between, Fits, In, Reads, StoreLocal
  <2>4. In(y, x.lo, m, x.quiet) /\ \A a \in Nat : ~Reads(y, a)
    BY <1>1, <2>1, <2>2, <2>3, TemplateIn
  <2>5. In(z, m + Word, x.hi, x.quiet) /\ \A a \in Nat : ~Reads(z, a)
    BY <1>1, <2>1, <2>2, <2>3, TemplateIn
  <2>6. In(StoreLocal(m), m, m + Word, x.quiet) /\ \A a \in Nat : ~Reads(StoreLocal(m), a)
    BY <2>2, StoreIn
  <2>7. Fits(<<y, StoreLocal(m), z>>, x.lo, x.hi, x.quiet)
    BY <1>1, <1>2, <2>2, <2>4, <2>5, <2>6, ThreeItems
  <2> QED
    BY <1>4, <2>1, <2>7 DEF Expr
<1>5. \/ new \in Nothing(x)
      \/ \E m \in {p \in Between(x.lo, x.hi) : p + Word <= x.hi} :
           new = <<Expr(x.lo, m, x.quiet), StoreLocal(m), Template("Bind", m + Word, x.hi, x.quiet)>>
  <2> HIDE DEF Nothing, Between, Expr, StoreLocal, Template
  <2> QED
    BY DEF LowerBind
<1> HIDE DEF Between
<1> QED
  BY <1>3, <1>4, <1>5

\* Blocks.
LEMMA StmtsCodes ==
  ASSUME NEW x, Ready(x), x.op = "Stmts", NEW new \in LowerStmts(x)
  PROVE  Fits(new, x.lo, x.hi, x.quiet)
<1>1. /\ x.lo \in Nat /\ x.hi \in Nat /\ FirstLocal \in Nat /\ FirstLocal <= x.lo /\ x.lo <= x.hi
      /\ x.hi <= MaxLocal /\ x.quiet \in BOOLEAN
  BY Bounds, Kinds DEF Plain
<1>2. FewWords => Free(x.lo, x.hi)
  BY DEF Ready
<1>3. CASE new \in Nothing(x)
  BY <1>3, FitsNone DEF Nothing
<1>4. ASSUME NEW m \in Between(x.lo, x.hi),
             new = <<Template("Stmt", x.lo, m, x.quiet), Stmts(m, x.hi, x.quiet)>>
      PROVE  Fits(new, x.lo, x.hi, x.quiet)
  <2>1. m \in Nat /\ x.lo <= m /\ m <= x.hi
    BY <1>1, Bounds, Kinds DEF Plain
  <2>2. /\ "Stmt" \in Templates \ {"Args", "Tuple"} /\ "Stmt" \notin {"Fields", "Return", "Params"}
        /\ "Stmts" \in Templates \ {"Args", "Tuple"} /\ "Stmts" \notin {"Fields", "Return", "Params"}
    BY Kinds DEF Plain
  <2> HIDE DEF FirstLocal, Templates, FewWords, Free, Between, Fits
  <2>3. PICK lo, hi, q : lo = x.lo /\ hi = x.hi /\ q = x.quiet
    OBVIOUS
  <2>4. Fits(<<Template("Stmt", lo, m, q), Template("Stmts", m, hi, q)>>, lo, hi, q)
    <3>1. PICK t, one, two :
            /\ t = q
            /\ one = "Stmt" /\ one \in Templates \ {"Args", "Tuple"}
            /\ one \notin {"Fields", "Return", "Params"}
            /\ two = "Stmts" /\ two \in Templates \ {"Args", "Tuple"}
            /\ two \notin {"Fields", "Return", "Params"}
      BY <2>2
    <3>2. /\ lo \in Nat /\ hi \in Nat /\ m \in Nat /\ FirstLocal <= lo /\ lo <= m /\ m <= hi
          /\ hi <= MaxLocal /\ q \in BOOLEAN /\ t \in BOOLEAN /\ (FewWords => Free(lo, hi))
      BY <1>1, <1>2, <2>1, <2>3, <3>1
    <3>3. /\ q => t
          /\ one \in {"Fields", "Return", "Params"} => ~t
          /\ two \in {"Fields", "Return", "Params"} => ~t
          /\ one \in Templates \ {"Args", "Tuple"} /\ two \in Templates \ {"Args", "Tuple"}
      BY <3>1
    <3>4. Fits(<<Template(one, lo, m, t), Template(two, m, hi, t)>>, lo, hi, q)
      BY <3>2, <3>3, TwoParts
    <3> QED
      BY <3>1, <3>4
  <2> QED
    BY <1>4, <2>3, <2>4 DEF Stmts
<1>5. \/ new \in Nothing(x)
      \/ \E m \in Between(x.lo, x.hi) :
           new = <<Template("Stmt", x.lo, m, x.quiet), Stmts(m, x.hi, x.quiet)>>
  <2> HIDE DEF Nothing, Between, Stmts, Template
  <2> QED
    BY DEF LowerStmts
<1> QED
  BY <1>3, <1>4, <1>5

\* The fields of an event.
LEMMA FieldsCodes ==
  ASSUME NEW x, Ready(x), x.op = "Fields", NEW new \in LowerFields(x)
  PROVE  Fits(new, x.lo, x.hi, x.quiet)
<1>1. /\ x.lo \in Nat /\ x.hi \in Nat /\ FirstLocal \in Nat /\ FirstLocal <= x.lo /\ x.lo <= x.hi
      /\ x.hi <= MaxLocal /\ x.quiet \in BOOLEAN
  BY Bounds, Kinds DEF Plain
<1>2. (FewWords => Free(x.lo, x.hi)) /\ ~x.quiet
  BY DEF Ready, Well
<1>3. CASE new \in Nothing(x)
  BY <1>3, FitsNone DEF Nothing
<1>4. ASSUME NEW m \in Between(x.lo, x.hi),
             new = <<Expr(x.lo, m, x.quiet), Template("Fields", m, x.hi, x.quiet)>>
      PROVE  Fits(new, x.lo, x.hi, x.quiet)
  <2>1. m \in Nat /\ x.lo <= m /\ m <= x.hi
    BY <1>1, Bounds, Kinds DEF Plain
  <2>2. /\ "Expr" \in Templates \ {"Args", "Tuple"} /\ "Expr" \notin {"Fields", "Return", "Params"}
        /\ "Fields" \in Templates \ {"Args", "Tuple"}
    BY Kinds DEF Plain
  <2> HIDE DEF FirstLocal, Templates, FewWords, Free, Between, Fits
  <2>3. Fits(<<Template("Expr", x.lo, m, x.quiet), Template("Fields", m, x.hi, x.quiet)>>, x.lo, x.hi, x.quiet)
    <3>1. PICK lo, hi, q, t, one, two :
            /\ lo = x.lo /\ hi = x.hi /\ q = x.quiet /\ t = x.quiet
            /\ one = "Expr" /\ one \in Templates \ {"Args", "Tuple"}
            /\ two = "Fields" /\ two \in Templates \ {"Args", "Tuple"}
      BY <2>2
    <3>2. /\ lo \in Nat /\ hi \in Nat /\ m \in Nat /\ FirstLocal <= lo /\ lo <= m /\ m <= hi
          /\ hi <= MaxLocal /\ q \in BOOLEAN /\ t \in BOOLEAN /\ ~t /\ (FewWords => Free(lo, hi))
      BY <1>1, <1>2, <2>1, <3>1
    <3>3. /\ q => t
          /\ one \in {"Fields", "Return", "Params"} => ~t
          /\ two \in {"Fields", "Return", "Params"} => ~t
          /\ one \in Templates \ {"Args", "Tuple"} /\ two \in Templates \ {"Args", "Tuple"}
      BY <3>1, <3>2
    <3>4. Fits(<<Template(one, lo, m, t), Template(two, m, hi, t)>>, lo, hi, q)
      BY <3>2, <3>3, TwoParts
    <3> QED
      BY <3>1, <3>4
  <2> QED
    BY <1>4, <2>3 DEF Expr
<1>5. \/ new \in Nothing(x)
      \/ \E m \in Between(x.lo, x.hi) :
           new = <<Expr(x.lo, m, x.quiet), Template("Fields", m, x.hi, x.quiet)>>
  <2> HIDE DEF Nothing, Between, Expr, Template
  <2> QED
    BY DEF LowerFields
<1> QED
  BY <1>3, <1>4, <1>5

\* Statements that use no scratch of their own.
LEMMA PlainStmtCodes ==
  ASSUME NEW x, Ready(x), x.op = "Stmt", NEW new,
         \/ \E m \in Between(x.lo, x.hi) : m + Word = x.hi /\ new = <<Expr(x.lo, m, x.quiet), StoreLocal(m)>>
         \/ \E slot \in locals : new = <<Expr(x.lo, x.hi, x.quiet), StoreLocal(slot)>>
         \/ new = <<Expr(x.lo, x.hi, x.quiet)>>
         \/ \E m \in Between(x.lo, x.hi), k \in Between(x.lo, x.hi) :
              /\ m <= k
              /\ new = <<Expr(x.lo, m, x.quiet), Stmts(m, k, x.quiet), Stmts(k, x.hi, x.quiet)>>
  PROVE  Fits(new, x.lo, x.hi, x.quiet)
<1>1. PICK lo, hi, q : lo = x.lo /\ hi = x.hi /\ q = x.quiet
  OBVIOUS
<1>2. /\ lo \in Nat /\ hi \in Nat /\ FirstLocal \in Nat /\ FirstLocal <= lo /\ lo <= hi
      /\ hi <= MaxLocal /\ q \in BOOLEAN /\ Word \in Nat /\ MaxLocal \in Nat
  BY <1>1, Bounds, Kinds, Constants DEF Plain
<1>3. (FewWords => Free(lo, hi)) /\ \A m \in Between(lo, hi) : m \in Nat /\ lo <= m /\ m <= hi
  <2>1. FewWords => Free(lo, hi)
    BY <1>1 DEF Ready
  <2>2. \A m \in Between(lo, hi) : m \in Nat /\ lo <= m /\ m <= hi
    BY <1>1, Bounds, Kinds DEF Plain
  <2> QED
    BY <2>1, <2>2
<1>4. "Expr" \in Plain /\ "Stmts" \in Plain /\ "Expr" \in Templates \ {"Args", "Tuple"}
      /\ "Expr" \notin {"Fields", "Return", "Params"}
  BY Kinds DEF Plain
<1> HIDE DEF FirstLocal, Templates, FewWords, Free, Between, Fits, In, Reads, StoreLocal, Plain
<1>5. ASSUME NEW m \in Between(lo, hi), m + Word = hi, new = <<Expr(lo, m, q), StoreLocal(m)>>
      PROVE  Fits(new, lo, hi, q)
  <2>1. m \in Nat /\ lo <= m /\ m <= hi /\ FirstLocal <= m /\ m <= MaxLocal
    BY <1>2, <1>3
  <2>2. PICK y : y = Template("Expr", lo, m, q)
    OBVIOUS
  <2>3. In(y, lo, m, q) /\ \A a \in Nat : ~Reads(y, a)
    BY <1>2, <1>4, <2>1, <2>2, TemplateIn
  <2>4. In(StoreLocal(m), m, hi, q) /\ \A a \in Nat : ~Reads(StoreLocal(m), a)
    BY <1>5, <2>1, StoreIn
  <2>5. Fits(<<y, StoreLocal(m)>>, lo, hi, q)
    BY <1>2, <1>3, <2>1, <2>3, <2>4, TwoItems
  <2> QED
    BY <1>5, <2>2, <2>5 DEF Expr
<1>6. ASSUME NEW slot \in locals, new = <<Expr(lo, hi, q), StoreLocal(slot)>>
      PROVE  Fits(new, lo, hi, q)
  <2>1. /\ slot \in Nat /\ FirstLocal <= slot
        /\ FewWords => \A a \in slot .. slot + Word - 1 : Given(a, Local(slot))
    BY DEF Ready
  <2>2. PICK y, z : y = Template("Expr", lo, hi, q) /\ z = Access("Store", slot, slot + Word, Local(slot))
    OBVIOUS
  <2>3. In(y, lo, hi, q) /\ \A a \in Nat : ~Reads(y, a)
    BY <1>2, <1>4, <2>2, TemplateIn
  <2>4. In(z, hi, hi, q)
    BY <2>1, <2>2, LocalIn
  <2>5. \A a \in Nat : ~Reads(z, a)
    <3>1. z.op = "Store"
      BY <2>2 DEF Access
    <3> QED
      BY <3>1 DEF Reads
  <2>6. Fits(<<y, z>>, lo, hi, q)
    <3>1. PICK m : m = hi
      OBVIOUS
    <3>2. m \in Nat /\ lo <= m /\ m <= hi /\ In(y, lo, m, q) /\ In(z, m, hi, q)
      BY <1>2, <2>3, <2>4, <3>1
    <3> QED
      BY <1>2, <1>3, <2>3, <2>5, <3>2, TwoItems
  <2> QED
    BY <1>6, <2>2, <2>6 DEF Expr, StoreLocal
<1>7. ASSUME new = <<Expr(lo, hi, q)>>
      PROVE  Fits(new, lo, hi, q)
  BY <1>2, <1>4, <1>7, OnePart DEF Expr
<1>8. ASSUME NEW m \in Between(lo, hi), NEW k \in Between(lo, hi), m <= k,
             new = <<Expr(lo, m, q), Stmts(m, k, q), Stmts(k, hi, q)>>
      PROVE  Fits(new, lo, hi, q)
  <2>1. m \in Nat /\ k \in Nat /\ lo <= m /\ k <= hi
    BY <1>3
  <2>2. Fits(<<Template("Expr", lo, m, q), Template("Stmts", m, k, q), Template("Stmts", k, hi, q)>>, lo, hi, q)
    BY <1>2, <1>3, <1>4, <1>8, <2>1, ThreeParts
  <2> QED
    BY <1>8, <2>2 DEF Expr, Stmts
<1>9. \/ \E m \in Between(lo, hi) : m + Word = hi /\ new = <<Expr(lo, m, q), StoreLocal(m)>>
      \/ \E slot \in locals : new = <<Expr(lo, hi, q), StoreLocal(slot)>>
      \/ new = <<Expr(lo, hi, q)>>
      \/ \E m \in Between(lo, hi), k \in Between(lo, hi) :
           m <= k /\ new = <<Expr(lo, m, q), Stmts(m, k, q), Stmts(k, hi, q)>>
  <2> HIDE DEF Expr, Stmts
  <2> QED
    BY <1>1, Zenon
<1>10. Fits(new, lo, hi, q)
  BY <1>5, <1>6, <1>7, <1>8, <1>9, Zenon
<1> QED
  BY <1>1, <1>10

\* Statements that do: an insert, a set or a push, an event.
LEMMA ScratchStmtCodes ==
  ASSUME NEW x, Ready(x), x.op = "Stmt", ~x.quiet, NEW new,
         \/ \E m \in Between(x.lo, x.hi), k \in Between(x.lo, x.hi) :
              /\ m <= k
              /\ new = <<Expr(m, k, x.quiet), Place(x.lo, m, x.quiet), Expr(k, x.hi, x.quiet)>> \o Scratch(2)
         \/ \E m \in Between(x.lo, x.hi) :
              new = <<Expr(x.lo, m, x.quiet), Expr(m, x.hi, x.quiet)>> \o Scratch(1)
         \/ \E k \in 0 .. MaxWords : new = <<Template("Fields", x.lo, x.hi, x.quiet)>> \o Scratch(k)
  PROVE  Fits(new, x.lo, x.hi, x.quiet)
<1>1. PICK lo, hi, q : lo = x.lo /\ hi = x.hi /\ q = x.quiet
  OBVIOUS
<1>2. /\ lo \in Nat /\ hi \in Nat /\ FirstLocal \in Nat /\ FirstLocal <= lo /\ lo <= hi
      /\ hi <= MaxLocal /\ q = FALSE /\ MaxLocal \in Nat /\ MaxWords \in Nat
  BY <1>1, Bounds, Kinds, Constants DEF Plain
<1>3. /\ FewWords => Free(lo, hi)
      /\ \A m \in Between(lo, hi) : m \in Nat /\ lo <= m /\ m <= hi
      /\ replaced \in Nat
  <2>1. (FewWords => Free(lo, hi)) /\ replaced \in Nat
    BY <1>1 DEF Ready
  <2>2. \A m \in Between(lo, hi) : m \in Nat /\ lo <= m /\ m <= hi
    BY <1>1, Bounds, Kinds DEF Plain
  <2> QED
    BY <2>1, <2>2
<1>4. /\ "Expr" \in Templates \ {"Args", "Tuple"} /\ "Expr" \notin {"Fields", "Return", "Params"}
      /\ "Place" \in Templates \ {"Args", "Tuple"} /\ "Place" \notin {"Fields", "Return", "Params"}
      /\ "Fields" \in Templates \ {"Args", "Tuple"}
  BY Kinds DEF Plain
<1> HIDE DEF FirstLocal, Templates, FewWords, Free, Between, Fits, In, Reads, Scratch, Plain
<1>5. ASSUME NEW m \in Between(lo, hi), NEW k \in Between(lo, hi), m <= k,
             new = <<Expr(m, k, FALSE), Place(lo, m, FALSE), Expr(k, hi, FALSE)>> \o Scratch(2)
      PROVE  Fits(new, lo, hi, FALSE)
  <2>1. /\ m \in Nat /\ k \in Nat /\ lo <= m /\ k <= hi /\ m <= MaxLocal /\ k <= MaxLocal
        /\ FirstLocal <= m /\ FirstLocal <= k
    BY <1>2, <1>3, <1>5
  <2>2. PICK y, z, w : /\ y = Template("Place", lo, m, FALSE) /\ z = Template("Expr", m, k, FALSE)
                       /\ w = Template("Expr", k, hi, FALSE)
    OBVIOUS
  <2>3. In(y, lo, m, FALSE) /\ \A a \in Nat : ~Reads(y, a)
    BY <1>2, <1>4, <2>1, <2>2, TemplateIn
  <2>4. In(z, m, k, FALSE) /\ \A a \in Nat : ~Reads(z, a)
    BY <1>2, <1>4, <1>5, <2>1, <2>2, TemplateIn
  <2>5. In(w, k, hi, FALSE) /\ \A a \in Nat : ~Reads(w, a)
    BY <1>2, <1>4, <2>1, <2>2, TemplateIn
  <2>6. Fits(<<z, y, w>>, lo, hi, FALSE)
    BY <1>2, <1>3, <1>5, <2>1, <2>3, <2>4, <2>5, ThreeItems
  <2>7. Fits(<<z, y, w>> \o Scratch(2), lo, hi, FALSE)
    <3>1. PICK n \in Nat : n = 2 /\ n <= 4
      OBVIOUS
    <3>2. Fits(<<z, y, w>> \o Scratch(n), lo, hi, FALSE)
      BY <1>3, <2>6, <3>1, Scratchy
    <3> QED
      BY <3>1, <3>2
  <2> QED
    BY <1>5, <2>2, <2>7 DEF Expr, Place
<1>6. ASSUME NEW m \in Between(lo, hi), new = <<Expr(lo, m, FALSE), Expr(m, hi, FALSE)>> \o Scratch(1)
      PROVE  Fits(new, lo, hi, FALSE)
  <2>1. m \in Nat /\ lo <= m /\ m <= hi
    BY <1>3
  <2>2. Fits(<<Template("Expr", lo, m, FALSE), Template("Expr", m, hi, FALSE)>>, lo, hi, FALSE)
    BY <1>2, <1>3, <1>4, <2>1, TwoParts
  <2>3. Fits(<<Template("Expr", lo, m, FALSE), Template("Expr", m, hi, FALSE)>> \o Scratch(1), lo, hi, FALSE)
    <3>1. PICK n \in Nat : n = 1 /\ n <= 4
      OBVIOUS
    <3>2. Fits(<<Template("Expr", lo, m, FALSE), Template("Expr", m, hi, FALSE)>> \o Scratch(n), lo, hi, FALSE)
      BY <1>3, <2>2, <3>1, Scratchy
    <3> QED
      BY <3>1, <3>2
  <2> QED
    BY <1>6, <2>3 DEF Expr
<1>7. ASSUME NEW k \in 0 .. MaxWords, new = <<Template("Fields", lo, hi, FALSE)>> \o Scratch(k)
      PROVE  Fits(new, lo, hi, FALSE)
  <2>1. Fits(<<Template("Fields", lo, hi, FALSE)>>, lo, hi, FALSE)
    BY <1>2, <1>4, OnePart
  <2>2. k \in Nat /\ k <= MaxWords
    BY <1>2
  <2> QED
    BY <1>3, <1>7, <2>1, <2>2, Scratchy
<1>8. \/ \E m \in Between(lo, hi), k \in Between(lo, hi) :
           m <= k /\ new = <<Expr(m, k, q), Place(lo, m, q), Expr(k, hi, q)>> \o Scratch(2)
      \/ \E m \in Between(lo, hi) : new = <<Expr(lo, m, q), Expr(m, hi, q)>> \o Scratch(1)
      \/ \E k \in 0 .. MaxWords : new = <<Template("Fields", lo, hi, q)>> \o Scratch(k)
  <2> HIDE DEF Expr, Place, Template
  <2> QED
    BY <1>1, Zenon
<1>9. Fits(new, lo, hi, FALSE)
  BY <1>2, <1>5, <1>6, <1>7, <1>8, Zenon
<1> QED
  BY <1>1, <1>2, <1>9

\* So do all.
LEMMA StmtCodes ==
  ASSUME NEW x, Ready(x), x.op = "Stmt", NEW new, new \in LowerStmt(x)
  PROVE  Fits(new, x.lo, x.hi, x.quiet)
<1> DEFINE B == Between(x.lo, x.hi)
           P == {p \in Between(x.lo, x.hi) \X Between(x.lo, x.hi) : p[1] <= p[2]}
           Let == {<<Expr(x.lo, m, x.quiet), StoreLocal(m)>> : m \in {p \in Between(x.lo, x.hi) : p + Word = x.hi}}
           Assign == {<<Expr(x.lo, x.hi, x.quiet), StoreLocal(slot)>> : slot \in locals}
           Blocks == {<<Expr(x.lo, m[1], x.quiet), Stmts(m[1], m[2], x.quiet), Stmts(m[2], x.hi, x.quiet)>> :
                        m \in P}
           Insert == {<<Expr(m[1], m[2], x.quiet), Place(x.lo, m[1], x.quiet), Expr(m[2], x.hi, x.quiet)>>
                        \o Scratch(2) : m \in P}
           Set == {<<Expr(x.lo, m, x.quiet), Expr(m, x.hi, x.quiet)>> \o Scratch(1) : m \in B}
           Emit == {<<Template("Fields", x.lo, x.hi, x.quiet)>> \o Scratch(k) : k \in 0 .. MaxWords}
<1> HIDE DEF Between, Expr, Stmts, Place, Template, StoreLocal, Scratch
<1>1. \A m \in P : m[1] \in B /\ m[2] \in B /\ m[1] <= m[2]
  OBVIOUS
<1>2. new \in Let => \E m \in B : m + Word = x.hi /\ new = <<Expr(x.lo, m, x.quiet), StoreLocal(m)>>
  OBVIOUS
<1>3. new \in Assign => \E slot \in locals : new = <<Expr(x.lo, x.hi, x.quiet), StoreLocal(slot)>>
  OBVIOUS
<1>4. new \in Blocks =>
        \E m \in B, k \in B :
          m <= k /\ new = <<Expr(x.lo, m, x.quiet), Stmts(m, k, x.quiet), Stmts(k, x.hi, x.quiet)>>
  <2>1. new \in Blocks => \E m \in P :
          new = <<Expr(x.lo, m[1], x.quiet), Stmts(m[1], m[2], x.quiet), Stmts(m[2], x.hi, x.quiet)>>
    <3> HIDE DEF P
    <3> QED
      OBVIOUS
  <2> HIDE DEF P, B, Blocks
  <2> QED
    BY <1>1, <2>1, Zenon
<1>5. new \in Insert =>
        \E m \in B, k \in B :
          /\ m <= k
          /\ new = <<Expr(m, k, x.quiet), Place(x.lo, m, x.quiet), Expr(k, x.hi, x.quiet)>> \o Scratch(2)
  <2>1. new \in Insert => \E m \in P :
          new = <<Expr(m[1], m[2], x.quiet), Place(x.lo, m[1], x.quiet), Expr(m[2], x.hi, x.quiet)>> \o Scratch(2)
    <3> HIDE DEF P
    <3> QED
      OBVIOUS
  <2> HIDE DEF P, B, Insert
  <2> QED
    BY <1>1, <2>1, Zenon
<1>6. new \in Set => \E m \in B : new = <<Expr(x.lo, m, x.quiet), Expr(m, x.hi, x.quiet)>> \o Scratch(1)
  OBVIOUS
<1>7. new \in Emit => \E k \in 0 .. MaxWords : new = <<Template("Fields", x.lo, x.hi, x.quiet)>> \o Scratch(k)
  OBVIOUS
<1>8. x.quiet \in BOOLEAN
  BY Bounds, Kinds DEF Plain
<1>9. CASE x.quiet
  <2>1. LowerStmt(x) = Let \cup Assign \cup {<<Expr(x.lo, x.hi, x.quiet)>>} \cup Blocks \cup {}
    BY <1>9 DEF LowerStmt
  <2> HIDE DEF Let, Assign, Blocks
  <2>2. new \in Let \/ new \in Assign \/ new = <<Expr(x.lo, x.hi, x.quiet)>> \/ new \in Blocks
    BY <2>1
  <2> HIDE DEF B, Fits, Ready
  <2> QED
    BY <2>2, <1>2, <1>3, <1>4, PlainStmtCodes, Zenon DEF B
<1>10. CASE ~x.quiet
  <2>1. LowerStmt(x) = Let \cup Assign \cup {<<Expr(x.lo, x.hi, x.quiet)>>} \cup Blocks
                         \cup (Insert \cup Set \cup Emit)
    BY <1>10 DEF LowerStmt
  <2> HIDE DEF Let, Assign, Blocks, Insert, Set, Emit
  <2>2. \/ new \in Let \/ new \in Assign \/ new = <<Expr(x.lo, x.hi, x.quiet)>> \/ new \in Blocks
        \/ new \in Insert \/ new \in Set \/ new \in Emit
    BY <2>1
  <2> HIDE DEF B, Fits, Ready
  <2>3. CASE new \in Let \/ new \in Assign \/ new = <<Expr(x.lo, x.hi, x.quiet)>> \/ new \in Blocks
    BY <2>3, <1>2, <1>3, <1>4, PlainStmtCodes, Zenon DEF B
  <2>4. CASE new \in Insert \/ new \in Set \/ new \in Emit
    BY <2>4, <1>5, <1>6, <1>7, <1>10, ScratchStmtCodes, Zenon DEF B
  <2> QED
    BY <2>2, <2>3, <2>4
<1> QED
  BY <1>8, <1>9, <1>10

\* A template that has a reach.
IsPart(y, op, lo, hi, t, at, to, owner) ==
  /\ op \in Templates /\ lo \in Nat /\ hi \in Nat /\ FirstLocal <= lo /\ lo <= hi /\ hi <= MaxLocal
  /\ t \in BOOLEAN /\ at \in Nat /\ to \in Nat /\ owner \in Owners
  /\ y = Part(Template(op, lo, hi, t), at, to, owner)

\* Its fields.
LEMMA Parted ==
  ASSUME NEW y, NEW op, NEW lo, NEW hi, NEW t, NEW at, NEW to, NEW owner,
         IsPart(y, op, lo, hi, t, at, to, owner)
  PROVE  /\ y.op = op /\ y.lo = lo /\ y.hi = hi /\ y.at = at /\ y.to = to /\ y.owner = owner
         /\ y \in Typed
<1>1. y = [op |-> op, lo |-> lo, hi |-> hi, at |-> at, to |-> to, owner |-> owner, quiet |-> t]
  BY DEF Part, Template, IsPart
<1>2. /\ y.op = op /\ y.lo = lo /\ y.hi = hi /\ y.at = at /\ y.to = to /\ y.owner = owner
  BY <1>1
<1> HIDE DEF Owners, Templates, FirstLocal
<1>3. y \in Items
  BY <1>1 DEF Items, IsPart
<1>4. y \in Typed
  BY <1>2, <1>3 DEF Typed, IsPart
<1> QED
  BY <1>2, <1>4

\* Results.
LEMMA ReturnCodes ==
  ASSUME NEW x, Ready(x), x.op = "Return", NEW new, new \in LowerReturn(x)
  PROVE  Fits(new, x.lo, x.hi, x.quiet)
<1>1. PICK lo, hi, q : lo = x.lo /\ hi = x.hi /\ q = x.quiet
  OBVIOUS
<1>2. /\ lo \in Nat /\ hi \in Nat /\ FirstLocal \in Nat /\ FirstLocal <= lo /\ lo <= hi
      /\ hi <= MaxLocal /\ MaxLocal \in Nat /\ MaxWords \in Nat
  BY <1>1, Bounds, Kinds, Constants DEF Plain
<1>3. q = FALSE /\ replaced \in Nat
  <2>1. q \in BOOLEAN
    BY <1>1, Bounds, Kinds
  <2>2. ~q /\ replaced \in Nat
    BY <1>1 DEF Ready, Well
  <2> QED
    BY <2>1, <2>2
<1>4. ASSUME NEW k \in {1, 3}, new = <<Expr(lo, hi, q)>> \o Scratch(k)
      PROVE  Fits(new, lo, hi, FALSE)
  <2>1. "Expr" \in Templates \ {"Args", "Tuple"} /\ "Expr" \notin {"Fields", "Return", "Params"}
    BY Kinds DEF Plain
  <2>2. k \in Nat /\ k <= 4
    OBVIOUS
  <2> HIDE DEF Templates, FirstLocal, Fits, Scratch
  <2>3. Fits(<<Template("Expr", lo, hi, FALSE)>>, lo, hi, FALSE)
    BY <1>2, <2>1, OnePart
  <2>4. Fits(<<Template("Expr", lo, hi, FALSE)>> \o Scratch(k), lo, hi, FALSE)
    BY <1>3, <2>2, <2>3, Scratchy
  <2> QED
    BY <1>3, <1>4, <2>4 DEF Expr
<1>5. ASSUME new = <<Part(Template("Tuple", lo, hi, q), 0, 0, <<"scratch", New>>)>>
      PROVE  Fits(new, lo, hi, FALSE)
  <2>1. PICK owner : owner = <<"scratch", New>>
    OBVIOUS
  <2>2. owner \in Owners /\ owner[1] = "scratch"
    BY <1>3, <2>1 DEF Owners, New
  <2>3. PICK y : y = Part(Template("Tuple", lo, hi, FALSE), 0, 0, owner)
    OBVIOUS
  <2> HIDE DEF FirstLocal, Fits
  <2>4. /\ y.op = "Tuple" /\ y.lo = lo /\ y.hi = hi /\ y.at = 0 /\ y.to = 0
        /\ y.owner = owner /\ ~y.quiet /\ y \in Typed
    <3>1. IsPart(y, "Tuple", lo, hi, FALSE, 0, 0, owner)
      BY <1>2, <2>2, <2>3, Kinds DEF IsPart
    <3> HIDE DEF IsPart, Typed
    <3>2. y.op = "Tuple" /\ y.lo = lo /\ y.hi = hi /\ y.at = 0 /\ y.to = 0 /\ y.owner = owner /\ y \in Typed
      BY <3>1, Parted
    <3>3. ~y.quiet
      BY <2>3 DEF Part, Template
    <3> QED
      BY <3>2, <3>3
  <2>5. 0 <= MaxWords * Word
    BY <1>2, Multiples
  <2>6. Well(y)
    BY <2>2, <2>4, <2>5, Kinds DEF Well
  <2>7. \A a \in Nat : ~InReach(y, a) /\ ~Reads(y, a)
    BY <2>4 DEF InReach, Reads
  <2>8. In(y, lo, hi, FALSE)
    BY <2>4, <2>6, <2>7 DEF In, InRoom
  <2>9. Fits(<<y>>, lo, hi, FALSE)
    BY <2>7, <2>8, FitsOne
  <2> QED
    BY <1>3, <1>5, <2>1, <2>3, <2>9
<1>6. \/ \E k \in {1, 3} : new = <<Expr(lo, hi, q)>> \o Scratch(k)
      \/ new = <<Part(Template("Tuple", lo, hi, q), 0, 0, <<"scratch", New>>)>>
  <2> HIDE DEF Expr, Scratch, Part, Template, New
  <2> QED
    BY <1>1 DEF LowerReturn
<1>7. Fits(new, lo, hi, FALSE)
  BY <1>4, <1>5, <1>6
<1> QED
  BY <1>1, <1>3, <1>7

\* Parameters.
LEMMA ParamsCodes ==
  ASSUME NEW x, Ready(x), x.op = "Params", NEW new, new \in LowerParams(x)
  PROVE  Fits(new, x.lo, x.hi, x.quiet)
<1>1. PICK lo, hi, q : lo = x.lo /\ hi = x.hi /\ q = x.quiet
  OBVIOUS
<1>2. /\ lo \in Nat /\ hi \in Nat /\ FirstLocal \in Nat /\ FirstLocal <= lo /\ lo <= hi
      /\ hi <= MaxLocal /\ MaxLocal \in Nat /\ Word \in Nat
  BY <1>1, Bounds, Kinds, Constants
<1>3. q = FALSE /\ replaced \in Nat /\ (FewWords => Free(lo, hi))
  <2>1. q \in BOOLEAN
    BY <1>1, Bounds, Kinds
  <2>2. ~q /\ replaced \in Nat
    BY <1>1 DEF Ready, Well
  <2>3. FewWords => Free(lo, hi)
    BY <1>1 DEF Ready
  <2> QED
    BY <2>1, <2>2, <2>3
<1>4. CASE new = <<>>
  BY <1>4, FitsNone
<1>5. ASSUME lo + Word <= hi, NEW decode \in {<<>>, Scratch(2)},
             new = decode \o <<StoreLocal(lo), Template("Params", lo + Word, hi, q)>>
      PROVE  Fits(new, lo, hi, FALSE)
  <2>1. PICK y, m : y = Template("Params", m, hi, FALSE) /\ m = lo + Word
    OBVIOUS
  <2>2. m \in Nat /\ lo <= m /\ m <= hi /\ FirstLocal <= m
    <3> HIDE DEF FirstLocal
    <3> QED
      BY <1>2, <1>5, <2>1
  <2>3. "Params" \in Templates \ {"Args", "Tuple"}
    BY Kinds
  <2> HIDE DEF Templates, FirstLocal, FewWords, Free, Fits, In, Reads, Scratch, StoreLocal
  <2>4. In(y, m, hi, FALSE) /\ \A a \in Nat : ~Reads(y, a)
    BY <1>2, <2>1, <2>2, <2>3, TemplateIn
  <2>5. In(StoreLocal(lo), lo, m, FALSE) /\ \A a \in Nat : ~Reads(StoreLocal(lo), a)
    BY <1>2, <2>1, StoreIn
  <2>6. Fits(<<StoreLocal(lo), y>>, lo, hi, FALSE)
    BY <1>2, <1>3, <2>2, <2>4, <2>5, TwoItems
  <2>7. CASE decode = <<>>
    <3>1. <<>> \o <<StoreLocal(lo), y>> = <<StoreLocal(lo), y>>
      OBVIOUS
    <3> QED
      BY <1>3, <1>5, <2>1, <2>6, <2>7, <3>1
  <2>8. CASE decode = Scratch(2)
    <3>1. PICK n \in Nat : n = 2 /\ n <= 4
      OBVIOUS
    <3>2. Fits(Scratch(n) \o <<StoreLocal(lo), y>>, lo, hi, FALSE)
      BY <1>3, <2>6, <3>1, Scratchy
    <3> QED
      BY <1>3, <1>5, <2>1, <2>8, <3>1, <3>2
  <2> QED
    BY <2>7, <2>8
<1>6. \/ new = <<>>
      \/ /\ lo + Word <= hi
         /\ \E decode \in {<<>>, Scratch(2)} :
              new = decode \o <<StoreLocal(lo), Template("Params", lo + Word, hi, q)>>
  <2> DEFINE S == {decode \o <<StoreLocal(x.lo), Template("Params", x.lo + Word, x.hi, x.quiet)>> :
                     decode \in {<<>>, Scratch(2)}}
  <2> HIDE DEF Scratch, Template, StoreLocal
  <2>1. new \in S => \E decode \in {<<>>, Scratch(2)} :
          new = decode \o <<StoreLocal(lo), Template("Params", lo + Word, hi, q)>>
    BY <1>1
  <2>2. LowerParams(x) = Nothing(x) \cup (IF x.lo + Word <= x.hi THEN S ELSE {})
    BY DEF LowerParams
  <2>3. new \in Nothing(x) \/ (x.lo + Word <= x.hi /\ new \in S)
    <3> HIDE DEF S, Nothing
    <3> QED
      BY <2>2
  <2>4. new \in Nothing(x) => new = <<>>
    BY DEF Nothing
  <2> HIDE DEF S
  <2> QED
    BY <1>1, <2>1, <2>3, <2>4
<1>7. Fits(new, lo, hi, FALSE)
  BY <1>4, <1>5, <1>6, FitsNone
<1> QED
  BY <1>1, <1>3, <1>7

\* The item y has its room between lo and hi, and its reach, for o, below m.
Around(y, lo, hi, m, o) ==
  \A a \in Nat : (InRoom(y, a) => lo <= a /\ a < hi) /\ (InReach(y, a) => a < m /\ y.owner = o)

\* Two that have it for the same owner, and rooms above it that do not meet.
LEMMA Arounds ==
  ASSUME NEW y, NEW z, NEW o, NEW m \in Nat, NEW lo \in Nat, NEW j \in Nat, NEW k \in Nat, NEW hi \in Nat,
         m <= lo, j <= k, m <= k, Around(y, lo, j, m, o), Around(z, k, hi, m, o)
  PROVE  Apart(y, z) /\ Apart(z, y)
<1> SUFFICES ASSUME NEW a \in Nat
             PROVE  /\ ~(InRoom(y, a) /\ InRoom(z, a))
                    /\ ~(InRoom(y, a) /\ InReach(z, a))
                    /\ ~(InReach(y, a) /\ InRoom(z, a))
                    /\ InReach(y, a) /\ InReach(z, a) => y.owner = z.owner
  BY DEF Apart
<1>1. (InRoom(y, a) => lo <= a /\ a < j) /\ (InReach(y, a) => a < m /\ y.owner = o)
  BY DEF Around
<1>2. (InRoom(z, a) => k <= a /\ a < hi) /\ (InReach(z, a) => a < m /\ z.owner = o)
  BY DEF Around
<1> HIDE DEF InRoom, InReach
<1> QED
  BY <1>1, <1>2

\* The access of part of a buffer.
IsAccess(y, op, lo, to, m, hi, owner) ==
  /\ op \in {"Store", "Load"} /\ lo \in Nat /\ FirstLocal <= lo /\ to \in Nat /\ m \in Nat /\ hi \in Nat
  /\ to <= m /\ m <= hi /\ owner = <<"buffer", lo>> /\ y = Access(op, lo, to, owner)

\* It keeps there.
LEMMA BufferIn ==
  ASSUME NEW y, NEW op, NEW lo, NEW to, NEW m, NEW hi, NEW owner, NEW q,
         IsAccess(y, op, lo, to, m, hi, owner)
  PROVE  /\ In(y, lo, hi, q) /\ Around(y, m, m, m, owner)
         /\ y.op = op /\ y.at = lo /\ y.to = to /\ y.owner = owner
<1>1. /\ op \in {"Store", "Load"} /\ lo \in Nat /\ FirstLocal <= lo /\ to \in Nat /\ m \in Nat /\ hi \in Nat
      /\ to <= m /\ m <= hi /\ owner = <<"buffer", lo>> /\ y = Access(op, lo, to, owner)
  BY DEF IsAccess
<1>2. owner \in Owners /\ owner[1] = "buffer" /\ FirstLocal \in Nat
  BY <1>1, Constants DEF Owners
<1> HIDE DEF Owners, Templates, FirstLocal
<1>3. /\ y.op = op /\ y.lo = y.hi /\ y.at = lo /\ y.to = to /\ y.owner = owner
      /\ y \in Typed /\ \A a \in Nat : ~InRoom(y, a)
  BY <1>1, <1>2, Accessed
<1>4. y.op \notin Templates \cup {"Args", "Tuple", "Fields", "Return", "Params"}
  BY <1>1, <1>3, Kinds
<1>5. Well(y)
  BY <1>1, <1>2, <1>3, <1>4 DEF Well
<1>6. \A a \in Nat : InReach(y, a) => lo <= a /\ a < m
  BY <1>1, <1>3 DEF InReach
<1>7. Calm(y)
  BY <1>1, <1>3, <1>4 DEF Calm
<1>8. In(y, lo, hi, q)
  <2>1. \A a \in Nat : a < m => a < hi
    BY <1>1
  <2> HIDE DEF InRoom, InReach, Calm, Typed, Well, FewWords, Given
  <2> QED
    BY <1>3, <1>5, <1>6, <1>7, <2>1 DEF In
<1>9. Around(y, m, m, m, owner)
  BY <1>1, <1>3, <1>6 DEF Around
<1> QED
  BY <1>1, <1>3, <1>8, <1>9

\* What is stored in a buffer, by arguments between, and loaded from it.
LEMMA BufferFits ==
  ASSUME NEW lo \in Nat, NEW hi \in Nat, NEW q, NEW room \in Nat, NEW m \in Nat, NEW b,
         FirstLocal <= lo, lo <= room, room <= m, m <= hi,
         NEW y1, NEW y2, NEW y3, NEW y4,
         In(y1, lo, hi, q), In(y2, lo, hi, q), In(y3, lo, hi, q), In(y4, lo, hi, q),
         Around(y1, room, room, room, b), Around(y2, room, m, room, b),
         Around(y3, m, hi, room, b), Around(y4, room, room, room, b),
         \A a \in Nat : ~Reads(y1, a) /\ ~Reads(y2, a) /\ ~Reads(y3, a),
         \A a \in Nat : Reads(y4, a) => lo <= a /\ (Fills(y1, a, y4.owner) \/ Fills(y2, a, y4.owner))
  PROVE  Fits(<<y1, y2, y3, y4>>, lo, hi, q)
<1>1. /\ Apart(y1, y2) /\ Apart(y2, y1) /\ Apart(y1, y3) /\ Apart(y3, y1) /\ Apart(y1, y4) /\ Apart(y4, y1)
      /\ Apart(y4, y2) /\ Apart(y2, y4) /\ Apart(y4, y3) /\ Apart(y3, y4) /\ Apart(y2, y3) /\ Apart(y3, y2)
  <2> HIDE DEF Apart, Around
  <2>1. Apart(y1, y2) /\ Apart(y2, y1)
    BY Arounds
  <2>2. Apart(y1, y3) /\ Apart(y3, y1)
    BY Arounds
  <2>3. Apart(y1, y4) /\ Apart(y4, y1)
    BY Arounds
  <2>4. Apart(y4, y2) /\ Apart(y2, y4)
    BY Arounds
  <2>5. Apart(y4, y3) /\ Apart(y3, y4)
    BY Arounds
  <2>6. Apart(y2, y3) /\ Apart(y3, y2)
    BY Arounds
  <2> QED
    BY <2>1, <2>2, <2>3, <2>4, <2>5, <2>6
<1>2. y1 \in Typed /\ y2 \in Typed /\ y3 \in Typed /\ y4 \in Typed
  BY DEF In
<1> HIDE DEF Typed
<1> DEFINE c == <<y1, y2, y3, y4>>
<1>3. c \in Seq(Typed) /\ Len(c) = 4 /\ c[1] = y1 /\ c[2] = y2 /\ c[3] = y3 /\ c[4] = y4
  BY <1>2
<1> HIDE DEF c
<1>4. \A k \in 1 .. Len(c) : k = 1 \/ k = 2 \/ k = 3 \/ k = 4
  BY <1>3
<1>5. \A k \in 1 .. Len(c) : In(c[k], lo, hi, q)
  <2> HIDE DEF In
  <2> QED
    BY <1>3, <1>4
<1>6. \A j, k \in 1 .. Len(c) : j # k => Apart(c[j], c[k])
  <2> HIDE DEF Apart
  <2> QED
    BY <1>1, <1>3, <1>4
<1>7. ASSUME NEW a \in Nat, Reads(y4, a)
      PROVE  Filled(c, 4, a)
  <2>1. FirstLocal \in Nat /\ \A z, o : ~Spoils(z, a, o)
    <3>1. FirstLocal <= a
      <4>1. FirstLocal \in Nat /\ lo <= a
        BY <1>7, Constants
      <4> HIDE DEF FirstLocal
      <4> QED
        BY <4>1
    <3>2. FirstLocal \in Nat
      BY Constants
    <3> HIDE DEF FirstLocal
    <3> QED
      BY <3>1, <3>2 DEF Spoils
  <2>2. Fills(c[1], a, c[4].owner) \/ Fills(c[2], a, c[4].owner)
    BY <1>3, <1>7
  <2>3. 1 \in 1 .. 4 - 1 /\ 2 \in 1 .. 4 - 1
    OBVIOUS
  <2> QED
    BY <2>1, <2>2, <2>3 DEF Filled
<1>8. \A k \in 1 .. Len(c) : \A a \in Nat : Reads(c[k], a) => Filled(c, k, a)
  <2> HIDE DEF Reads, Filled
  <2> QED
    BY <1>3, <1>4, <1>7
<1>9. Fits(c, lo, hi, q)
  BY <1>3, <1>5, <1>6, <1>8 DEF Fits
<1> QED
  BY <1>9 DEF c

\* The result of a call, which is put in the same buffer.
LEMMA ResultFits ==
  ASSUME NEW lo \in Nat, NEW hi \in Nat, NEW q, NEW y, NEW z,
         In(y, lo, hi, q), In(z, lo, hi, q), Apart(y, z), Apart(z, y),
         \A a \in Nat : ~Reads(y, a), \A a \in Nat : Reads(z, a) => Fills(y, a, z.owner)
  PROVE  Fits(<<y, z>>, lo, hi, q)
<1>1. y \in Typed /\ z \in Typed
  BY DEF In
<1> HIDE DEF Typed
<1> DEFINE c == <<y, z>>
<1>2. c \in Seq(Typed) /\ Len(c) = 2 /\ c[1] = y /\ c[2] = z
  BY <1>1
<1> HIDE DEF c
<1>3. \A k \in 1 .. Len(c) : k = 1 \/ k = 2
  BY <1>2
<1>4. ASSUME NEW a \in Nat, Reads(z, a)
      PROVE  Filled(c, 2, a)
  <2>1. 1 \in 1 .. 2 - 1 /\ 1 + 1 .. 2 - 1 = {}
    OBVIOUS
  <2>2. Fills(c[1], a, c[2].owner)
    BY <1>2, <1>4
  <2> QED
    BY <2>1, <2>2 DEF Filled
<1>5. \A k \in 1 .. Len(c) : \A a \in Nat : Reads(c[k], a) => Filled(c, k, a)
  <2> HIDE DEF Reads, Filled
  <2> QED
    BY <1>2, <1>3, <1>4
<1>6. \A k \in 1 .. Len(c) : In(c[k], lo, hi, q)
  <2> HIDE DEF In
  <2> QED
    BY <1>2, <1>3
<1>7. \A j, k \in 1 .. Len(c) : j # k => Apart(c[j], c[k])
  <2> HIDE DEF Apart
  <2> QED
    BY <1>2, <1>3
<1>8. Fits(c, lo, hi, q)
  BY <1>2, <1>5, <1>6, <1>7 DEF Fits
<1> QED
  BY <1>8 DEF c

\* Calls of other contracts: the bounds of the parts of one.
LEMMA SentBounds ==
  ASSUME NEW lo \in Nat, NEW hi \in Nat, NEW n \in Nat, FirstLocal <= lo, lo + (1 + n) * Word <= hi
  PROVE  /\ n * Word \in Nat /\ FirstLocal \in Nat
         /\ lo + (1 + n) * Word \in Nat /\ lo <= lo + (1 + n) * Word /\ FirstLocal <= lo + (1 + n) * Word
         /\ lo + Word \in Nat /\ lo <= lo + Word /\ lo + Word <= lo + (1 + n) * Word
         /\ lo + SelectorLen \in Nat /\ lo <= lo + SelectorLen /\ lo + SelectorLen <= lo + Word
         /\ lo + SelectorLen + n * Word \in Nat /\ lo + SelectorLen <= lo + SelectorLen + n * Word
         /\ lo + SelectorLen + n * Word <= lo + (1 + n) * Word /\ FirstLocal <= lo + SelectorLen
<1>1. n * Word \in Nat /\ (1 + n) * Word = n * Word + Word
  <2>1. n * Word \in Nat /\ (n + 1) * Word = n * Word + Word /\ n + 1 = 1 + n
    BY Multiples
  <2> QED
    BY <2>1
<1>2. PICK k \in Nat : k = n * Word /\ (1 + n) * Word = k + Word
  BY <1>1
<1>3. Word \in Nat /\ SelectorLen \in Nat /\ SelectorLen <= Word /\ FirstLocal \in Nat
  BY Constants
<1> HIDE DEF FirstLocal
<1> QED
  BY <1>2, <1>3

\* The code of one.
LEMMA SentCodes ==
  ASSUME NEW x, Ready(x), x.op = "External", NEW n \in Nat, NEW room, room = x.lo + (1 + n) * Word,
         room <= x.hi, NEW m \in Between(room, x.hi), NEW result, result \in BOOLEAN
  PROVE  Fits(Sent(x, n, room, m, result), x.lo, x.hi, x.quiet)
<1>1. PICK lo, hi, q, b : lo = x.lo /\ hi = x.hi /\ q = x.quiet /\ b = <<"buffer", lo>>
  OBVIOUS
<1>2. /\ lo \in Nat /\ hi \in Nat /\ FirstLocal <= lo /\ lo <= hi /\ hi <= MaxLocal /\ q \in BOOLEAN
  BY <1>1, Bounds, Kinds DEF Plain
<1>3. PICK w, e, t : w = lo + Word /\ e = lo + SelectorLen /\ t = lo + SelectorLen + n * Word
  OBVIOUS
<1>4. /\ n * Word \in Nat /\ w \in Nat /\ e \in Nat /\ t \in Nat /\ room \in Nat
      /\ lo <= e /\ e <= w /\ lo <= w /\ w <= room /\ e <= t /\ t <= room /\ lo <= room
      /\ FirstLocal <= room /\ FirstLocal <= e /\ t = e + n * Word
  <2>1. lo + (1 + n) * Word <= hi
    BY <1>1
  <2> HIDE DEF FirstLocal
  <2> QED
    BY <1>1, <1>2, <1>3, <2>1, SentBounds
<1>5. m \in Nat /\ room <= m /\ m <= hi /\ m <= MaxLocal /\ FirstLocal <= m
  <2>1. FirstLocal \in Nat /\ MaxLocal \in Nat
    BY Constants
  <2> HIDE DEF FirstLocal
  <2> QED
    BY <1>1, <1>2, <1>4, <2>1 DEF Between
<1>6. b \in Owners /\ b[1] = "buffer"
  BY <1>1, <1>2 DEF Owners
<1>7. PICK y1, y2, y3, y4, y5 :
        /\ y1 = Access("Store", lo, w, b) /\ y2 = Part(Template("Args", room, m, q), e, t, b)
        /\ y3 = Template("Expr", m, hi, q) /\ y4 = Access("Load", lo, t, b) /\ y5 = Access("Load", lo, w, b)
  OBVIOUS
<1>8. Sent(x, n, room, m, result) = <<y1, y2, y3, y4>> \o (IF result THEN <<y1, y5>> ELSE <<>>)
  <2> HIDE DEF Access, Part, Template
  <2> QED
    BY <1>1, <1>3, <1>7 DEF Sent, Buffer, Expr
<1> HIDE DEF FirstLocal, Owners, Sent
<1>9. /\ In(y1, lo, hi, q) /\ Around(y1, room, room, room, b)
      /\ y1.op = "Store" /\ y1.at = lo /\ y1.to = w /\ y1.owner = b
  <2>1. IsAccess(y1, "Store", lo, w, room, hi, b)
    BY <1>1, <1>2, <1>4, <1>5, <1>7 DEF IsAccess
  <2> HIDE DEF In, Around, IsAccess
  <2> QED
    BY <2>1, BufferIn
<1>10. /\ In(y4, lo, hi, q) /\ Around(y4, room, room, room, b)
       /\ y4.op = "Load" /\ y4.at = lo /\ y4.to = t /\ y4.owner = b
  <2>1. IsAccess(y4, "Load", lo, t, room, hi, b)
    BY <1>1, <1>2, <1>4, <1>5, <1>7 DEF IsAccess
  <2> HIDE DEF In, Around, IsAccess
  <2> QED
    BY <2>1, BufferIn
<1>11. /\ In(y5, lo, hi, q) /\ Around(y5, room, room, room, b)
       /\ y5.op = "Load" /\ y5.at = lo /\ y5.to = w /\ y5.owner = b
  <2>1. IsAccess(y5, "Load", lo, w, room, hi, b)
    BY <1>1, <1>2, <1>4, <1>5, <1>7 DEF IsAccess
  <2> HIDE DEF In, Around, IsAccess
  <2> QED
    BY <2>1, BufferIn
<1>12. /\ y2.op = "Args" /\ y2.lo = room /\ y2.hi = m /\ y2.at = e /\ y2.to = t /\ y2.owner = b
       /\ y2 \in Typed
  <2>1. IsPart(y2, "Args", room, m, q, e, t, b)
    BY <1>2, <1>4, <1>5, <1>6, <1>7, Kinds DEF IsPart
  <2> HIDE DEF IsPart, Typed
  <2> QED
    BY <2>1, Parted
<1>13. In(y2, lo, hi, q)
  <2>1. Well(y2)
    BY <1>4, <1>6, <1>12, Kinds DEF Well
  <2>2. q => y2.quiet
    BY <1>7 DEF Part, Template
  <2>3. q => Calm(y2)
    BY <1>12, <2>2 DEF Calm
  <2>4. \A a \in Nat : (InRoom(y2, a) => lo <= a /\ a < hi) /\ (InReach(y2, a) => lo <= a /\ a < hi)
    BY <1>2, <1>4, <1>5, <1>12 DEF InRoom, InReach
  <2> HIDE DEF InRoom, InReach, Calm, Typed, Well, FewWords, Given
  <2> QED
    BY <1>12, <2>1, <2>3, <2>4 DEF In
<1>14. Around(y2, room, m, room, b)
  BY <1>4, <1>5, <1>12 DEF Around, InRoom, InReach
<1>15. In(y3, lo, hi, q) /\ Around(y3, m, hi, room, b) /\ \A a \in Nat : ~Reads(y3, a)
  <2>1. "Expr" \in Templates \ {"Args", "Tuple"} /\ "Expr" \notin {"Fields", "Return", "Params"}
    BY Kinds DEF Plain
  <2>2. In(y3, m, hi, q) /\ \A a \in Nat : ~Reads(y3, a)
    <3> HIDE DEF Templates, In, Reads
    <3> QED
      BY <1>2, <1>5, <1>7, <2>1, TemplateIn
  <2>3. y3.lo = m /\ y3.hi = hi /\ y3.to = 0
    BY <1>7 DEF Template
  <2>4. Around(y3, m, hi, room, b)
    BY <2>3, Constants DEF Around, InRoom, InReach
  <2>5. In(y3, lo, hi, q)
    <3> lo <= m
      BY <1>2, <1>4, <1>5
    <3> HIDE DEF In
    <3> QED
      BY <1>2, <1>5, <2>2, Wider
  <2> QED
    BY <2>2, <2>4, <2>5
<1>16. /\ \A a \in Nat : ~Reads(y1, a) /\ ~Reads(y2, a)
       /\ \A a \in Nat : Reads(y4, a) => lo <= a /\ (Fills(y1, a, y4.owner) \/ Fills(y2, a, y4.owner))
       /\ \A a \in Nat : Reads(y5, a) => Fills(y1, a, y5.owner)
  <2>1. \A a \in Nat : ~Reads(y1, a) /\ ~Reads(y2, a)
    BY <1>9, <1>12 DEF Reads
  <2>2. ASSUME NEW a \in Nat, Reads(y4, a)
        PROVE  lo <= a /\ (Fills(y1, a, y4.owner) \/ Fills(y2, a, y4.owner))
    <3>1. lo <= a /\ a < t /\ (a < w \/ e <= a)
      BY <1>2, <1>4, <1>10, <2>2 DEF Reads
    <3> QED
      BY <1>9, <1>10, <1>12, <3>1 DEF Fills
  <2>3. \A a \in Nat : Reads(y5, a) => Fills(y1, a, y5.owner)
    BY <1>9, <1>11 DEF Reads, Fills
  <2> QED
    BY <2>1, <2>2, <2>3
<1> HIDE DEF In, Around, Reads, Fills, Apart, Fits
<1>17. Fits(<<y1, y2, y3, y4>>, lo, hi, q)
  BY <1>2, <1>4, <1>5, <1>9, <1>10, <1>13, <1>14, <1>15, <1>16, BufferFits
<1>18. Apart(y1, y5) /\ Apart(y5, y1) /\ Apart(y1, y1)
  BY <1>4, <1>9, <1>11, Arounds
<1>19. Fits(<<y1, y5>>, lo, hi, q)
  BY <1>2, <1>9, <1>11, <1>16, <1>18, ResultFits
<1>20. Fits(<<y1, y2, y3, y4>> \o <<y1, y5>>, lo, hi, q)
  <2> DEFINE c == <<y1, y2, y3, y4>>
             d == <<y1, y5>>
  <2>1. Len(c) = 4 /\ c[1] = y1 /\ c[2] = y2 /\ c[3] = y3 /\ c[4] = y4
    OBVIOUS
  <2>2. Len(d) = 2 /\ d[1] = y1 /\ d[2] = y5
    OBVIOUS
  <2> HIDE DEF c, d
  <2>3. (\A j \in 1 .. Len(c) : j = 1 \/ j = 2 \/ j = 3 \/ j = 4) /\ (\A k \in 1 .. Len(d) : k = 1 \/ k = 2)
    BY <2>1, <2>2
  <2>4. /\ Apart(y2, y1) /\ Apart(y1, y2) /\ Apart(y2, y5) /\ Apart(y5, y2)
    BY <1>4, <1>5, <1>9, <1>11, <1>14, Arounds
  <2>5. /\ Apart(y3, y1) /\ Apart(y1, y3) /\ Apart(y3, y5) /\ Apart(y5, y3)
    BY <1>2, <1>4, <1>5, <1>9, <1>11, <1>15, Arounds
  <2>6. /\ Apart(y4, y1) /\ Apart(y1, y4) /\ Apart(y4, y5) /\ Apart(y5, y4)
    BY <1>4, <1>9, <1>10, <1>11, Arounds
  <2>7. \A j \in 1 .. Len(c), k \in 1 .. Len(d) : Apart(c[j], d[k]) /\ Apart(d[k], c[j])
    BY <1>18, <2>1, <2>2, <2>3, <2>4, <2>5, <2>6
  <2>8. Fits(c, lo, hi, q) /\ Fits(d, lo, hi, q)
    BY <1>17, <1>19 DEF c, d
  <2>9. Fits(c \o d, lo, hi, q)
    BY <2>7, <2>8, FitsJoined
  <2> QED
    BY <2>9 DEF c, d
<1>21. <<y1, y2, y3, y4>> \o <<>> = <<y1, y2, y3, y4>>
  OBVIOUS
<1> QED
  BY <1>1, <1>8, <1>17, <1>20, <1>21

\* Calls of other contracts.
LEMMA ExternalCodes ==
  ASSUME NEW x, Ready(x), x.op = "External", NEW new, new \in LowerExternal(x)
  PROVE  Fits(new, x.lo, x.hi, x.quiet)
<1>1. PICK n \in {k \in 0 .. x.hi - x.lo : x.lo + (1 + k) * Word <= x.hi}, result \in BOOLEAN :
        new \in Calls(x, n, x.lo + (1 + n) * Word, result)
  <2> HIDE DEF Calls
  <2> QED
    BY DEF LowerExternal
<1>2. n \in Nat /\ x.lo + (1 + n) * Word <= x.hi
  OBVIOUS
<1>3. PICK room : room = x.lo + (1 + n) * Word
  OBVIOUS
<1>4. PICK m \in Between(room, x.hi) : new = Sent(x, n, room, m, result)
  <2> HIDE DEF Sent, Between
  <2> QED
    BY <1>1, <1>3 DEF Calls
<1> HIDE DEF Sent, Between, Fits, Ready
<1>5. Fits(Sent(x, n, room, m, result), x.lo, x.hi, x.quiet)
  BY <1>2, <1>3, SentCodes
<1> QED
  BY <1>4, <1>5

\* Their arguments.
LEMMA ArgsCodes ==
  ASSUME NEW x, Ready(x), x.op = "Args", NEW new, new \in LowerArgs(x)
  PROVE  Replaces(x, new)
<1>1. PICK lo, hi, q, at, to, owner :
        lo = x.lo /\ hi = x.hi /\ q = x.quiet /\ at = x.at /\ to = x.to /\ owner = x.owner
  OBVIOUS
<1>2. /\ lo \in Nat /\ hi \in Nat /\ FirstLocal \in Nat /\ FirstLocal <= lo /\ lo <= hi /\ hi <= MaxLocal
      /\ q \in BOOLEAN /\ at \in Nat /\ to \in Nat /\ owner \in Owners
  BY <1>1, Bounds, Kinds, Fielded DEF Ready
<1>3. FirstLocal <= at /\ to <= lo /\ \E n \in Nat : to = at + n * Word
  BY <1>1 DEF Ready, Well
<1>4. ASSUME at = to, new = <<>>
      PROVE  Replaces(x, new)
  <2>1. <<>> \in Seq(Typed) /\ Len(<<>>) = 0
    <3> HIDE DEF Typed
    <3> QED
      OBVIOUS
  <2>2. \A a \in Nat : ~Fills(x, a, x.owner)
    BY <1>1, <1>2, <1>4 DEF Fills
  <2> HIDE DEF Typed, Fills
  <2> QED
    BY <1>4, <2>1, <2>2 DEF Replaces
<1>5. ASSUME at # to, NEW m \in Between(lo, hi),
             new = <<Expr(lo, m, q), Access("Store", at, at + Word, owner),
                     Part(Template("Args", m, hi, q), at + Word, to, owner)>>
      PROVE  Replaces(x, new)
  <2>1. PICK w : w = at + Word
    OBVIOUS
  <2>2. w \in Nat /\ w <= to /\ at <= w /\ \E n \in Nat : to = w + n * Word
    <3>1. PICK n \in Nat : to = at + n * Word
      BY <1>3
    <3>2. n # 0
      BY <1>2, <1>5, <3>1, Constants
    <3>3. n - 1 \in Nat /\ n * Word = (n - 1) * Word + Word /\ (n - 1) * Word \in Nat /\ Word \in Nat
      BY <3>2, Multiples, Constants
    <3>4. PICK k \in Nat : k = (n - 1) * Word /\ n * Word = k + Word
      BY <3>3
    <3>5. w \in Nat /\ w <= to /\ at <= w /\ to = w + k
      BY <1>2, <2>1, <3>1, <3>3, <3>4
    <3> QED
      BY <3>3, <3>4, <3>5
  <2>3. m \in Nat /\ lo <= m /\ m <= hi /\ m <= MaxLocal /\ FirstLocal <= m /\ to <= m /\ FirstLocal <= w
    <3>1. MaxLocal \in Nat
      BY Constants
    <3> HIDE DEF FirstLocal
    <3> QED
      BY <1>2, <1>3, <2>2, <3>1 DEF Between
  <2>4. PICK y1, y2, y3 : /\ y1 = Template("Expr", lo, m, q) /\ y2 = Access("Store", at, w, owner)
                          /\ y3 = Part(Template("Args", m, hi, q), w, to, owner)
    OBVIOUS
  <2> HIDE DEF FirstLocal, Owners
  <2>5. /\ y1.op = "Expr" /\ y1.lo = lo /\ y1.hi = m /\ y1.to = 0
        /\ y1 \in Typed /\ Well(y1) /\ (q => Calm(y1))
    <3>1. "Expr" \in Templates \ {"Args", "Tuple"} /\ "Expr" \notin {"Fields", "Return", "Params"}
      BY Kinds DEF Plain
    <3>2. In(y1, lo, m, q)
      <4> HIDE DEF Templates, In
      <4> QED
        BY <1>2, <2>3, <2>4, <3>1, TemplateIn
    <3>3. y1.op = "Expr" /\ y1.lo = lo /\ y1.hi = m /\ y1.to = 0
      BY <2>4 DEF Template
    <3> QED
      BY <3>2, <3>3 DEF In
  <2>6. /\ y2.op = "Store" /\ y2.lo = y2.hi /\ y2.at = at /\ y2.to = w /\ y2.owner = owner /\ y2 \in Typed
        /\ \A a \in Nat : ~InRoom(y2, a)
    <3> HIDE DEF Typed, InRoom
    <3> QED
      BY <1>2, <2>2, <2>4, Accessed
  <2>7. /\ y3.op = "Args" /\ y3.lo = m /\ y3.hi = hi /\ y3.at = w /\ y3.to = to /\ y3.owner = owner
        /\ y3 \in Typed
    <3>1. IsPart(y3, "Args", m, hi, q, w, to, owner)
      BY <1>2, <2>2, <2>3, <2>4, Kinds DEF IsPart
    <3> HIDE DEF IsPart, Typed
    <3> QED
      BY <3>1, Parted
  <2>8. Well(y2) /\ Well(y3)
    <3>1. y2.owner[1] # "local" /\ y3.owner[1] = "buffer"
      BY <1>1, <2>6, <2>7 DEF Ready, Well
    <3>2. Well(y2)
      BY <2>6, <3>1, Kinds DEF Well
    <3>3. Well(y3)
      BY <2>2, <2>3, <2>7, <3>1, Kinds DEF Well
    <3> QED
      BY <3>2, <3>3
  <2>9. (q => Calm(y2)) /\ (q => Calm(y3))
    <3>1. q => y3.quiet
      BY <2>4 DEF Part, Template
    <3> QED
      BY <1>3, <2>6, <2>7, <3>1, Kinds DEF Calm
  <2>10. Apart(y1, y2) /\ Apart(y2, y1) /\ Apart(y1, y3) /\ Apart(y3, y1) /\ Apart(y2, y3) /\ Apart(y3, y2)
    <3>1. /\ Around(y1, lo, m, lo, owner) /\ Around(y2, lo, lo, lo, owner) /\ Around(y3, m, hi, lo, owner)
      <4> HIDE DEF Typed, Well
      <4> QED
        BY <1>2, <1>3, <2>2, <2>3, <2>5, <2>6, <2>7 DEF Around, InRoom, InReach
    <3> HIDE DEF Apart, Around, Typed, Well
    <3>2. Apart(y1, y2) /\ Apart(y2, y1)
      BY <1>2, <2>3, <3>1, Arounds
    <3>3. Apart(y1, y3) /\ Apart(y3, y1)
      BY <1>2, <2>3, <3>1, Arounds
    <3>4. Apart(y2, y3) /\ Apart(y3, y2)
      BY <1>2, <2>3, <3>1, Arounds
    <3> QED
      BY <3>2, <3>3, <3>4
  <2>11. \A a \in Nat :
           /\ InRoom(y1, a) \/ InRoom(y2, a) \/ InRoom(y3, a) => InRoom(x, a)
           /\ ~InReach(y1, a)
           /\ InReach(y2, a) \/ InReach(y3, a) => InReach(x, a)
           /\ Fills(x, a, x.owner) => Fills(y2, a, x.owner) \/ Fills(y3, a, x.owner)
           /\ ~Reads(y1, a) /\ ~Reads(y2, a) /\ ~Reads(y3, a)
    <3> TAKE a \in Nat
    <3> HIDE DEF Typed, Well
    <3>1. InRoom(y1, a) \/ InRoom(y2, a) \/ InRoom(y3, a) => InRoom(x, a)
      BY <1>1, <1>2, <2>3, <2>5, <2>6, <2>7 DEF InRoom
    <3>2. ~InReach(y1, a) /\ (InReach(y2, a) \/ InReach(y3, a) => InReach(x, a))
      BY <1>1, <1>2, <1>3, <2>2, <2>5, <2>6, <2>7 DEF InReach
    <3>3. Fills(x, a, x.owner) => Fills(y2, a, x.owner) \/ Fills(y3, a, x.owner)
      BY <1>1, <1>2, <2>2, <2>6, <2>7 DEF Fills
    <3>4. ~Reads(y1, a) /\ ~Reads(y2, a) /\ ~Reads(y3, a)
      BY <2>5, <2>6, <2>7 DEF Reads
    <3> QED
      BY <3>1, <3>2, <3>3, <3>4
  <2>12. \A a \in Nat : Fills(x, a, x.owner) => \A z, o : ~Spoils(z, a, o)
    <3>1. \A a \in Nat : Fills(x, a, x.owner) => ~(a < FirstLocal)
      BY <1>1, <1>2, <1>3 DEF Fills
    <3> QED
      BY <3>1 DEF Spoils
  <2> DEFINE c == <<y1, y2, y3>>
  <2>13. c \in Seq(Typed) /\ Len(c) = 3 /\ c[1] = y1 /\ c[2] = y2 /\ c[3] = y3
    <3> HIDE DEF Typed
    <3> QED
      BY <2>5, <2>6, <2>7
  <2> HIDE DEF c, Typed, Well, Calm, Apart, InRoom, InReach, Fills, Reads, Spoils, Filled, Given
  <2>14. \A k \in 1 .. Len(c) : k = 1 \/ k = 2 \/ k = 3
    BY <2>13
  <2>15. \A k \in 1 .. Len(c) : Well(c[k]) /\ (x.quiet => Calm(c[k]))
    BY <1>1, <2>5, <2>8, <2>9, <2>13, <2>14
  <2>16. \A j, k \in 1 .. Len(c) : j # k => Apart(c[j], c[k])
    BY <2>10, <2>13, <2>14
  <2>17. \A k \in 1 .. Len(c) : \A a \in Nat :
           /\ InRoom(c[k], a) => InRoom(x, a)
           /\ InReach(c[k], a) => InReach(x, a) /\ c[k].owner = x.owner
           /\ ~Reads(c[k], a)
    BY <1>1, <2>6, <2>7, <2>11, <2>13, <2>14
  <2>18. \A a \in Nat : Fills(x, a, x.owner) =>
           \E j \in 1 .. Len(c) :
             /\ Fills(c[j], a, x.owner)
             /\ \A i \in j + 1 .. Len(c) : ~Spoils(c[i], a, x.owner)
    <3>1. 2 \in 1 .. Len(c) /\ 3 \in 1 .. Len(c)
      BY <2>13
    <3> QED
      BY <2>11, <2>12, <2>13, <3>1
  <2>19. Replaces(x, c)
    BY <2>13, <2>15, <2>16, <2>17, <2>18 DEF Replaces
  <2>20. new = c
    BY <1>5, <2>1, <2>4 DEF Expr, c
  <2> QED
    BY <2>19, <2>20
<1>6. \/ at = to /\ new = <<>>
      \/ /\ at # to
         /\ \E m \in Between(lo, hi) :
              new = <<Expr(lo, m, q), Access("Store", at, at + Word, owner),
                      Part(Template("Args", m, hi, q), at + Word, to, owner)>>
  <2> HIDE DEF Expr, Access, Part, Template, Between
  <2>1. CASE at = to
    <3>1. new \in Nothing(x)
      BY <1>1, <2>1 DEF LowerArgs
    <3> QED
      BY <2>1, <3>1 DEF Nothing
  <2>2. CASE at # to
    <3>1. new \in {<<Expr(lo, m, q), Access("Store", at, at + Word, owner),
                     Part(Template("Args", m, hi, q), at + Word, to, owner)>> : m \in Between(lo, hi)}
      BY <1>1, <2>2 DEF LowerArgs
    <3> QED
      BY <2>2, <3>1
  <2> QED
    BY <2>1, <2>2
<1> QED
  BY <1>4, <1>5, <1>6, Zenon

\* The elements of a returned tuple.
LEMMA TupleCodes ==
  ASSUME NEW x, Ready(x), x.op = "Tuple", NEW new, new \in LowerTuple(x)
  PROVE  Replaces(x, new)
<1>1. PICK lo, hi, q, to, owner : lo = x.lo /\ hi = x.hi /\ q = x.quiet /\ to = x.to /\ owner = x.owner
  OBVIOUS
<1>2. /\ lo \in Nat /\ hi \in Nat /\ FirstLocal \in Nat /\ FirstLocal <= lo /\ lo <= hi /\ hi <= MaxLocal
      /\ q \in BOOLEAN /\ to \in Nat /\ owner \in Owners
  BY <1>1, Bounds, Kinds, Fielded DEF Ready
<1>3. x.at = 0 /\ to <= MaxWords * Word /\ owner[1] = "scratch" /\ ~x.quiet
  BY <1>1 DEF Ready, Well
<1>4. \A a \in Nat : ~Fills(x, a, x.owner) /\ (a < to => Reads(x, a))
  BY <1>1, <1>3 DEF Fills, Reads
<1>5. MaxWords * Word \in Nat /\ Word \in Nat /\ (FewWords => MaxWords * Word <= FirstLocal)
  BY Constants, Multiples, Scratched
<1>6. ASSUME new = <<Access("Load", 0, to, owner)>>
      PROVE  Replaces(x, new)
  <2>1. PICK y, z : y = Access("Load", z, to, owner) /\ z = 0
    OBVIOUS
  <2>2. y.op = "Load" /\ y.lo = y.hi /\ y.at = 0 /\ y.to = to /\ y.owner = owner /\ y \in Typed
        /\ \A a \in Nat : ~InRoom(y, a)
    <3>1. z \in Nat
      BY <2>1
    <3> HIDE DEF Owners, Typed, InRoom
    <3> QED
      BY <1>2, <2>1, <3>1, Accessed
  <2>3. Well(y)
    BY <1>3, <2>2, Kinds DEF Well
  <2>4. FewWords => \A a \in Nat : ~InReach(y, a)
    <3> HIDE DEF FirstLocal, FewWords
    <3> QED
      BY <1>2, <1>3, <1>5, <2>2 DEF InReach
  <2>5. \A a \in Nat : Reads(y, a) => Reads(x, a)
    BY <1>4, <2>2 DEF Reads
  <2> DEFINE c == <<y>>
  <2>6. c \in Seq(Typed) /\ Len(c) = 1 /\ c[1] = y
    <3> HIDE DEF Typed
    <3> QED
      BY <2>2
  <2> HIDE DEF c, Typed, Well, Calm, Apart, InRoom, InReach, Fills, Reads, Spoils, Filled, Given, FewWords, Careful
  <2>7. \A k \in 1 .. Len(c) : k = 1
    BY <2>6
  <2>8. \A k \in 1 .. Len(c) : \A a \in Nat :
          Reads(c[k], a) =>
            Reads(x, a) /\ c[k].owner = x.owner /\ \A i \in 1 .. k - 1 : ~Spoils(c[i], a, x.owner)
    <3>1. 1 .. 1 - 1 = {}
      OBVIOUS
    <3> QED
      BY <1>1, <2>2, <2>5, <2>6, <2>7, <3>1
  <2>9. \A k \in 1 .. Len(c) : Well(c[k]) /\ (x.quiet => Calm(c[k]))
    BY <1>3, <2>3, <2>6, <2>7
  <2>10. FewWords => \A k \in 1 .. Len(c) : \A a \in Nat : ~InRoom(c[k], a) /\ ~InReach(c[k], a)
    BY <2>2, <2>4, <2>6, <2>7
  <2>11. \A j, k \in 1 .. Len(c) : ~(j # k)
    BY <2>7
  <2>12. Replaces(x, c)
    BY <1>4, <2>6, <2>8, <2>9, <2>10, <2>11 DEF Replaces
  <2> QED
    BY <1>6, <2>1, <2>12 DEF c
<1>7. ASSUME NEW m \in Between(lo, hi), to + Word <= MaxWords * Word,
             NEW t, t \in BOOLEAN, t <=> (to > 0 /\ ~ScratchInTuples),
             new = <<Expr(lo, m, t), Access("Store", to, to + Word, owner),
                     Part(Template("Tuple", m, hi, q), 0, to + Word, owner)>>
      PROVE  Replaces(x, new)
  <2>1. PICK w, z : w = to + Word /\ z = 0
    OBVIOUS
  <2>2. w \in Nat /\ z \in Nat /\ to <= w /\ w <= MaxWords * Word
    BY <1>2, <1>5, <1>7, <2>1
  <2>3. m \in Nat /\ lo <= m /\ m <= hi /\ m <= MaxLocal /\ FirstLocal <= m
    <3>1. MaxLocal \in Nat
      BY Constants
    <3> HIDE DEF FirstLocal
    <3> QED
      BY <1>2, <3>1 DEF Between
  <2>4. PICK y1, y2, y3 : /\ y1 = Template("Expr", lo, m, t) /\ y2 = Access("Store", to, w, owner)
                          /\ y3 = Part(Template("Tuple", m, hi, q), z, w, owner)
    OBVIOUS
  <2> HIDE DEF FirstLocal, Owners
  <2>5. y1.op = "Expr" /\ y1.lo = lo /\ y1.hi = m /\ y1.to = 0 /\ y1 \in Typed /\ Well(y1)
    <3>1. "Expr" \in Templates \ {"Args", "Tuple"} /\ "Expr" \notin {"Fields", "Return", "Params"}
      BY Kinds DEF Plain
    <3>2. In(y1, lo, m, t)
      <4> HIDE DEF Templates, In
      <4> QED
        BY <1>2, <1>7, <2>3, <2>4, <3>1, TemplateIn
    <3>3. y1.op = "Expr" /\ y1.lo = lo /\ y1.hi = m /\ y1.to = 0
      BY <2>4 DEF Template
    <3> QED
      BY <3>2, <3>3 DEF In
  <2>6. /\ y2.op = "Store" /\ y2.lo = y2.hi /\ y2.at = to /\ y2.to = w /\ y2.owner = owner /\ y2 \in Typed
        /\ \A a \in Nat : ~InRoom(y2, a)
    <3> HIDE DEF Typed, InRoom
    <3> QED
      BY <1>2, <2>2, <2>4, Accessed
  <2>7. /\ y3.op = "Tuple" /\ y3.lo = m /\ y3.hi = hi /\ y3.at = 0 /\ y3.to = w /\ y3.owner = owner
        /\ y3 \in Typed
    <3>1. IsPart(y3, "Tuple", m, hi, q, z, w, owner)
      BY <1>2, <2>2, <2>3, <2>4, Kinds DEF IsPart
    <3> HIDE DEF IsPart, Typed
    <3> QED
      BY <2>1, <3>1, Parted
  <2>8. Well(y2) /\ Well(y3)
    <3>1. ~y3.quiet
      BY <1>1, <1>3, <2>4 DEF Part, Template
    <3>2. Well(y2)
      BY <1>3, <2>6, Kinds DEF Well
    <3>3. Well(y3)
      BY <1>3, <2>2, <2>7, <3>1, Kinds DEF Well
    <3> QED
      BY <3>2, <3>3
  <2>9. ASSUME FewWords
        PROVE  \A a \in Nat : /\ ~InReach(y1, a) /\ ~InReach(y2, a) /\ ~InReach(y3, a)
                              /\ ~InRoom(y2, a) /\ ~(InRoom(y1, a) /\ InRoom(y3, a))
                              /\ InRoom(y1, a) \/ InRoom(y3, a) => InRoom(x, a)
    <3>1. w <= FirstLocal
      <4> HIDE DEF FewWords
      <4> QED
        BY <1>2, <1>5, <2>2, <2>9
    <3> TAKE a \in Nat
    <3> HIDE DEF Typed, Well
    <3>2. ~InReach(y1, a) /\ ~InReach(y2, a) /\ ~InReach(y3, a)
      BY <1>2, <2>2, <2>5, <2>6, <2>7, <3>1 DEF InReach
    <3>3. ~InRoom(y2, a) /\ ~(InRoom(y1, a) /\ InRoom(y3, a))
      BY <1>2, <2>3, <2>5, <2>6, <2>7 DEF InRoom
    <3>4. InRoom(y1, a) \/ InRoom(y3, a) => InRoom(x, a)
      BY <1>1, <1>2, <2>3, <2>5, <2>7 DEF InRoom
    <3> QED
      BY <3>2, <3>3, <3>4
  <2> DEFINE c == <<y1, y2, y3>>
  <2>10. c \in Seq(Typed) /\ Len(c) = 3 /\ c[1] = y1 /\ c[2] = y2 /\ c[3] = y3
    <3> HIDE DEF Typed
    <3> QED
      BY <2>5, <2>6, <2>7
  <2> HIDE DEF c, Typed, Well, Calm, InRoom, InReach, Fills, Reads, Spoils, Filled, Given, FewWords, Careful
  <2>11. \A k \in 1 .. Len(c) : k = 1 \/ k = 2 \/ k = 3
    BY <2>10
  <2>12. \A k \in 1 .. Len(c) : Well(c[k]) /\ (x.quiet => Calm(c[k]))
    BY <1>3, <2>5, <2>8, <2>10, <2>11
  <2>13. FewWords => \A j, k \in 1 .. Len(c) : j # k => Apart(c[j], c[k])
    BY <2>9, <2>10, <2>11 DEF Apart
  <2>14. FewWords => \A k \in 1 .. Len(c) : \A a \in Nat :
           (InRoom(c[k], a) => InRoom(x, a)) /\ ~InReach(c[k], a)
    BY <2>9, <2>10, <2>11
  <2>15. ASSUME Careful, NEW a \in Nat, Reads(y3, a)
         PROVE  \/ Reads(x, a) /\ y3.owner = x.owner /\ \A i \in 1 .. 3 - 1 : ~Spoils(c[i], a, x.owner)
                \/ Filled(c, 3, a)
    <3>1. a < w
      BY <2>7, <2>15 DEF Reads
    <3>2. CASE a < to
      <4>1. y1.quiet
        <5>1. to > 0 /\ ~ScratchInTuples
          BY <1>2, <2>15, <3>2 DEF Careful
        <5>2. t
          BY <1>7, <5>1
        <5> QED
          BY <2>4, <5>2 DEF Template
      <4>2. ~Spoils(y1, a, x.owner)
        BY <2>5, <4>1 DEF Spoils
      <4>3. ~Spoils(y2, a, x.owner)
        BY <1>1, <2>6, Kinds DEF Spoils
      <4>4. \A i \in 1 .. 3 - 1 : i = 1 \/ i = 2
        OBVIOUS
      <4> QED
        BY <1>1, <1>4, <2>7, <2>10, <3>2, <4>2, <4>3, <4>4
    <3>3. CASE ~(a < to)
      <4>1. Fills(c[2], a, c[3].owner)
        BY <1>2, <2>6, <2>7, <2>10, <3>1, <3>3 DEF Fills
      <4>2. 2 \in 1 .. 3 - 1 /\ 2 + 1 .. 3 - 1 = {}
        OBVIOUS
      <4> QED
        BY <4>1, <4>2 DEF Filled
    <3> QED
      BY <3>2, <3>3
  <2>16. Careful => \A k \in 1 .. Len(c) : \A a \in Nat :
           Reads(c[k], a) =>
             \/ Reads(x, a) /\ c[k].owner = x.owner /\ \A i \in 1 .. k - 1 : ~Spoils(c[i], a, x.owner)
             \/ Filled(c, k, a)
    <3>1. \A a \in Nat : ~Reads(y1, a) /\ ~Reads(y2, a)
      BY <2>5, <2>6 DEF Reads
    <3> QED
      BY <2>10, <2>11, <2>15, <3>1
  <2>17. Replaces(x, c)
    BY <1>4, <2>10, <2>12, <2>13, <2>14, <2>16 DEF Replaces
  <2>18. new = c
    BY <1>7, <2>1, <2>4 DEF Expr, c
  <2> QED
    BY <2>17, <2>18
<1>8. \/ new = <<Access("Load", 0, to, owner)>>
      \/ /\ to + Word <= MaxWords * Word
         /\ \E m \in Between(lo, hi) :
              new = <<Expr(lo, m, to > 0 /\ ~ScratchInTuples), Access("Store", to, to + Word, owner),
                      Part(Template("Tuple", m, hi, q), 0, to + Word, owner)>>
  <2> DEFINE S == {<<Expr(x.lo, m, x.to > 0 /\ ~ScratchInTuples), Access("Store", x.to, x.to + Word, x.owner),
                     Part(Template("Tuple", m, x.hi, x.quiet), 0, x.to + Word, x.owner)>> :
                     m \in {p \in Between(x.lo, x.hi) : x.to + Word <= MaxWords * Word}}
  <2> HIDE DEF Expr, Access, Part, Template, Between
  <2>1. LowerTuple(x) = (IF x.lo = x.hi THEN {<<Access("Load", 0, x.to, x.owner)>>} ELSE {}) \cup S
    BY DEF LowerTuple
  <2>2. new \in S => \E m \in {p \in Between(x.lo, x.hi) : x.to + Word <= MaxWords * Word} :
          new = <<Expr(x.lo, m, x.to > 0 /\ ~ScratchInTuples), Access("Store", x.to, x.to + Word, x.owner),
                  Part(Template("Tuple", m, x.hi, x.quiet), 0, x.to + Word, x.owner)>>
    BY Zenon
  <2> HIDE DEF S
  <2>3. new \in S \/ new = <<Access("Load", 0, to, owner)>>
    BY <1>1, <2>1
  <2> QED
    BY <1>1, <2>2, <2>3
<1>9. PICK t \in BOOLEAN : t = (to > 0 /\ ~ScratchInTuples)
  BY Constants
<1> QED
  BY <1>6, <1>7, <1>8, <1>9

\* Whatever a template is replaced by may replace it.
LEMMA Codes ==
  ASSUME NEW x, Ready(x), NEW new,
         \/ x.op = "Expr" /\ new \in LowerExpr(x)
         \/ x.op = "Place" /\ new \in LowerPlace(x)
         \/ x.op = "Internal" /\ new \in LowerInternal(x)
         \/ x.op = "Bind" /\ new \in LowerBind(x)
         \/ x.op = "External" /\ new \in LowerExternal(x)
         \/ x.op = "Args" /\ new \in LowerArgs(x)
         \/ x.op = "Stmt" /\ new \in LowerStmt(x)
         \/ x.op = "Stmts" /\ new \in LowerStmts(x)
         \/ x.op = "Fields" /\ new \in LowerFields(x)
         \/ x.op = "Return" /\ new \in LowerReturn(x)
         \/ x.op = "Tuple" /\ new \in LowerTuple(x)
         \/ x.op = "Params" /\ new \in LowerParams(x)
  PROVE  Replaces(x, new) /\ x.op \in Templates
<1>1. x \in Typed /\ Well(x)
  BY DEF Ready
<1> HIDE DEF Ready, Replaces, Fits, Typed, Well, LowerExpr, LowerPlace, LowerInternal, LowerBind, LowerExternal,
             LowerArgs, LowerStmt, LowerStmts, LowerFields, LowerReturn, LowerTuple, LowerParams
<1>2. ASSUME x.op \in Templates \ {"Args", "Tuple"}, Fits(new, x.lo, x.hi, x.quiet)
      PROVE  Replaces(x, new)
  BY <1>1, <1>2, FitsReplaces
<1>3. CASE x.op = "Expr" /\ new \in LowerExpr(x)
  BY <1>2, <1>3, ExprCodes, Kinds DEF Plain
<1>4. CASE x.op = "Place" /\ new \in LowerPlace(x)
  BY <1>2, <1>4, PlaceCodes, Kinds DEF Plain
<1>5. CASE x.op = "Internal" /\ new \in LowerInternal(x)
  BY <1>2, <1>5, InternalCodes, Kinds DEF Plain
<1>6. CASE x.op = "Bind" /\ new \in LowerBind(x)
  BY <1>2, <1>6, BindCodes, Kinds DEF Plain
<1>7. CASE x.op = "External" /\ new \in LowerExternal(x)
  BY <1>2, <1>7, ExternalCodes, Kinds DEF Plain
<1>8. CASE x.op = "Args" /\ new \in LowerArgs(x)
  BY <1>8, ArgsCodes, Kinds
<1>9. CASE x.op = "Stmt" /\ new \in LowerStmt(x)
  BY <1>2, <1>9, StmtCodes, Kinds DEF Plain
<1>10. CASE x.op = "Stmts" /\ new \in LowerStmts(x)
  BY <1>2, <1>10, StmtsCodes, Kinds DEF Plain
<1>11. CASE x.op = "Fields" /\ new \in LowerFields(x)
  BY <1>2, <1>11, FieldsCodes, Kinds DEF Plain
<1>12. CASE x.op = "Return" /\ new \in LowerReturn(x)
  BY <1>2, <1>12, ReturnCodes, Kinds DEF Plain
<1>13. CASE x.op = "Tuple" /\ new \in LowerTuple(x)
  BY <1>13, TupleCodes, Kinds
<1>14. CASE x.op = "Params" /\ new \in LowerParams(x)
  BY <1>2, <1>14, ParamsCodes, Kinds DEF Plain
<1> QED
  BY <1>3, <1>4, <1>5, <1>6, <1>7, <1>8, <1>9, <1>10, <1>11, <1>12, <1>13, <1>14

----------------------------------------------------------------------------
(* Steps.                                                                  *)

\* What is true whatever the constants.
LayoutInv ==
  /\ Shapes /\ replaced \in Nat /\ size \in 0 .. MaxSize
  /\ DOMAIN mem \subseteq Nat /\ \A a \in DOMAIN mem : mem[a] \in Owners

\* The first item of a code, and the others.
LEMMA Parts ==
  ASSUME NEW c, c \in Seq(Typed), c # <<>>
  PROVE  /\ Len(c) \in Nat /\ 1 <= Len(c) /\ Head(c) = c[1] /\ c[1] \in Typed
         /\ Tail(c) \in Seq(Typed) /\ Len(Tail(c)) = Len(c) - 1
         /\ \A k \in 1 .. Len(c) - 1 : Tail(c)[k] = c[k + 1]
<1> HIDE DEF Typed
<1>1. Len(c) \in Nat /\ Len(c) # 0
  BY EmptySeq
<1> QED
  BY <1>1, HeadTailProperties

\* A code in the place of the first item of another.
LEMMA Spliced ==
  ASSUME NEW c, c \in Seq(Typed), c # <<>>, NEW new, new \in Seq(Typed), NEW s, s = new \o Tail(c)
  PROVE  /\ s \in Seq(Typed) /\ Len(new) \in Nat /\ Len(s) = Len(new) + Len(c) - 1
         /\ \A k \in 1 .. Len(new) : s[k] = new[k]
         /\ \A k \in 2 .. Len(c) : s[Len(new) + k - 1] = c[k]
         /\ \A k \in 1 .. Len(s) : \/ k \in 1 .. Len(new)
                                   \/ k - Len(new) + 1 \in 2 .. Len(c) /\ k = Len(new) + (k - Len(new) + 1) - 1
<1>1. /\ Len(c) \in Nat /\ 1 <= Len(c) /\ Tail(c) \in Seq(Typed) /\ Len(Tail(c)) = Len(c) - 1
      /\ \A k \in 1 .. Len(c) - 1 : Tail(c)[k] = c[k + 1]
  BY Parts
<1> HIDE DEF Typed
<1>2. Len(new) \in Nat
  OBVIOUS
<1>3. s \in Seq(Typed) /\ Len(s) = Len(new) + Len(c) - 1
  <2>1. s \in Seq(Typed) /\ Len(s) = Len(new) + Len(Tail(c))
    BY <1>1, ConcatProperties
  <2> QED
    BY <1>1, <1>2, <2>1
<1>4. \A k \in 1 .. Len(s) : s[k] = IF k <= Len(new) THEN new[k] ELSE Tail(c)[k - Len(new)]
  BY <1>1, <1>2, <1>3, ConcatProperties
<1>5. \A k \in 2 .. Len(c) : s[Len(new) + k - 1] = c[k]
  <2> TAKE k \in 2 .. Len(c)
  <2>1. /\ Len(new) + k - 1 \in 1 .. Len(s) /\ ~(Len(new) + k - 1 <= Len(new))
        /\ Len(new) + k - 1 - Len(new) = k - 1 /\ k - 1 \in 1 .. Len(c) - 1 /\ k - 1 + 1 = k
    BY <1>1, <1>2, <1>3
  <2> QED
    BY <2>1, <1>1, <1>4
<1>6. \A k \in 1 .. Len(new) : s[k] = new[k]
  BY <1>1, <1>2, <1>3, <1>4
<1>7. \A k \in 1 .. Len(s) : \/ k \in 1 .. Len(new)
                             \/ k - Len(new) + 1 \in 2 .. Len(c) /\ k = Len(new) + (k - Len(new) + 1) - 1
  BY <1>1, <1>2, <1>3
<1> QED
  BY <1>2, <1>3, <1>5, <1>6, <1>7

\* Code that may replace the first item meets none of the others.
LEMMA ReplaceSeparate ==
  ASSUME NEW c, c \in Seq(Typed), c # <<>>, Separate(c), DOMAIN mem \subseteq Nat, FewWords,
         NEW new, Replaces(c[1], new), NEW s, s = new \o Tail(c)
  PROVE  Separate(s)
<1>1. new \in Seq(Typed)
  BY DEF Replaces
<1>2. /\ s \in Seq(Typed) /\ Len(new) \in Nat /\ Len(s) = Len(new) + Len(c) - 1
      /\ \A k \in 1 .. Len(new) : s[k] = new[k]
      /\ \A k \in 2 .. Len(c) : s[Len(new) + k - 1] = c[k]
      /\ \A k \in 1 .. Len(s) : \/ k \in 1 .. Len(new)
                                \/ k - Len(new) + 1 \in 2 .. Len(c) /\ k = Len(new) + (k - Len(new) + 1) - 1
  BY <1>1, Spliced
<1>3. Len(c) \in Nat /\ 1 <= Len(c)
  BY Parts
<1>4. ASSUME NEW n \in 1 .. Len(new), NEW a \in Nat
      PROVE  /\ InRoom(new[n], a) => InRoom(c[1], a)
             /\ InReach(new[n], a) =>
                  \/ InRoom(c[1], a)
                  \/ InReach(c[1], a) /\ new[n].owner = c[1].owner
                  \/ Given(a, new[n].owner)
  BY DEF Replaces
<1>5. \A j, k \in 1 .. Len(new) : j # k => Apart(new[j], new[k])
  BY DEF Replaces
<1>6. ASSUME NEW k \in 1 .. Len(c), NEW a \in DOMAIN mem
      PROVE  ~InRoom(c[k], a) /\ (InReach(c[k], a) => mem[a] = c[k].owner)
  BY DEF Separate
<1>7. \A j, k \in 1 .. Len(c) : j # k => Apart(c[j], c[k])
  BY DEF Separate
<1>8. ASSUME NEW n \in 1 .. Len(new), NEW k \in 2 .. Len(c)
      PROVE  Apart(new[n], c[k]) /\ Apart(c[k], new[n])
  <2>1. 1 \in 1 .. Len(c) /\ k \in 1 .. Len(c) /\ k # 1
    BY <1>3
  <2>2. Apart(c[1], c[k])
    BY <1>7, <2>1
  <2>3. ASSUME NEW a \in Nat
        PROVE  /\ ~(InRoom(new[n], a) /\ InRoom(c[k], a))
               /\ ~(InRoom(new[n], a) /\ InReach(c[k], a))
               /\ ~(InReach(new[n], a) /\ InRoom(c[k], a))
               /\ InReach(new[n], a) /\ InReach(c[k], a) => new[n].owner = c[k].owner
    <3>1. /\ ~(InRoom(c[1], a) /\ InRoom(c[k], a))
          /\ ~(InRoom(c[1], a) /\ InReach(c[k], a))
          /\ ~(InReach(c[1], a) /\ InRoom(c[k], a))
          /\ InReach(c[1], a) /\ InReach(c[k], a) => c[1].owner = c[k].owner
      BY <2>2 DEF Apart
    <3>2. Given(a, new[n].owner) =>
            ~InRoom(c[k], a) /\ (InReach(c[k], a) => new[n].owner = c[k].owner)
      BY <1>6, <2>1 DEF Given
    <3> HIDE DEF InRoom, InReach, Given
    <3> QED
      BY <1>4, <3>1, <3>2
  <2> QED
    BY <2>3 DEF Apart
<1>9. ASSUME NEW i \in 1 .. Len(s), NEW j \in 1 .. Len(s), i # j
      PROVE  Apart(s[i], s[j])
  <2> DEFINE k == i - Len(new) + 1
             m == j - Len(new) + 1
  <2>1. (i \in 1 .. Len(new) /\ s[i] = new[i]) \/ (k \in 2 .. Len(c) /\ s[i] = c[k])
    BY <1>2
  <2>2. (j \in 1 .. Len(new) /\ s[j] = new[j]) \/ (m \in 2 .. Len(c) /\ s[j] = c[m])
    BY <1>2
  <2>3. k # m
    BY <1>2, <1>9
  <2>4. \A n \in 2 .. Len(c) : n \in 1 .. Len(c)
    BY <1>3
  <2> HIDE DEF k, m, Apart
  <2> QED
    BY <1>5, <1>7, <1>8, <1>9, <2>1, <2>2, <2>3, <2>4
<1>10. ASSUME NEW i \in 1 .. Len(s), NEW a \in DOMAIN mem
       PROVE  ~InRoom(s[i], a) /\ (InReach(s[i], a) => mem[a] = s[i].owner)
  <2> DEFINE k == i - Len(new) + 1
  <2>1. (i \in 1 .. Len(new) /\ s[i] = new[i]) \/ (k \in 2 .. Len(c) /\ s[i] = c[k])
    BY <1>2
  <2>2. a \in Nat /\ 1 \in 1 .. Len(c) /\ \A n \in 2 .. Len(c) : n \in 1 .. Len(c)
    BY <1>3
  <2>3. Given(a, s[i].owner) => mem[a] = s[i].owner
    BY DEF Given
  <2> HIDE DEF k, InRoom, InReach, Given
  <2> QED
    BY <1>4, <1>6, <2>1, <2>2, <2>3
<1> QED
  BY <1>9, <1>10 DEF Separate

\* Code that may replace the first item reads what is stored, and lets the
\* others read what was stored for them.
LEMMA ReplaceSupplied ==
  ASSUME NEW c, c \in Seq(Typed), c # <<>>, Supplied(c), c[1].op \in Templates, Careful,
         NEW new, Replaces(c[1], new), NEW s, s = new \o Tail(c)
  PROVE  Supplied(s)
<1>1. new \in Seq(Typed)
  BY DEF Replaces
<1>2. /\ s \in Seq(Typed) /\ Len(new) \in Nat /\ Len(s) = Len(new) + Len(c) - 1
      /\ \A k \in 1 .. Len(new) : s[k] = new[k]
      /\ \A k \in 2 .. Len(c) : s[Len(new) + k - 1] = c[k]
      /\ \A k \in 1 .. Len(s) : \/ k \in 1 .. Len(new)
                                \/ k - Len(new) + 1 \in 2 .. Len(c) /\ k = Len(new) + (k - Len(new) + 1) - 1
  BY <1>1, Spliced
<1>3. Len(c) \in Nat /\ 1 <= Len(c) /\ FirstLocal \in Nat
  BY Parts, Constants
<1>4. \A a \in Nat : FirstLocal <= a => \A y, o : ~Spoils(y, a, o)
  <2> HIDE DEF FirstLocal
  <2> QED
    BY <1>3 DEF Spoils
<1> HIDE DEF FirstLocal
<1>5. ASSUME NEW n \in 1 .. Len(new), NEW a \in Nat, Reads(new[n], a)
      PROVE  \/ Given(a, new[n].owner) /\ \A i \in 1 .. n - 1 : ~Spoils(s[i], a, new[n].owner)
             \/ Filled(s, n, a)
  <2>1. \A i \in 1 .. n - 1 : i \in 1 .. Len(new) /\ s[i] = new[i]
    BY <1>2
  <2>2. s[n] = new[n]
    BY <1>2
  <2>3. \/ FirstLocal <= a /\ Given(a, new[n].owner)
        \/ /\ Reads(c[1], a) /\ new[n].owner = c[1].owner
           /\ \A i \in 1 .. n - 1 : ~Spoils(new[i], a, c[1].owner)
        \/ Filled(new, n, a)
    BY <1>5 DEF Replaces
  <2>4. CASE FirstLocal <= a /\ Given(a, new[n].owner)
    BY <2>4, <1>4
  <2>5. CASE /\ Reads(c[1], a) /\ new[n].owner = c[1].owner
             /\ \A i \in 1 .. n - 1 : ~Spoils(new[i], a, c[1].owner)
    <3>1. 1 \in 1 .. Len(c) /\ 1 .. 1 - 1 = {}
      BY <1>3
    <3>2. Given(a, c[1].owner) \/ Filled(c, 1, a)
      BY <2>5, <3>1 DEF Supplied
    <3>3. ~Filled(c, 1, a)
      BY <3>1 DEF Filled
    <3> QED
      BY <2>1, <2>5, <3>2, <3>3
  <2>6. CASE Filled(new, n, a)
    <3>1. PICK j \in 1 .. n - 1 :
            Fills(new[j], a, new[n].owner) /\ \A i \in j + 1 .. n - 1 : ~Spoils(new[i], a, new[n].owner)
      BY <2>6 DEF Filled
    <3>2. \A i \in j + 1 .. n - 1 : i \in 1 .. n - 1
      BY <1>2
    <3>3. Filled(s, n, a)
      BY <2>1, <2>2, <3>1, <3>2 DEF Filled
    <3> QED
      BY <3>3
  <2> QED
    BY <2>3, <2>4, <2>5, <2>6
<1>6. ASSUME NEW k \in 2 .. Len(c), NEW a \in Nat, Reads(c[k], a), NEW o, o = c[k].owner,
             NEW p, p = Len(new) + k - 1
      PROVE  \/ Given(a, o) /\ \A i \in 1 .. p - 1 : ~Spoils(s[i], a, o)
             \/ Filled(s, p, a)
  <2>1. p \in Nat /\ s[p] = c[k] /\ k \in 1 .. Len(c)
    <3> DEFINE m == Len(new)
               l == Len(c)
    <3>1. m \in Nat /\ l \in Nat /\ k \in 2 .. l /\ p = m + k - 1 /\ s[m + k - 1] = c[k]
      BY <1>2, <1>3, <1>6
    <3> HIDE DEF m, l
    <3>2. p \in Nat /\ k \in 1 .. l
      BY <3>1
    <3> QED
      BY <3>1, <3>2 DEF l
  <2>2. \A i \in 1 .. p - 1 : \/ i \in 1 .. Len(new) /\ s[i] = new[i]
                              \/ i - Len(new) + 1 \in 2 .. k - 1 /\ s[i] = c[i - Len(new) + 1]
    <3> TAKE i \in 1 .. p - 1
    <3>1. CASE i <= Len(new)
      BY <1>2, <1>3, <3>1
    <3>2. CASE ~(i <= Len(new))
      <4> DEFINE m == Len(new)
                 l == Len(c)
      <4>1. m \in Nat /\ l \in Nat /\ k \in 2 .. l /\ p = m + k - 1 /\ i \in 1 .. p - 1 /\ ~(i <= m)
        BY <1>2, <1>3, <1>6, <3>2
      <4>2. i - m + 1 \in 2 .. k - 1 /\ i - m + 1 \in 2 .. l /\ i = m + (i - m + 1) - 1
        <5> HIDE DEF m, l
        <5> QED
          BY <4>1
      <4> QED
        BY <1>2, <4>2
    <3> QED
      BY <3>1, <3>2
  <2>3. \/ Given(a, o) /\ \A i \in 1 .. k - 1 : ~Spoils(c[i], a, o)
        \/ Filled(c, k, a)
    BY <1>6, <2>1 DEF Supplied
  <2>4. CASE Given(a, o) /\ \A i \in 1 .. k - 1 : ~Spoils(c[i], a, o)
    <3>1. ~Spoils(c[1], a, o) /\ \A i \in 2 .. k - 1 : ~Spoils(c[i], a, o)
      <4>1. 1 \in 1 .. k - 1 /\ \A i \in 2 .. k - 1 : i \in 1 .. k - 1
        OBVIOUS
      <4> QED
        BY <2>4, <4>1
    <3>2. \A n \in 1 .. Len(new) : ~Spoils(new[n], a, o)
      <4>1. CASE FirstLocal <= a
        BY <1>4, <4>1
      <4>2. CASE ~(FirstLocal <= a)
        <5>1. a < FirstLocal
          BY <1>3, <4>2
        <5>2. c[1].quiet
          BY <3>1, <5>1 DEF Spoils
        <5>3. \A n \in 1 .. Len(new) : Calm(new[n]) /\ new[n] \in Typed
          <6>1. \A n \in 1 .. Len(new) : new[n] \in Typed
            <7> HIDE DEF Typed
            <7> QED
              BY <1>1
          <6> QED
            BY <5>2, <6>1 DEF Replaces
        <5>4. ASSUME NEW n \in 1 .. Len(new)
              PROVE  ~Spoils(new[n], a, o)
          <6>1. new[n].at \in Nat
            BY <5>3, Fielded
          <6>2. Calm(new[n])
            BY <5>3
          <6> QED
            BY <1>3, <5>1, <6>1, <6>2 DEF Calm, Spoils
        <5> QED
          BY <5>4
      <4> QED
        BY <4>1, <4>2
    <3>3. \A i \in 1 .. p - 1 : ~Spoils(s[i], a, o)
      <4> HIDE DEF Spoils
      <4> QED
        BY <2>2, <3>1, <3>2
    <3> QED
      BY <2>4, <3>3
  <2>5. CASE Filled(c, k, a)
    <3>1. PICK j \in 1 .. k - 1 : Fills(c[j], a, o) /\ \A i \in j + 1 .. k - 1 : ~Spoils(c[i], a, o)
      BY <1>6, <2>5 DEF Filled
    <3>2. CASE j = 1
      <4>1. c[1].owner = o /\ Fills(c[1], a, c[1].owner)
        BY <3>1, <3>2 DEF Fills
      <4>2. PICK n \in 1 .. Len(new) :
              Fills(new[n], a, o) /\ \A i \in n + 1 .. Len(new) : ~Spoils(new[i], a, o)
        BY <4>1 DEF Replaces
      <4>3. n \in 1 .. p - 1 /\ s[n] = new[n]
        BY <1>2, <1>3, <1>6
      <4>4. ASSUME NEW i \in n + 1 .. p - 1
            PROVE  ~Spoils(s[i], a, o)
        <5>1. i \in 1 .. p - 1 /\ (i \in 1 .. Len(new) => i \in n + 1 .. Len(new))
          BY <1>2, <2>1
        <5>2. CASE i \in 1 .. Len(new) /\ s[i] = new[i]
          BY <4>2, <5>1, <5>2
        <5>3. CASE i - Len(new) + 1 \in 2 .. k - 1 /\ s[i] = c[i - Len(new) + 1]
          BY <3>1, <3>2, <5>3
        <5> QED
          BY <2>2, <5>1, <5>2, <5>3
      <4> QED
        BY <1>6, <2>1, <4>2, <4>3, <4>4 DEF Filled
    <3>3. CASE j # 1
      <4>1. /\ Len(new) + j - 1 \in 1 .. p - 1 /\ s[Len(new) + j - 1] = c[j]
        BY <1>2, <1>3, <1>6, <3>3
      <4>2. ASSUME NEW i \in Len(new) + j - 1 + 1 .. p - 1
            PROVE  ~Spoils(s[i], a, o)
        <5>1. i \in 1 .. p - 1 /\ ~(i \in 1 .. Len(new)) /\ i - Len(new) + 1 \in j + 1 .. k - 1
          BY <1>2, <1>6, <3>3, <2>1
        <5> QED
          BY <2>2, <3>1, <5>1
      <4> QED
        BY <1>6, <2>1, <3>1, <4>1, <4>2 DEF Filled
    <3> QED
      BY <3>2, <3>3
  <2> QED
    BY <2>3, <2>4, <2>5
<1>7. ASSUME NEW i \in 1 .. Len(s), NEW a \in Nat, Reads(s[i], a)
      PROVE  \/ Given(a, s[i].owner) /\ \A n \in 1 .. i - 1 : ~Spoils(s[n], a, s[i].owner)
             \/ Filled(s, i, a)
  <2>1. CASE i \in 1 .. Len(new)
    <3>1. s[i] = new[i]
      BY <1>2, <2>1
    <3> HIDE DEF Given, Spoils, Filled, Reads
    <3> QED
      BY <1>5, <1>7, <2>1, <3>1
  <2>2. CASE ~(i \in 1 .. Len(new))
    <3>1. PICK k \in 2 .. Len(c) : i = Len(new) + k - 1
      BY <1>2, <2>2
    <3>2. s[i] = c[k]
      BY <1>2, <3>1
    <3> HIDE DEF Given, Spoils, Filled, Reads
    <3> QED
      BY <1>6, <1>7, <3>1, <3>2
  <2> QED
    BY <2>1, <2>2
<1> QED
  BY <1>7 DEF Supplied

\* What is known of the first item, once the code is not empty.
LEMMA Readied ==
  ASSUME LayoutInv, Busy, FewWords => Disjoint
  PROVE  Item = code[1] /\ Ready(code[1])
<1>1. code \in Seq(Typed) /\ code # <<>> /\ \A k \in 1 .. Len(code) : Well(code[k])
  BY DEF LayoutInv, Shapes, Busy
<1>2. Len(code) \in Nat /\ 1 <= Len(code) /\ Head(code) = code[1] /\ code[1] \in Typed
  BY <1>1, Parts
<1>3. 1 \in 1 .. Len(code)
  BY <1>2
<1>4. Well(code[1])
  BY <1>1, <1>3
<1>5. FewWords => Free(code[1].lo, code[1].hi)
  <2>1. FewWords => \A a \in DOMAIN mem : ~InRoom(code[1], a)
    BY <1>3 DEF Disjoint, Separate
  <2> QED
    BY <2>1 DEF InRoom, Free
<1>6. FewWords => \A slot \in locals : \A a \in slot .. slot + Word - 1 : Given(a, Local(slot))
  BY DEF Disjoint
<1>7. replaced \in Nat /\ \A slot \in locals : slot \in Nat /\ FirstLocal <= slot
  BY DEF LayoutInv, Shapes
<1> HIDE DEF Typed, Well, FewWords, Free, Given, FirstLocal
<1> QED
  BY <1>2, <1>4, <1>5, <1>6, <1>7 DEF Ready, Item

\* A step that replaces the first item, by a code that may.
LEMMA Lowered ==
  ASSUME LayoutInv, FewWords => Disjoint, Lower
  PROVE  \E new :
           /\ Replaces(code[1], new) /\ code[1].op \in Templates
           /\ code # <<>> /\ code' = new \o Tail(code) /\ UNCHANGED <<mem, locals>>
           /\ replaced' = replaced + 1 /\ size' \in 0 .. MaxSize
<1>1. Item = code[1] /\ Ready(code[1]) /\ code # <<>>
  BY Readied DEF Lower, Busy
<1>2. PICK x : x = code[1]
  OBVIOUS
<1>3. size \in 0 .. MaxSize /\ MaxSize \in Nat
  BY Constants DEF LayoutInv
<1>4. ASSUME NEW codes, Replace(codes)
      PROVE  \E new \in codes :
               /\ code' = new \o Tail(code) /\ UNCHANGED <<mem, locals>>
               /\ replaced' = replaced + 1 /\ size' \in 0 .. MaxSize
  <2>1. PICK new \in codes :
          /\ code' = new \o Rest
          /\ replaced' = replaced + 1
          /\ size' = IF \A k \in DOMAIN new : new[k].op \in {"Store", "Load"} THEN size ELSE size + 1
          /\ size' <= MaxSize
          /\ UNCHANGED <<mem, locals>>
    BY <1>4 DEF Replace
  <2>2. size' = size \/ size' = size + 1
    BY <2>1
  <2>3. size' \in 0 .. MaxSize
    BY <1>3, <2>1, <2>2
  <2> QED
    BY <2>1, <2>3 DEF Rest
<1> DEFINE Some(new) == /\ code' = new \o Tail(code) /\ UNCHANGED <<mem, locals>>
                        /\ replaced' = replaced + 1 /\ size' \in 0 .. MaxSize
<1>5. \A codes : Replace(codes) => \E new \in codes : Some(new)
  BY <1>4
<1> HIDE DEF Some
<1>6. \E new :
        /\ \/ x.op = "Expr" /\ new \in LowerExpr(x)
           \/ x.op = "Place" /\ new \in LowerPlace(x)
           \/ x.op = "Internal" /\ new \in LowerInternal(x)
           \/ x.op = "Bind" /\ new \in LowerBind(x)
           \/ x.op = "External" /\ new \in LowerExternal(x)
           \/ x.op = "Args" /\ new \in LowerArgs(x)
           \/ x.op = "Stmt" /\ new \in LowerStmt(x)
           \/ x.op = "Stmts" /\ new \in LowerStmts(x)
           \/ x.op = "Fields" /\ new \in LowerFields(x)
           \/ x.op = "Return" /\ new \in LowerReturn(x)
           \/ x.op = "Tuple" /\ new \in LowerTuple(x)
           \/ x.op = "Params" /\ new \in LowerParams(x)
        /\ Some(new)
  <2> HIDE DEF Replace, Item, LowerExpr, LowerPlace, LowerInternal, LowerBind, LowerExternal,
               LowerArgs, LowerStmt, LowerStmts, LowerFields, LowerReturn, LowerTuple, LowerParams
  <2>1. \/ x.op = "Expr" /\ Replace(LowerExpr(x))
        \/ x.op = "Place" /\ Replace(LowerPlace(x))
        \/ x.op = "Internal" /\ Replace(LowerInternal(x))
        \/ x.op = "Bind" /\ Replace(LowerBind(x))
        \/ x.op = "External" /\ Replace(LowerExternal(x))
        \/ x.op = "Args" /\ Replace(LowerArgs(x))
        \/ x.op = "Stmt" /\ Replace(LowerStmt(x))
        \/ x.op = "Stmts" /\ Replace(LowerStmts(x))
        \/ x.op = "Fields" /\ Replace(LowerFields(x))
        \/ x.op = "Return" /\ Replace(LowerReturn(x))
        \/ x.op = "Tuple" /\ Replace(LowerTuple(x))
        \/ x.op = "Params" /\ Replace(LowerParams(x))
    <3>1. Item = x
      BY <1>1, <1>2
    <3> QED
      BY <3>1 DEF Lower
  <2> QED
    BY <1>5, <2>1
<1>7. PICK new : /\ Replaces(x, new) /\ x.op \in Templates /\ Some(new)
  <2>1. Ready(x)
    BY <1>1, <1>2
  <2> HIDE DEF Ready, Replaces, Templates, LowerExpr, LowerPlace, LowerInternal, LowerBind, LowerExternal,
               LowerArgs, LowerStmt, LowerStmts, LowerFields, LowerReturn, LowerTuple, LowerParams
  <2> QED
    BY <1>6, <2>1, Codes
<1> QED
  BY <1>1, <1>2, <1>7 DEF Some

\* Items, when the first is replaced.
LEMMA LowerShapes ==
  ASSUME LayoutInv, FewWords => Disjoint, Lower
  PROVE  LayoutInv'
<1>1. PICK new :
        /\ Replaces(code[1], new)
        /\ code # <<>> /\ code' = new \o Tail(code) /\ UNCHANGED <<mem, locals>>
        /\ replaced' = replaced + 1 /\ size' \in 0 .. MaxSize
  <2> HIDE DEF LayoutInv, FewWords, Disjoint, Lower, Replaces, Templates
  <2> QED
    BY Lowered
<1>2. code \in Seq(Typed) /\ \A k \in 1 .. Len(code) : Well(code[k])
  BY DEF LayoutInv, Shapes
<1>3. new \in Seq(Typed) /\ \A k \in 1 .. Len(new) : Well(new[k])
  BY <1>1 DEF Replaces
<1>4. PICK c, s : c = code /\ s = code'
  OBVIOUS
<1>5. /\ s \in Seq(Typed) /\ Len(new) \in Nat /\ Len(s) = Len(new) + Len(c) - 1
      /\ \A k \in 1 .. Len(new) : s[k] = new[k]
      /\ \A k \in 2 .. Len(c) : s[Len(new) + k - 1] = c[k]
      /\ \A k \in 1 .. Len(s) : \/ k \in 1 .. Len(new)
                                \/ k - Len(new) + 1 \in 2 .. Len(c) /\ k = Len(new) + (k - Len(new) + 1) - 1
  <2>1. c \in Seq(Typed) /\ c # <<>> /\ s = new \o Tail(c)
    BY <1>1, <1>2, <1>4
  <2> HIDE DEF Typed
  <2> QED
    BY <1>3, <2>1, Spliced
<1>6. \A k \in 1 .. Len(s) : Well(s[k])
  <2> TAKE k \in 1 .. Len(s)
  <2>1. CASE k \in 1 .. Len(new)
    BY <1>3, <1>5, <2>1
  <2>2. CASE ~(k \in 1 .. Len(new))
    <3>1. PICK j \in 2 .. Len(c) : s[k] = c[j]
      BY <1>5, <2>2
    <3>2. j \in 1 .. Len(c)
      BY <3>1
    <3> QED
      BY <1>2, <1>4, <3>1, <3>2
  <2> QED
    BY <2>1, <2>2
<1>7. Shapes'
  <2>1. code' \in Seq(Typed) /\ \A k \in 1 .. Len(code') : Well(code'[k])
    BY <1>4, <1>5, <1>6
  <2>2. \A slot \in locals' : slot \in Nat /\ FirstLocal <= slot
    BY <1>1 DEF LayoutInv, Shapes
  <2> HIDE DEF Typed, Well, FirstLocal
  <2> QED
    BY <2>1, <2>2 DEF Shapes
<1> HIDE DEF Owners
<1> QED
  BY <1>1, <1>7 DEF LayoutInv

\* What is apart stays so.
LEMMA LowerDisjoint ==
  ASSUME LayoutInv, FewWords, Disjoint, Lower
  PROVE  Disjoint'
<1>1. PICK new :
        /\ Replaces(code[1], new)
        /\ code # <<>> /\ code' = new \o Tail(code) /\ UNCHANGED <<mem, locals>>
  <2> HIDE DEF LayoutInv, FewWords, Disjoint, Lower, Replaces, Templates
  <2> QED
    BY Lowered
<1>2. PICK c, s : c = code /\ s = code'
  OBVIOUS
<1>3. c \in Seq(Typed) /\ c # <<>> /\ s = new \o Tail(c) /\ Replaces(c[1], new)
  BY <1>1, <1>2 DEF LayoutInv, Shapes
<1>4. Separate(c) /\ DOMAIN mem \subseteq Nat
  BY <1>2 DEF Disjoint, LayoutInv
<1>5. Separate(s)
  <2> HIDE DEF Typed, FewWords, Separate, Replaces
  <2> QED
    BY <1>3, <1>4, ReplaceSeparate
<1>6. mem' = mem /\ locals' = locals
  BY <1>1
<1> HIDE DEF Apart, InRoom, InReach
<1>7. Separate(code)'
  BY <1>2, <1>5, <1>6 DEF Separate
<1>8. \A slot \in locals' : \A a \in slot .. slot + Word - 1 : Given(a, Local(slot))'
  BY <1>6 DEF Disjoint, Given
<1> QED
  BY <1>7, <1>8 DEF Disjoint

\* What is to be read is still stored, or going to be.
LEMMA LowerKept ==
  ASSUME LayoutInv, Careful, Disjoint, Kept, Lower
  PROVE  Kept'
<1>1. PICK new :
        /\ Replaces(code[1], new) /\ code[1].op \in Templates
        /\ code # <<>> /\ code' = new \o Tail(code) /\ UNCHANGED <<mem, locals>>
  <2> HIDE DEF LayoutInv, FewWords, Disjoint, Lower, Replaces, Templates
  <2> QED
    BY Lowered DEF Careful
<1>2. PICK c, s : c = code /\ s = code'
  OBVIOUS
<1>3. c \in Seq(Typed) /\ c # <<>> /\ s = new \o Tail(c) /\ Replaces(c[1], new) /\ c[1].op \in Templates
  BY <1>1, <1>2 DEF LayoutInv, Shapes
<1>4. Supplied(c)
  BY <1>2 DEF Kept
<1>5. Supplied(s)
  <2> HIDE DEF Typed, Careful, Supplied, Replaces, Templates
  <2> QED
    BY <1>3, <1>4, ReplaceSupplied
<1> HIDE DEF Spoils, Filled, Reads
<1>6. Supplied(code)'
  BY <1>1, <1>2, <1>5 DEF Supplied, Given
<1> QED
  BY <1>6 DEF Kept

----------------------------------------------------------------------------
(* Accesses.                                                               *)

\* What an access leaves to be emitted.
LEMMA Accesses ==
  ASSUME LayoutInv, Store \/ Load
  PROVE  /\ code \in Seq(Typed) /\ code # <<>> /\ code' = Tail(code)
         /\ code[1] \in Typed /\ Well(code[1]) /\ code[1] = Item
         /\ code[1].op \in {"Store", "Load"} /\ UNCHANGED <<replaced, size>>
<1>1. code \in Seq(Typed) /\ code # <<>> /\ \A k \in 1 .. Len(code) : Well(code[k])
  BY DEF LayoutInv, Shapes, Store, Load, Busy
<1>2. Len(code) \in Nat /\ 1 <= Len(code) /\ Head(code) = code[1] /\ code[1] \in Typed
  BY <1>1, Parts
<1>3. 1 \in 1 .. Len(code)
  BY <1>2
<1>4. Well(code[1])
  BY <1>1, <1>3
<1>5. /\ code' = Tail(code) /\ Item.op \in {"Store", "Load"} /\ UNCHANGED <<replaced, size>>
  BY DEF Store, Load, Rest
<1> HIDE DEF Typed, Well
<1> QED
  BY <1>1, <1>2, <1>4, <1>5 DEF Item

\* What a store does to memory, and a load does not.
LEMMA Stored ==
  ASSUME LayoutInv, Store \/ Load, NEW y, y = code[1]
  PROVE  /\ \A a \in Nat : \A o : Given(a, o)' <=>
              \/ y.op = "Store" /\ y.at <= a /\ a < y.to /\ o = y.owner
              \/ Given(a, o) /\ ~(y.op = "Store" /\ y.at <= a /\ a < y.to)
         /\ \A a \in Nat : a \in DOMAIN mem' <=>
              a \in DOMAIN mem \/ (y.op = "Store" /\ y.at <= a /\ a < y.to)
         /\ DOMAIN mem' \subseteq Nat
         /\ locals' = IF y.op = "Store" /\ y.owner[1] = "local" THEN locals \cup {y.at} ELSE locals
<1>1. y \in Typed /\ y = Item /\ y.op \in {"Store", "Load"}
  BY Accesses
<1>2. y.at \in Nat /\ y.to \in Nat
  BY <1>1, Fielded
<1>3. DOMAIN mem \subseteq Nat
  BY DEF LayoutInv
<1> HIDE DEF Item, Typed
<1>4. CASE Store
  <2>1. /\ y.op = "Store"
        /\ mem' = [a \in DOMAIN mem \cup y.at .. y.to - 1 |-> IF a \in y.at .. y.to - 1 THEN y.owner ELSE mem[a]]
        /\ locals' = IF y.owner[1] = "local" THEN locals \cup {y.at} ELSE locals
    BY <1>1, <1>4 DEF Store
  <2>2. \A a \in Nat : a \in y.at .. y.to - 1 <=> y.at <= a /\ a < y.to
    BY <1>2
  <2>3. y.at .. y.to - 1 \subseteq Nat
    BY <1>2
  <2> QED
    BY <1>3, <2>1, <2>2, <2>3 DEF Given
<1>5. CASE Load
  <2>1. y.op = "Load" /\ mem' = mem /\ locals' = locals
    BY <1>1, <1>5 DEF Load
  <2> QED
    BY <1>3, <2>1 DEF Given
<1> QED
  BY <1>4, <1>5

\* Items, when the first is emitted.
LEMMA AccessShapes ==
  ASSUME LayoutInv, Store \/ Load
  PROVE  LayoutInv'
<1>1. PICK c, y : c = code /\ y = code[1]
  OBVIOUS
<1>2. /\ c \in Seq(Typed) /\ c # <<>> /\ code' = Tail(c) /\ UNCHANGED <<replaced, size>>
      /\ y \in Typed /\ Well(y) /\ y.op \in {"Store", "Load"} /\ y = Item
  BY <1>1, Accesses
<1>3. /\ Len(c) \in Nat /\ Tail(c) \in Seq(Typed) /\ Len(Tail(c)) = Len(c) - 1
      /\ \A k \in 1 .. Len(c) - 1 : Tail(c)[k] = c[k + 1]
  BY <1>2, Parts
<1>4. \A k \in 1 .. Len(Tail(c)) : Well(Tail(c)[k])
  <2>1. \A k \in 1 .. Len(c) : Well(c[k])
    BY <1>1 DEF LayoutInv, Shapes
  <2> TAKE k \in 1 .. Len(Tail(c))
  <2>2. k \in 1 .. Len(c) - 1 /\ k + 1 \in 1 .. Len(c)
    BY <1>3
  <2> HIDE DEF Well
  <2> QED
    BY <1>3, <2>1, <2>2
<1>5. \A s \in locals' : s \in Nat /\ FirstLocal <= s
  <2>1. locals' = IF y.op = "Store" /\ y.owner[1] = "local" THEN locals \cup {y.at} ELSE locals
    BY <1>1, Stored
  <2>2. y.at \in Nat
    BY <1>2, Fielded
  <2>3. y.op = "Store" /\ y.owner[1] = "local" => FirstLocal <= y.at
    BY <1>2 DEF Well
  <2>4. \A s \in locals : s \in Nat /\ FirstLocal <= s
    BY DEF LayoutInv, Shapes
  <2> QED
    BY <2>1, <2>2, <2>3, <2>4
<1>6. Shapes'
  <2> HIDE DEF Typed, Well, FirstLocal
  <2> QED
    BY <1>2, <1>3, <1>4, <1>5 DEF Shapes
<1>7. DOMAIN mem' \subseteq Nat /\ \A a \in DOMAIN mem' : mem'[a] \in Owners
  <2>1. DOMAIN mem' \subseteq Nat
    BY <1>1, Stored
  <2>2. y.owner \in Owners /\ \A a \in DOMAIN mem : mem[a] \in Owners
    BY <1>2, Fielded DEF LayoutInv
  <2>3. mem' = mem \/ mem' = [a \in DOMAIN mem \cup y.at .. y.to - 1 |->
                               IF a \in y.at .. y.to - 1 THEN y.owner ELSE mem[a]]
    BY <1>2 DEF Store, Load
  <2> HIDE DEF Owners
  <2> QED
    BY <2>1, <2>2, <2>3
<1>8. replaced' \in Nat /\ size' \in 0 .. MaxSize
  BY <1>2 DEF LayoutInv
<1> HIDE DEF Owners
<1> QED
  BY <1>6, <1>7, <1>8 DEF LayoutInv

\* What is apart stays so: a store is made by the only owner of what it stores to.
LEMMA AccessDisjoint ==
  ASSUME LayoutInv, Disjoint, Store \/ Load
  PROVE  Disjoint'
<1>1. PICK c, y : c = code /\ y = code[1]
  OBVIOUS
<1>2. /\ c \in Seq(Typed) /\ c # <<>> /\ code' = Tail(c)
      /\ y \in Typed /\ Well(y) /\ y.op \in {"Store", "Load"} /\ y = c[1]
  BY <1>1, Accesses
<1>3. /\ Len(c) \in Nat /\ 1 <= Len(c) /\ Len(Tail(c)) = Len(c) - 1
      /\ \A k \in 1 .. Len(c) - 1 : Tail(c)[k] = c[k + 1]
  BY <1>2, Parts
<1>4. y.at \in Nat /\ y.to \in Nat /\ FirstLocal \in Nat /\ Word \in Nat
  BY <1>2, Fielded, Constants
<1>5. /\ \A j, k \in 1 .. Len(c) : j # k => Apart(c[j], c[k])
      /\ \A k \in 1 .. Len(c) : \A a \in DOMAIN mem :
           ~InRoom(c[k], a) /\ (InReach(c[k], a) => mem[a] = c[k].owner)
  BY <1>1 DEF Disjoint, Separate
<1>6. /\ \A a \in Nat : \A o : Given(a, o)' <=>
           \/ y.op = "Store" /\ y.at <= a /\ a < y.to /\ o = y.owner
           \/ Given(a, o) /\ ~(y.op = "Store" /\ y.at <= a /\ a < y.to)
      /\ \A a \in Nat : a \in DOMAIN mem' <=>
           a \in DOMAIN mem \/ (y.op = "Store" /\ y.at <= a /\ a < y.to)
      /\ DOMAIN mem' \subseteq Nat
      /\ locals' = IF y.op = "Store" /\ y.owner[1] = "local" THEN locals \cup {y.at} ELSE locals
  BY <1>1, Stored
<1>7. \A k \in 1 .. Len(Tail(c)) : k + 1 \in 1 .. Len(c) /\ k + 1 # 1 /\ Tail(c)[k] = c[k + 1]
  BY <1>3
<1>8. \A j, k \in 1 .. Len(Tail(c)) : j # k => Apart(Tail(c)[j], Tail(c)[k])
  <2> TAKE j, k \in 1 .. Len(Tail(c))
  <2>1. j # k => j + 1 # k + 1
    BY <1>3
  <2> HIDE DEF Apart
  <2> QED
    BY <1>5, <1>7, <2>1
<1>9. ASSUME NEW k \in 1 .. Len(Tail(c)), NEW a \in DOMAIN mem'
      PROVE  ~InRoom(Tail(c)[k], a) /\ (InReach(Tail(c)[k], a) => mem'[a] = Tail(c)[k].owner)
  <2>1. PICK z : z = c[k + 1] /\ z = Tail(c)[k]
    BY <1>7
  <2>2. /\ \A b \in DOMAIN mem : ~InRoom(z, b) /\ (InReach(z, b) => mem[b] = z.owner)
        /\ Apart(y, z) /\ a \in Nat
    <3>1. 1 \in 1 .. Len(c)
      BY <1>3
    <3> QED
      BY <1>2, <1>5, <1>6, <1>7, <2>1, <3>1
  <2>3. CASE y.op = "Store" /\ y.at <= a /\ a < y.to
    <3>1. Given(a, y.owner)'
      BY <1>6, <2>2, <2>3
    <3>2. mem'[a] = y.owner
      BY <3>1 DEF Given
    <3>3. CASE FirstLocal <= a
      <4>1. InReach(y, a)
        BY <2>3, <3>3 DEF InReach
      <4> QED
        BY <2>1, <2>2, <3>2, <4>1 DEF Apart
    <3>4. CASE ~(FirstLocal <= a)
      <4>1. ~InReach(z, a)
        BY <3>4 DEF InReach
      <4>2. ~InRoom(z, a)
        <5>1. z \in Typed /\ Well(z)
          <6>1. k + 1 \in 1 .. Len(c)
            BY <1>7
          <6>2. c[k + 1] \in Typed
            <7> HIDE DEF Typed
            <7> QED
              BY <1>2, <6>1
          <6> QED
            BY <1>1, <2>1, <6>1, <6>2 DEF LayoutInv, Shapes
        <5>2. /\ z.lo \in Nat /\ z.hi \in Nat /\ z.op \in Templates \cup {"Store", "Load"}
              /\ z.op \in Templates => FirstLocal <= z.lo
              /\ z.op \in {"Store", "Load"} => z.lo = z.hi
          BY <5>1, Fielded DEF Well
        <5> HIDE DEF FirstLocal, Templates
        <5> QED
          BY <1>4, <2>2, <3>4, <5>2 DEF InRoom
      <4> QED
        BY <2>1, <4>1, <4>2
    <3> QED
      BY <3>3, <3>4
  <2>4. CASE ~(y.op = "Store" /\ y.at <= a /\ a < y.to)
    <3>1. a \in DOMAIN mem
      BY <1>6, <2>2, <2>4
    <3>2. Given(a, mem[a])
      BY <3>1 DEF Given
    <3>3. PICK o : o = mem[a]
      OBVIOUS
    <3>4. Given(a, o)'
      BY <1>6, <2>2, <2>4, <3>2, <3>3
    <3>5. mem'[a] = mem[a]
      BY <3>3, <3>4 DEF Given
    <3>6. ~InRoom(z, a) /\ (InReach(z, a) => mem[a] = z.owner)
      BY <2>2, <3>1
    <3> HIDE DEF InRoom, InReach
    <3> QED
      BY <2>1, <3>5, <3>6
  <2> QED
    BY <2>3, <2>4
<1>10. Separate(code)'
  <2> HIDE DEF Apart, InRoom, InReach
  <2> QED
    BY <1>2, <1>8, <1>9 DEF Separate
<1>11. ASSUME NEW slot \in locals', NEW a \in slot .. slot + Word - 1
       PROVE  Given(a, Local(slot))'
  <2>1. CASE slot \in locals
    <3>1. slot \in Nat /\ FirstLocal <= slot
      BY <2>1 DEF LayoutInv, Shapes
    <3>2. Given(a, Local(slot)) /\ a \in Nat /\ FirstLocal <= a
      <4>1. a \in Nat /\ FirstLocal <= a
        BY <1>4, <3>1
      <4> QED
        BY <2>1, <4>1 DEF Disjoint
    <3>3. y.op = "Store" /\ y.at <= a /\ a < y.to => y.owner = Local(slot)
      <4>1. 1 \in 1 .. Len(c)
        BY <1>3
      <4>2. a \in DOMAIN mem /\ mem[a] = Local(slot)
        BY <3>2 DEF Given
      <4>3. InReach(y, a) => mem[a] = y.owner
        BY <1>2, <1>5, <4>1, <4>2
      <4> QED
        BY <3>2, <4>2, <4>3 DEF InReach
    <3> QED
      BY <1>6, <3>2, <3>3
  <2>2. CASE slot \notin locals
    <3>1. y.op = "Store" /\ y.owner[1] = "local" /\ slot = y.at
      BY <1>6, <2>2
    <3>2. y.to = slot + Word /\ y.owner = Local(slot)
      BY <1>2, <3>1 DEF Well
    <3>3. a \in Nat /\ y.at <= a /\ a < y.to
      BY <1>4, <3>1, <3>2
    <3> QED
      BY <1>6, <3>1, <3>2, <3>3
  <2> QED
    BY <2>1, <2>2
<1> QED
  BY <1>10, <1>11 DEF Disjoint

\* What is to be read is still stored, or going to be: an access takes nothing
\* from what it leaves to be emitted.
LEMMA AccessKept ==
  ASSUME LayoutInv, Disjoint, Kept, Store \/ Load
  PROVE  Kept'
<1>1. PICK c, y, t : c = code /\ y = code[1] /\ t = code'
  OBVIOUS
<1>2. /\ c \in Seq(Typed) /\ c # <<>> /\ t = Tail(c) /\ code' = t
      /\ y \in Typed /\ y.op \in {"Store", "Load"} /\ y = c[1]
  BY <1>1, Accesses
<1>3. /\ Len(c) \in Nat /\ 1 <= Len(c) /\ Len(t) = Len(c) - 1
      /\ \A k \in 1 .. Len(c) - 1 : t[k] = c[k + 1]
  BY <1>2, Parts
<1>4. \A a \in Nat : \A o : Given(a, o)' <=>
        \/ y.op = "Store" /\ y.at <= a /\ a < y.to /\ o = y.owner
        \/ Given(a, o) /\ ~(y.op = "Store" /\ y.at <= a /\ a < y.to)
  BY <1>1, Stored
<1>5. y.at \in Nat /\ y.to \in Nat /\ FirstLocal \in Nat /\ 1 \in 1 .. Len(c)
  BY <1>2, <1>3, Fielded, Constants
<1> HIDE DEF FirstLocal
<1>6. ASSUME NEW a \in Nat, NEW o, Given(a, o), ~Spoils(y, a, o)
      PROVE  Given(a, o)'
  <2>1. CASE y.op = "Store" /\ y.at <= a /\ a < y.to
    <3>1. CASE FirstLocal <= a
      <4>1. InReach(y, a)
        BY <2>1, <3>1 DEF InReach
      <4>2. a \in DOMAIN mem /\ mem[a] = o
        BY <1>6 DEF Given
      <4>3. mem[a] = y.owner
        BY <1>1, <1>2, <1>5, <4>1, <4>2 DEF Disjoint, Separate
      <4> QED
        BY <1>4, <2>1, <4>2, <4>3
    <3>2. CASE ~(FirstLocal <= a)
      <4>1. y.owner = o
        BY <1>5, <1>6, <2>1, <3>2 DEF Spoils
      <4> QED
        BY <1>4, <2>1, <4>1
    <3> QED
      BY <3>1, <3>2
  <2>2. CASE ~(y.op = "Store" /\ y.at <= a /\ a < y.to)
    <3> HIDE DEF Given
    <3> QED
      BY <1>4, <1>6, <2>2
  <2> QED
    BY <2>1, <2>2
<1>7. ASSUME NEW k \in 1 .. Len(t), NEW a \in Nat, Reads(t[k], a), NEW o, o = t[k].owner
      PROVE  \/ Given(a, o)' /\ \A i \in 1 .. k - 1 : ~Spoils(t[i], a, o)
             \/ \E j \in 1 .. k - 1 : /\ Fills(t[j], a, o)
                                      /\ \A i \in j + 1 .. k - 1 : ~Spoils(t[i], a, o)
  <2>1. k + 1 \in 1 .. Len(c) /\ t[k] = c[k + 1]
    BY <1>3
  <2>2. \A i \in 1 .. k - 1 : t[i] = c[i + 1] /\ i + 1 \in 2 .. k
    BY <1>3
  <2>3. \/ Given(a, o) /\ \A i \in 1 .. k : ~Spoils(c[i], a, o)
        \/ \E j \in 1 .. k : Fills(c[j], a, o) /\ \A i \in j + 1 .. k : ~Spoils(c[i], a, o)
    <3>1. \/ Given(a, o) /\ \A i \in 1 .. k + 1 - 1 : ~Spoils(c[i], a, o)
          \/ \E j \in 1 .. k + 1 - 1 : Fills(c[j], a, o) /\ \A i \in j + 1 .. k + 1 - 1 : ~Spoils(c[i], a, o)
      BY <1>1, <1>7, <2>1 DEF Kept, Supplied, Filled
    <3>2. k + 1 - 1 = k
      BY <1>3
    <3> QED
      BY <3>1, <3>2
  <2> HIDE DEF Spoils
  <2>4. CASE Given(a, o) /\ \A i \in 1 .. k : ~Spoils(c[i], a, o)
    <3>1. 1 \in 1 .. k /\ \A i \in 2 .. k : i \in 1 .. k
      BY <1>3
    <3>2. Given(a, o)'
      BY <1>2, <1>6, <2>4, <3>1
    <3>3. \A i \in 1 .. k - 1 : ~Spoils(t[i], a, o)
      BY <2>2, <2>4, <3>1
    <3> QED
      BY <3>2, <3>3
  <2>5. CASE \E j \in 1 .. k : Fills(c[j], a, o) /\ \A i \in j + 1 .. k : ~Spoils(c[i], a, o)
    <3>1. PICK j \in 1 .. k : Fills(c[j], a, o) /\ \A i \in j + 1 .. k : ~Spoils(c[i], a, o)
      BY <2>5
    <3>2. CASE j = 1
      <4>1. Given(a, o)'
        <5>1. y.op = "Store" /\ y.owner = o /\ y.at <= a /\ a < y.to
          BY <1>2, <3>1, <3>2 DEF Fills
        <5> QED
          BY <1>4, <5>1
      <4>2. \A i \in 1 .. k - 1 : ~Spoils(t[i], a, o)
        BY <2>2, <3>1, <3>2
      <4> QED
        BY <4>1, <4>2
    <3>3. CASE j # 1
      <4>1. j - 1 \in 1 .. k - 1 /\ j - 1 + 1 = j
        BY <1>3, <3>3
      <4>2. Fills(t[j - 1], a, o)
        BY <2>2, <3>1, <4>1
      <4>3. \A i \in j - 1 + 1 .. k - 1 : i \in 1 .. k - 1 /\ i + 1 \in j + 1 .. k
        BY <1>3, <3>3
      <4>4. \A i \in j - 1 + 1 .. k - 1 : ~Spoils(t[i], a, o)
        BY <2>2, <3>1, <4>3
      <4> QED
        BY <4>1, <4>2, <4>4
    <3> QED
      BY <3>2, <3>3
  <2> QED
    BY <2>3, <2>4, <2>5
<1>8. \A k \in 1 .. Len(t) : \A a \in Nat :
        Reads(t[k], a) =>
          \/ /\ a \in DOMAIN mem' /\ mem'[a] = t[k].owner
             /\ \A i \in 1 .. k - 1 : ~Spoils(t[i], a, t[k].owner)
          \/ \E j \in 1 .. k - 1 : /\ Fills(t[j], a, t[k].owner)
                                   /\ \A i \in j + 1 .. k - 1 : ~Spoils(t[i], a, t[k].owner)
  <2> TAKE k \in 1 .. Len(t)
  <2> TAKE a \in Nat
  <2>1. PICK o : o = t[k].owner
    OBVIOUS
  <2>2. Given(a, o)' <=> a \in DOMAIN mem' /\ mem'[a] = o
    BY DEF Given
  <2>3. Reads(t[k], a) =>
          \/ Given(a, o)' /\ \A i \in 1 .. k - 1 : ~Spoils(t[i], a, o)
          \/ \E j \in 1 .. k - 1 : /\ Fills(t[j], a, o)
                                   /\ \A i \in j + 1 .. k - 1 : ~Spoils(t[i], a, o)
    BY <1>7, <2>1
  <2> HIDE DEF Spoils, Given, Fills, Reads
  <2> QED
    BY <2>1, <2>2, <2>3
<1> HIDE DEF Spoils, Fills, Reads
<1> QED
  BY <1>2, <1>8 DEF Kept, Supplied, Filled, Given

----------------------------------------------------------------------------
(* The invariant.                                                          *)

\* An item after two.
LEMMA Third ==
  ASSUME NEW u, NEW v, NEW w
  PROVE  <<u, v>> \o <<w>> = <<u, v, w>>
<1>1. PICK S, c, d, t : S = {u, v, w} /\ c = <<u, v>> /\ d = <<w>> /\ t = <<u, v, w>>
  OBVIOUS
<1>2. /\ c \in Seq(S) /\ d \in Seq(S) /\ t \in Seq(S)
      /\ Len(c) = 2 /\ Len(d) = 1 /\ Len(t) = 3
      /\ c[1] = u /\ c[2] = v /\ d[1] = w /\ t[1] = u /\ t[2] = v /\ t[3] = w
  BY <1>1
<1>3. /\ c \o d \in Seq(S) /\ Len(c \o d) = Len(c) + Len(d)
      /\ \A k \in 1 .. Len(c) + Len(d) : (c \o d)[k] = IF k <= Len(c) THEN c[k] ELSE d[k - Len(c)]
  BY <1>2, ConcatProperties
<1>4. Len(c \o d) = 3 /\ (c \o d)[1] = u /\ (c \o d)[2] = v /\ (c \o d)[3] = w
  BY <1>2, <1>3
<1>5. \A k \in 1 .. 3 : k = 1 \/ k = 2 \/ k = 3
  OBVIOUS
<1>6. c \o d = t
  BY <1>2, <1>3, <1>4, <1>5, SeqEqual
<1> QED
  BY <1>1, <1>6

\* A function has not begun to store or to read.
LEMMA LayoutInit == Init => LayoutInv /\ (FewWords => Disjoint) /\ Kept
<1> SUFFICES ASSUME Init
             PROVE  LayoutInv /\ (FewWords => Disjoint) /\ Kept
  OBVIOUS
<1>1. PICK hi \in Between(FirstLocal, MaxLocal) :
        \E m \in Between(FirstLocal, hi), k \in Between(FirstLocal, hi) :
          /\ m <= k
          /\ code \in {<<Template("Params", FirstLocal, m, FALSE), Stmts(m, k, FALSE)>> \o result :
                         result \in {<<Template("Return", k, hi, FALSE)>>, <<>>}}
  BY DEF Init
<1>2. PICK m \in Between(FirstLocal, hi), k \in Between(FirstLocal, hi) :
        /\ m <= k
        /\ code \in {<<Template("Params", FirstLocal, m, FALSE), Stmts(m, k, FALSE)>> \o result :
                       result \in {<<Template("Return", k, hi, FALSE)>>, <<>>}}
  BY <1>1
<1>3. mem = <<>> /\ locals = {} /\ replaced = 0 /\ size = 0
  BY DEF Init
<1>4. /\ FirstLocal \in Nat /\ MaxLocal \in Nat /\ MaxSize \in Nat /\ hi \in Nat /\ m \in Nat /\ k \in Nat
      /\ FirstLocal <= m /\ m <= k /\ k <= hi /\ hi <= MaxLocal /\ k <= MaxLocal /\ m <= MaxLocal
      /\ FirstLocal <= k
  <2>1. FirstLocal \in Nat /\ MaxLocal \in Nat /\ MaxSize \in Nat
    BY Constants
  <2> HIDE DEF FirstLocal
  <2> QED
    BY <1>2, <2>1 DEF Between
<1>5. DOMAIN mem = {}
  BY <1>3
<1>6. \A lo, h : Free(lo, h)
  BY <1>5 DEF Free
<1> DEFINE first == <<Template("Params", FirstLocal, m, FALSE), Template("Stmts", m, k, FALSE)>>
           last == <<Template("Return", k, hi, FALSE)>>
<1>7. code = first \o last \/ code = first \o <<>>
  <2> HIDE DEF Template
  <2> QED
    BY <1>2 DEF Stmts
<1>8. /\ "Params" \in Templates \ {"Args", "Tuple"} /\ "Return" \in Templates \ {"Args", "Tuple"}
      /\ "Stmts" \in Templates \ {"Args", "Tuple"} /\ "Stmts" \notin {"Fields", "Return", "Params"}
  BY Kinds DEF Plain
<1>9. PICK f \in BOOLEAN : f = FALSE
  OBVIOUS
<1>10. PICK x, y, z : /\ x = Template("Params", FirstLocal, m, f) /\ y = Template("Stmts", m, k, f)
                      /\ z = Template("Return", k, hi, f)
  OBVIOUS
<1> HIDE DEF FirstLocal, Templates, Free, FewWords, In, Reads, Fits, Between
<1>11. In(x, FirstLocal, m, f) /\ \A a \in Nat : ~Reads(x, a)
  BY <1>4, <1>8, <1>9, <1>10, TemplateIn
<1>12. In(y, m, k, f) /\ \A a \in Nat : ~Reads(y, a)
  BY <1>4, <1>8, <1>9, <1>10, TemplateIn
<1>13. In(z, k, hi, f) /\ \A a \in Nat : ~Reads(z, a)
  BY <1>4, <1>8, <1>9, <1>10, TemplateIn
<1>14. Fits(<<x, y, z>>, FirstLocal, hi, f)
  BY <1>4, <1>6, <1>11, <1>12, <1>13, ThreeItems
<1>15. Fits(<<x, y>>, FirstLocal, k, f)
  BY <1>4, <1>6, <1>11, <1>12, TwoItems
<1>16. code = <<x, y, z>> \/ code = <<x, y>>
  <2>1. <<x, y>> \o <<z>> = <<x, y, z>>
    BY Third
  <2>2. \A u, v : <<u, v>> \o <<>> = <<u, v>>
    OBVIOUS
  <2>3. first = <<x, y>> /\ last = <<z>>
    BY <1>9, <1>10
  <2> QED
    BY <1>7, <2>1, <2>2, <2>3
<1>17. PICK h : Fits(code, FirstLocal, h, f)
  BY <1>14, <1>15, <1>16
<1>18. code \in Seq(Typed) /\ \A i \in 1 .. Len(code) : Well(code[i])
  BY <1>17 DEF Fits, In
<1>19. \A i \in 1 .. Len(code) : \A a \in Nat : ~Reads(code[i], a)
  <2>1. CASE code = <<x, y, z>>
    <3>1. Len(code) = 3 /\ code[1] = x /\ code[2] = y /\ code[3] = z
      BY <2>1
    <3> QED
      BY <1>11, <1>12, <1>13, <3>1
  <2>2. CASE code = <<x, y>>
    <3>1. Len(code) = 2 /\ code[1] = x /\ code[2] = y
      BY <2>2
    <3> QED
      BY <1>11, <1>12, <3>1
  <2> QED
    BY <1>16, <2>1, <2>2
<1>20. FewWords => \A i, j \in 1 .. Len(code) : i # j => Apart(code[i], code[j])
  BY <1>17 DEF Fits
<1> HIDE DEF Typed, Well, Apart, Owners
<1>21. Shapes
  BY <1>3, <1>18 DEF Shapes
<1>22. FewWords => Disjoint
  BY <1>3, <1>5, <1>20 DEF Disjoint, Separate
<1>23. Kept
  BY <1>19 DEF Kept, Supplied
<1> QED
  BY <1>3, <1>4, <1>5, <1>21, <1>22, <1>23 DEF LayoutInv

\* A step that changes nothing.
LEMMA LayoutStutter ==
  ASSUME UNCHANGED vars
  PROVE  /\ LayoutInv => LayoutInv'
         /\ Disjoint => Disjoint'
         /\ Kept => Kept'
<1>1. code' = code /\ mem' = mem /\ locals' = locals /\ replaced' = replaced /\ size' = size
  BY DEF vars
<1>2. LayoutInv => LayoutInv'
  <2> HIDE DEF Typed, Well, Owners, FirstLocal
  <2> QED
    BY <1>1 DEF LayoutInv, Shapes
<1>3. Disjoint => Disjoint'
  <2> HIDE DEF Apart, InRoom, InReach
  <2> QED
    BY <1>1 DEF Disjoint, Separate, Given
<1>4. Kept => Kept'
  <2> HIDE DEF Spoils, Fills, Reads
  <2> QED
    BY <1>1 DEF Kept, Supplied, Filled, Given
<1> QED
  BY <1>2, <1>3, <1>4

\* Every step keeps the invariant.
LEMMA LayoutStep ==
  /\ LayoutInv /\ (FewWords => Disjoint) /\ [Next]_vars => LayoutInv' /\ (FewWords => Disjoint')
  /\ LayoutInv /\ Disjoint /\ Kept /\ Careful /\ [Next]_vars => Kept'
<1>1. FewWords' = FewWords /\ Careful' = Careful /\ (Careful => FewWords)
  BY DEF FewWords, Careful
<1> HIDE DEF LayoutInv, Disjoint, Kept, FewWords, Careful
<1>2. ASSUME LayoutInv, FewWords => Disjoint, [Next]_vars
      PROVE  LayoutInv' /\ (FewWords => Disjoint')
  <2>1. CASE Store \/ Load
    BY <1>2, <2>1, AccessShapes, AccessDisjoint
  <2>2. CASE Lower
    BY <1>2, <2>2, LowerShapes, LowerDisjoint
  <2>3. CASE UNCHANGED vars
    BY <1>2, <2>3, LayoutStutter
  <2> QED
    BY <1>2, <2>1, <2>2, <2>3 DEF Next
<1>3. ASSUME LayoutInv, Disjoint, Kept, Careful, [Next]_vars
      PROVE  Kept'
  <2>1. CASE Store \/ Load
    BY <1>3, <2>1, AccessKept
  <2>2. CASE Lower
    BY <1>3, <2>2, LowerKept
  <2>3. CASE UNCHANGED vars
    BY <1>3, <2>3, LayoutStutter
  <2> QED
    BY <1>3, <2>1, <2>2, <2>3 DEF Next
<1> QED
  BY <1>2, <1>3

----------------------------------------------------------------------------
(* Theorems.                                                               *)

\* What is lowered has the type that it should have, whatever the program.
THEOREM LayoutType == Spec => []TypeOK
<1>1. LayoutInv => TypeOK
  <2> SUFFICES ASSUME LayoutInv
               PROVE  TypeOK
    OBVIOUS
  <2>1. code \in Seq(Typed) /\ locals \subseteq Nat
    <3> HIDE DEF Typed
    <3> QED
      BY DEF LayoutInv, Shapes
  <2>2. code \in Seq(Items)
    <3>1. Typed \subseteq Items
      BY DEF Typed
    <3> HIDE DEF Typed, Items
    <3>2. \A k \in 1 .. Len(code) : code[k] \in Items
      BY <2>1, <3>1
    <3> QED
      BY <2>1, <3>2, SeqDef
  <2>3. \A k \in DOMAIN code :
          /\ code[k].lo <= code[k].hi
          /\ code[k].op \in Templates => FirstLocal <= code[k].lo /\ code[k].hi <= MaxLocal
    <3>1. \A k \in DOMAIN code : code[k] \in Typed
      <4> HIDE DEF Typed
      <4> QED
        BY <2>1
    <3> QED
      BY <3>1 DEF Typed
  <2> HIDE DEF Items, Owners, Templates, FirstLocal
  <2> QED
    BY <2>1, <2>2, <2>3 DEF LayoutInv, TypeOK
<1> HIDE DEF LayoutInv, Disjoint, FewWords
<1>2. Init => LayoutInv /\ (FewWords => Disjoint)
  BY LayoutInit
<1>3. LayoutInv /\ (FewWords => Disjoint) /\ [Next]_vars => (LayoutInv /\ (FewWords => Disjoint))'
  <2>1. FewWords' = FewWords
    BY DEF FewWords
  <2> QED
    BY <2>1, LayoutStep
<1> QED
  BY <1>1, <1>2, <1>3, PTL DEF Spec

\* In every function whose events and returned tuples have at most four words,
\* no code ever stores to what another has been given.
THEOREM EachItsOwn ==
  ASSUME MaxWords <= 4
  PROVE  Spec => OneOwner
<1>1. FewWords
  BY DEF FewWords
<1>2. ASSUME LayoutInv, Disjoint, [Next]_vars
      PROVE  [\A a \in DOMAIN mem : a >= FirstLocal => a \in DOMAIN mem' /\ mem'[a] = mem[a]]_vars
  <2>1. CASE Store \/ Load
    <3>1. PICK y : y = code[1]
      OBVIOUS
    <3>2. \A a \in Nat : \A o : Given(a, o)' <=>
            \/ y.op = "Store" /\ y.at <= a /\ a < y.to /\ o = y.owner
            \/ Given(a, o) /\ ~(y.op = "Store" /\ y.at <= a /\ a < y.to)
      BY <1>2, <2>1, <3>1, Stored
    <3>3. \A a \in DOMAIN mem : InReach(y, a) => mem[a] = y.owner
      <4>1. Len(code) \in Nat /\ 1 <= Len(code)
        <5> HIDE DEF Typed
        <5> QED
          BY <1>2, <2>1, Accesses, Parts
      <4>2. 1 \in 1 .. Len(code)
        BY <4>1
      <4> QED
        BY <1>2, <3>1, <4>2 DEF Disjoint, Separate
    <3>4. DOMAIN mem \subseteq Nat /\ FirstLocal \in Nat
      BY <1>2, Constants DEF LayoutInv
    <3>5. ASSUME NEW a \in DOMAIN mem, a >= FirstLocal
          PROVE  a \in DOMAIN mem' /\ mem'[a] = mem[a]
      <4>1. PICK o : o = mem[a]
        OBVIOUS
      <4>2. Given(a, o)
        BY <4>1 DEF Given
      <4>3. a \in Nat /\ FirstLocal <= a
        BY <3>4, <3>5
      <4>4. y.at <= a /\ a < y.to => o = y.owner
        BY <3>3, <4>1, <4>3 DEF InReach
      <4>5. Given(a, o)'
        BY <3>2, <4>2, <4>3, <4>4
      <4> QED
        BY <4>1, <4>5 DEF Given
    <3> QED
      BY <3>5
  <2>2. CASE Lower
    <3>1. mem' = mem
      <4> HIDE DEF LayoutInv, FewWords, Disjoint, Lower, Replaces, Templates
      <4> QED
        BY <1>2, <2>2, Lowered
    <3> QED
      BY <3>1
  <2>3. CASE UNCHANGED vars
    BY <2>3
  <2> QED
    BY <1>2, <2>1, <2>2, <2>3 DEF Next
<1> HIDE DEF LayoutInv, Disjoint
<1>3. Init => LayoutInv /\ Disjoint
  BY <1>1, LayoutInit
<1>4. LayoutInv /\ Disjoint /\ [Next]_vars => (LayoutInv /\ Disjoint)'
  BY <1>1, LayoutStep
<1> QED
  BY <1>2, <1>3, <1>4, PTL DEF Spec, OneOwner

\* If the elements of tuples, but for the first, leave the scratch alone too,
\* whatever is loaded is what was stored for it.
THEOREM ReadsWhatItStored ==
  ASSUME MaxWords <= 4, ~ScratchInTuples
  PROVE  Spec => []LoadsOwn
<1>1. FewWords /\ Careful
  BY DEF FewWords, Careful
<1>2. LayoutInv /\ Kept => LoadsOwn
  <2> SUFFICES ASSUME LayoutInv, Kept, Busy, Item.op = "Load",
                      NEW a \in Item.at .. Item.to - 1
               PROVE  a \in DOMAIN mem /\ mem[a] = Item.owner
    BY DEF LoadsOwn
  <2>1. code \in Seq(Typed) /\ code # <<>>
    BY DEF LayoutInv, Shapes, Busy
  <2>2. Len(code) \in Nat /\ 1 <= Len(code) /\ Item = code[1] /\ code[1] \in Typed
    <3> HIDE DEF Typed
    <3> QED
      BY <2>1, Parts DEF Item
  <2>3. Item.at \in Nat /\ Item.to \in Nat
    BY <2>2, Fielded
  <2>4. 1 \in 1 .. Len(code) /\ a \in Nat /\ Reads(code[1], a)
    BY <2>2, <2>3 DEF Reads
  <2>5. Given(a, code[1].owner) \/ Filled(code, 1, a)
    BY <2>4 DEF Kept, Supplied
  <2>6. ~Filled(code, 1, a)
    BY DEF Filled
  <2> QED
    BY <2>2, <2>5, <2>6 DEF Given
<1> HIDE DEF LayoutInv, Disjoint, Kept
<1>3. Init => LayoutInv /\ Disjoint /\ Kept
  BY <1>1, LayoutInit
<1>4. LayoutInv /\ Disjoint /\ Kept /\ [Next]_vars => (LayoutInv /\ Disjoint /\ Kept)'
  BY <1>1, LayoutStep
<1> QED
  BY <1>2, <1>3, <1>4, PTL DEF Spec
=============================================================================
