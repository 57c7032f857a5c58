------------------------------- MODULE MCIndex --------------------------------
(***************************************************************************)
(* Keys and hash functions for TLC: three whole numbers, two of which have *)
(* one byte, a string of the pool, and two handles of one long string.     *)
(***************************************************************************)
EXTENDS Index

CONSTANTS Shared, Spread

Atom(n) == [kind |-> "atom", name |-> ToString(n), byte |-> 4 + 16 * (n % 16)]
Medium(n, b) == [kind |-> "medium", name |-> n, byte |-> b]
Long(n, b) == [kind |-> "long", name |-> n, byte |-> b]

Keys == {Atom(1), Atom(17), Atom(2), Medium("m", 9), Long("l", 25), Long("l", 41)}
KeyNames == {k.name : k \in Keys}

\* Every hash function into Spread.
AllHashings == {h @@ (Zero.name :> 0) : h \in [KeyNames -> Spread]}
\* Those that send the first number to one place.
HalfHashings == {h \in AllHashings : h["1"] # Shared}

\* Fewer keys, for the run with sub-indices and iterators, and the hash functions
\* that send a number and a string to one place.
FewKeys == Keys \ {Atom(2)}
FewHashings ==
  {h @@ (Zero.name :> 0) :
     h \in {g \in [{k.name : k \in FewKeys} -> Spread] : g["1"] # Shared /\ g["m"] = g["1"]}}

\* Whole numbers alone, all of whose hashes are one but for two of them.
Numbers == {Atom(n) : n \in 1 .. 8}
Colliding ==
  {[n \in {k.name : k \in Numbers} \union {Zero.name} |->
      IF n \in {"7", "8"} THEN 2 ELSE IF n = Zero.name THEN 0 ELSE Shared]}

\* A growth that fails may be tried again without end, and each time leaves
\* an unreachable index behind: one of them for each array is enough.
FewFailures == \A b \in Blk : dead[b] <= 1

Capacities == <<3, 7, 11>>
SmallCapacities == <<7, 8, 13>>
===============================================================================
