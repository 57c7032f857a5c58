-------------------------------- MODULE KeyMap --------------------------------
(***************************************************************************)
(* What an index promises (taz_index.h): distinct locs below the number of *)
(* keys.  A new key takes the next loc, a key keeps its loc, and a         *)
(* sub-index numbers the keys it selects afresh.                           *)
(***************************************************************************)
EXTENDS Integers, FiniteSets

CONSTANT Name         \* what a key is equal to: two equal keys have one name

VARIABLES map,        \* the <<name, loc>> in the index
          next,       \* tazR_idxNumKeys
          sub         \* whether it is a sub-index

vars == <<map, next, sub>>

NamesOf(m) == {p[1] : p \in m}
LocsOf(m) == {p[2] : p \in m}

Init == map = {} /\ next = 0 /\ sub = FALSE

\* tazR_idxInsert of a key that is new.
Insert ==
  /\ sub' = sub /\ next' = next + 1
  /\ \E p \in map' \ map : /\ p[2] = next /\ p[1] \in Name \ NamesOf(map)
                           /\ map' = map \union {p}

\* tazR_subIdx: some of the keys, under new locs, and the program goes on
\* with the sub-index.
Take ==
  /\ ~sub /\ sub' /\ next' \in 0 .. next + 1
  /\ NamesOf(map') \subseteq NamesOf(map)
  /\ LocsOf(map') \subseteq 0 .. next' - 1
  /\ Cardinality(NamesOf(map')) = Cardinality(map')
  /\ Cardinality(LocsOf(map')) = Cardinality(map')

Next == Insert \/ Take

Spec == Init /\ [][Next]_vars
===============================================================================
