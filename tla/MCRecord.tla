------------------------------- MODULE MCRecord -------------------------------
(***************************************************************************)
(* The smallest rows of valsCapTable, and the symmetry of records, keys    *)
(* and values in the runs that check no liveness.                          *)
(***************************************************************************)
EXTENDS Record, TLC

Capacities == <<1, 2, 3>>
Symmetry == Permutations(Rec) \union Permutations(Key) \union Permutations(IntVal)
===============================================================================
