----------------------------- MODULE MCEnvironment -----------------------------
EXTENDS Environment, TLC

\* Names, values and functions are alike.
Symmetry == Permutations(Name) \union Permutations(Value) \union Permutations(Fun)
===============================================================================
