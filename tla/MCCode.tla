-------------------------------- MODULE MCCode --------------------------------
EXTENDS Code, TLC

\* Values are alike.
Symmetry == Permutations(Value)

Plain == [variadic |-> FALSE, upvals |-> TRUE]
Variadic == [variadic |-> TRUE, upvals |-> FALSE]
\* A variadic function with upvalues.
Both == [variadic |-> TRUE, upvals |-> TRUE]
HostInfos == {Plain, Variadic}
AllInfos == {Plain, Variadic, Both}
===============================================================================
