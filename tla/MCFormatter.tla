------------------------------ MODULE MCFormatter ------------------------------
(***************************************************************************)
(* Two records over keys of each kind, the second in the first, and values *)
(* and specifiers of each kind.  Numbers have five bits, decimals quarters *)
(* and three digits.                                                       *)
(***************************************************************************)
EXTENDS Formatter, TLC

StrVal(n) == Value("str", n)
DecVal(n) == Value("dec", n)
RecVal(n) == Value("rec", n)

KeySet == {IntVal(-1), IntVal(0), IntVal(1), StrVal(1), StrVal(2)}
Added == {IntVal(2)}
Empty == [k \in KeySet \union Added |-> Udf]
Nested ==
  {<<a @@ c @@ d @@ Empty, b @@ Empty>> : a \in [{IntVal(0)} -> {Udf, IntVal(7), RecVal(2)}],
                                 c \in [{IntVal(-1), IntVal(1)} -> {Udf, IntVal(7)}],
                                 d \in [{StrVal(1), StrVal(2)} -> {Udf, RecVal(2)}],
                                 b \in [{IntVal(0), StrVal(2)} -> {Udf, IntVal(-6)}]}
Cyclic ==
  {<<a @@ Empty, b @@ Empty>> : a \in [{IntVal(0), StrVal(2)} -> {Udf, RecVal(1), RecVal(2)}],
                                b \in [{IntVal(0), StrVal(2)} -> {Udf, RecVal(1)}]}

InOrder == <<IntVal(0), IntVal(1), StrVal(1), StrVal(2), IntVal(-1)>>
Sorts == {InOrder, <<StrVal(2), IntVal(1), IntVal(-1), IntVal(0), StrVal(1)>>}
Grown == {Append(Reverse(InOrder), IntVal(2))}

With(spec, val) == [spec |-> spec, val |-> val]
Specs == {<<>>, <<"Q">>, <<"H">>, <<"O">>, <<"B">>, <<"D", "Q">>}
Atoms == {IntVal(n) : n \in -16 .. 15}
           \union {DecVal(n) : n \in {-29, -1, 0, 1, 3, 6, 9, 15, 19, 31}}
           \union {StrVal(1), StrVal(2), Udf, Value("nil", 0), Value("log", 1), Value("fun", 0)}
Wrong == {<<"H", "D">>, <<"Q", "X">>, <<"B", "B">>}

Alone == {<<With(s, v)>> : s \in Specs, v \in Atoms}
Twice == {<<With(<<"Q">>, RecVal(2)), With(s, IntVal(9))>> : s \in Wrong \union {<<"H">>}}

\* Values that are not records are written with an empty heap.
CallSet(h) ==
  IF h = <<Empty, Empty>> THEN Alone \union Twice ELSE {<<With(<<"B">>, RecVal(1))>>}
HugeDecs(h) == {<<With(<<"B">>, DecVal(35))>>}
NewValues == {Udf, IntVal(9)}
===============================================================================
