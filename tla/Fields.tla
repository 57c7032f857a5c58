-------------------------------- MODULE Fields --------------------------------
(***************************************************************************)
(* What records promise their users (taz_record.h): each record maps keys  *)
(* to values, and an operation on one record leaves the others alone,      *)
(* whichever records share its index.                                      *)
(***************************************************************************)
EXTENDS Integers, FiniteSets

VARIABLES fields      \* the <<record, key, value>> that tazR_recGet returns

Init == fields = {}

FieldsOf(F) == {<<f[1], f[2]>> : f \in F}

\* tazR_recDef and tazR_recSet: one key of one record gets a value, or another
\* value, or none.
Write ==
  /\ Cardinality(FieldsOf((fields \ fields') \union (fields' \ fields))) = 1
  /\ Cardinality(FieldsOf(fields')) = Cardinality(fields')

Spec == Init /\ [][Write]_fields
===============================================================================
