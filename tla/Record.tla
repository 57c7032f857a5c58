-------------------------------- MODULE Record --------------------------------
(***************************************************************************)
(* The records of taz_record.c: an array of values, whose slots an index   *)
(* names that many records may share, and the comparison of records, which *)
(* walks the first one with its flags set against cycles.                  *)
(*                                                                         *)
(* An index is the sequence of its keys: a loc is a position, from 0, as   *)
(* KeyMap has it.  A comparison allocates at each level, so it may fail at *)
(* each, and its calls are the frames of a stack.  The order in which an   *)
(* iterator returns the keys is left open.                                 *)
(***************************************************************************)
EXTENDS Integers, Sequences, SequencesExt, FiniteSets, FiniteSetsExt, Reachability

CONSTANTS
  Rec,                \* records the program may make
  Idx,                \* the indices it makes them with
  Key,
  IntVal, StrVal,     \* values that are whole numbers and strings
  Udf,                \* the undefined value
  ValsCap,            \* valsCapTable
  Fails,              \* the calls that may run out of memory
  Seps, Compares      \* bounds: whether records are separated, and compared

Val == Rec \union IntVal \union StrVal
Row == 1 .. Len(ValsCap)

ASSUME RecordAssumption ==
  /\ IsFiniteSet(Rec) /\ IsFiniteSet(Key)
  /\ Rec \intersect StrVal = {} /\ Udf \notin Val
  /\ ValsCap \in Seq(Nat \ {0}) /\ ValsCap # <<>>
  /\ \A r, s \in Row : r < s => ValsCap[r] < ValsCap[s]
  /\ ValsCap[Len(ValsCap)] >= Cardinality(Key)
  /\ Fails \subseteq {"def", "compare"} /\ Seps \in BOOLEAN /\ Compares \in BOOLEAN

VARIABLES
  index,              \* the keys of each index, in the order of their locs
  rec,                \* the records: index, flags, row and values
  cmp                 \* the comparison under way, or the last one's outcome

vars == <<index, rec, cmp>>

-------------------------------------------------------------------------------
(* Values of a record. *)

\* No record yet: no row has this number.
Null == [row |-> 0]
Made == {r \in Rec : rec[r] # Null}
TypeName(v) == IF v \in Rec THEN "rec" ELSE IF v \in IntVal THEN "int"
               ELSE IF v \in StrVal THEN "str" ELSE "udf"

\* The least row whose capacity is at least n.
RowFor(n) == Min({r \in Row : ValsCap[r] >= n})

\* valsCapTable[row] slots are read; separateRec may have allocated fewer.
CapOf(x) == ValsCap[x.row]
IsSound(x) == DOMAIN x.vals = 0 .. CapOf(x) - 1

\* tazR_idxLookup, as KeyMap has it: the loc of a key in an index with these keys.
Loc(keys, k) ==
  LET places == {j \in DOMAIN keys : keys[j] = k}
  IN IF places = {} THEN -1 ELSE (CHOOSE j \in places : TRUE) - 1

\* tazR_recGet
FieldAt(x, l) == IF l \in 0 .. CapOf(x) - 1 /\ l \in DOMAIN x.vals THEN x.vals[l] ELSE Udf
Get(r, k) == FieldAt(rec[r], Loc(index[rec[r].idx], k))

Keys(r) == {k \in Key : Get(r, k) # Udf}

\* tazR_recCount
Count(r) == Cardinality({i \in DOMAIN rec[r].vals : rec[r].vals[i] # Udf})

-------------------------------------------------------------------------------
(* Operations. *)

\* A comparison: its operation, what it does next, the records it was called
\* with last, its frames, whether it met a cycle, and what isSubset returned.
Idle == [state |-> "idle", op |-> "none", turn |-> "none", of |-> <<>>, stack |-> <<>>,
         cyclic |-> FALSE, isSub |-> FALSE]

Init ==
  /\ index = [i \in Idx |-> <<>>]
  /\ rec = [r \in Rec |-> Null]
  /\ cmp = Idle

Ready == cmp.state = "idle"

\* tazR_makeRec
MakeRec(r, i) ==
  LET row == RowFor(Len(index[i]))
  IN /\ Ready /\ rec[r] = Null
     /\ rec' = [rec EXCEPT ![r] = [idx |-> i, sep |-> FALSE, rcu |-> FALSE, row |-> row,
                                   vals |-> [l \in 0 .. ValsCap[row] - 1 |-> Udf]]]
     /\ UNCHANGED <<index, cmp>>

\* tazR_recSep
RecSep(r) ==
  /\ Ready /\ Seps /\ rec[r] # Null
  /\ rec' = [rec EXCEPT ![r].sep = TRUE]
  /\ UNCHANGED <<index, cmp>>

\* separateRec: the values move to the locs of a sub-index, numbered in the
\* order in which an iterator meets the keys, and the array shrinks to them.
\* The pointer to the index stays.
SeparatedWays(x) ==
  LET used == {i \in DOMAIN x.vals : x.vals[i] # Udf}
      n == Cardinality(used)
  IN {[x EXCEPT !.sep = FALSE,
                !.row = Min({x.row} \union {r \in Row : ValsCap[r] >= n}),
                !.vals = [l \in 0 .. n - 1 |-> x.vals[order[l + 1]]]]
        : order \in {s \in [1 .. n -> used] : \A a, b \in 1 .. n : s[a] = s[b] => a = b}}

Prepared(x) == IF x.sep THEN SeparatedWays(x) ELSE {x}

\* (Faulty: a key that is already there gets another loc; TypeOK.)
MutWithKey(i, k) == [index EXCEPT ![i] = Append(@, k)]
WithKey(i, k) == IF Contains(index[i], k) THEN index ELSE [index EXCEPT ![i] = Append(@, k)]

\* (Faulty: the new slots are not cleared; IsolatesRecords.)
MutNewSlot(x, l) == IF l \in DOMAIN x.vals THEN x.vals[l] ELSE x.vals[0]
NewSlot(x, l) == IF l \in DOMAIN x.vals THEN x.vals[l] ELSE Udf

\* (Faulty: the record keeps its row; SlotsExist.)
MutGrown(x, l) ==
  IF l < CapOf(x) THEN x
  ELSE [x EXCEPT !.vals = [m \in 0 .. ValsCap[RowFor(l + 1)] - 1 |-> NewSlot(x, m)]]
\* Room for the loc: the next row with more slots than it.
Grown(x, l) ==
  LET row == RowFor(l + 1)
  IN IF l < CapOf(x) THEN x
     ELSE [x EXCEPT !.row = row, !.vals = [m \in 0 .. ValsCap[row] - 1 |-> NewSlot(x, m)]]

\* A value the program can have.
Held(v) == v \in Rec => v \in Made

\* tazR_recDef: separation, insertion into the shared index, growth, store.
RecDef(r, k, v) ==
  /\ Ready /\ rec[r] # Null /\ IsSound(rec[r]) /\ Held(v)
  /\ \E x \in Prepared(rec[r]) :
       /\ IsSound(x)
       /\ index' = WithKey(x.idx, k)
       /\ LET l == Loc(index'[x.idx], k)
          IN rec' = [rec EXCEPT ![r] = [Grown(x, l) EXCEPT !.vals[l] = v]]
  /\ UNCHANGED cmp

\* separateRec has read its record's slots and allocated fewer than it will say.
RecDefOverruns(r) ==
  /\ Ready /\ rec[r] # Null /\ IsSound(rec[r])
  /\ \E x \in Prepared(rec[r]) : ~IsSound(x) /\ rec' = [rec EXCEPT ![r] = x]
  /\ UNCHANGED <<index, cmp>>

\* The index cannot grow, or the array of values cannot.
RecDefFails(r, k) ==
  /\ Ready /\ "def" \in Fails /\ rec[r] # Null /\ IsSound(rec[r])
  /\ \E x \in Prepared(rec[r]) :
       /\ IsSound(x) /\ rec' = [rec EXCEPT ![r] = x] /\ index' = WithKey(x.idx, k)
  /\ UNCHANGED cmp

\* tazR_recSet, past its three errors.
RecSet(r, k, v) ==
  /\ Ready /\ rec[r] # Null /\ IsSound(rec[r]) /\ Held(v) /\ v # Udf /\ Get(r, k) # Udf
  /\ rec' = [rec EXCEPT ![r].vals[Loc(index[rec[r].idx], k)] = v]
  /\ UNCHANGED <<index, cmp>>

-------------------------------------------------------------------------------
(* tazR_recEqual, tazR_recLess and tazR_recLessOrEqual. *)

Pair(r1, r2) == [r1 |-> r1, r2 |-> r2]
TopFrame == cmp.stack[Len(cmp.stack)]
Popped == SubSeq(cmp.stack, 1, Len(cmp.stack) - 1)

Compare(op, r1, r2) ==
  /\ Ready /\ Compares /\ {r1, r2} \subseteq Made
  /\ \A r \in Made : IsSound(rec[r])
  /\ cmp' = [Idle EXCEPT !.state = "on", !.op = op, !.turn = "call", !.of = Pair(r1, r2)]
  /\ UNCHANGED <<index, rec>>

\* isSubset begins: its record's flag tells a cycle, else it makes an iterator.
Enter ==
  /\ cmp.state = "on" /\ cmp.turn = "call"
  /\ cmp' = IF rec[cmp.of.r1].rcu
            THEN [cmp EXCEPT !.turn = "return", !.cyclic = TRUE, !.isSub = FALSE]
            ELSE [cmp EXCEPT !.turn = "walk",
                             !.stack = Append(@, [of |-> cmp.of, todo |-> Keys(cmp.of.r1),
                                                  sep |-> rec[cmp.of.r1].sep])]
  /\ UNCHANGED <<index, rec>>

\* The iterator cannot be allocated: the error leaves every isSubset at once.
EnterFails ==
  /\ cmp.state = "on" /\ cmp.turn = "call" /\ "compare" \in Fails
  /\ ~rec[cmp.of.r1].rcu
  /\ cmp' = [Idle EXCEPT !.state = "failed"]
  /\ UNCHANGED <<index, rec>>

\* isSubset returns to its caller.
ReturnWith(sub) == [cmp EXCEPT !.turn = "return", !.isSub = sub, !.of = TopFrame.of, !.stack = Popped]

\* (Faulty: the iterator does not advance; CompareEnds.)
MutLeft(f, k) == f.todo
Left(f, k) == f.todo \ {k}

\* Two values of one type that are not the same are told apart if they are
\* strings, and compared in depth if they are records.
Walk(k) ==
  LET f == TopFrame
      val == Get(f.of.r1, k)
      oth == Get(f.of.r2, k)
      on == [cmp EXCEPT !.stack = Popped \o <<[f EXCEPT !.todo = Left(f, k)]>>]
  IN /\ cmp.state = "on" /\ cmp.turn = "walk" /\ k \in f.todo
     /\ \/ /\ TypeName(val) # TypeName(oth) \/ (val \in StrVal /\ val # oth)
           /\ cmp' = ReturnWith(FALSE) /\ UNCHANGED rec
        \/ /\ val = oth \/ {val, oth} \subseteq IntVal
           /\ cmp' = on /\ UNCHANGED rec
        \/ /\ val # oth /\ {val, oth} \subseteq Rec
           /\ rec' = [rec EXCEPT ![f.of.r1] = [@ EXCEPT !.rcu = TRUE, !.sep = f.sep]]
           /\ cmp' = [on EXCEPT !.turn = "call", !.of = Pair(val, oth)]
     /\ UNCHANGED index

WalkEnds ==
  /\ cmp.state = "on" /\ cmp.turn = "walk" /\ TopFrame.todo = {}
  /\ cmp' = ReturnWith(TRUE)
  /\ UNCHANGED <<index, rec>>

\* (Faulty: the flag stays after the comparison; CycleIsRight.)
MutFlagsAfter(x) == [x EXCEPT !.sep = FALSE, !.rcu = TRUE]
\* The flags after the comparison of a value: & !RCU_FLAG_MASK clears them all.
FlagsAfter(x) == [x EXCEPT !.rcu = FALSE, !.sep = FALSE]

\* areEqual has compared a value of the record below.
ReturnToWalk ==
  LET eq == cmp.isSub /\ ~cmp.cyclic /\ Count(cmp.of.r1) = Count(cmp.of.r2)
  IN /\ cmp.state = "on" /\ cmp.turn = "return" /\ cmp.stack # <<>>
     /\ rec' = [rec EXCEPT ![TopFrame.of.r1] = FlagsAfter(@)]
     /\ cmp' = IF eq THEN [cmp EXCEPT !.turn = "walk"] ELSE ReturnWith(FALSE)
     /\ UNCHANGED index

\* (Faulty: a record is not less or equal when it has as many keys; NoIsRight.)
MutCountsAgree(op, r1, r2) ==
  IF op = "equal" THEN Count(r1) = Count(r2) ELSE Count(r1) < Count(r2)
CountsAgree(op, r1, r2) ==
  CASE op = "equal" -> Count(r1) = Count(r2)
    [] op = "less" -> Count(r1) < Count(r2)
    [] OTHER -> Count(r1) <= Count(r2)

ReturnToCaller ==
  /\ cmp.state = "on" /\ cmp.turn = "return" /\ cmp.stack = <<>>
  /\ cmp' = [cmp EXCEPT !.state = "done",
               !.isSub = @ /\ CountsAgree(cmp.op, cmp.of.r1, cmp.of.r2)]
  /\ UNCHANGED <<index, rec>>

\* The caller has its answer, or its error.
Answer ==
  /\ cmp.state \in {"done", "failed"} /\ cmp' = Idle
  /\ UNCHANGED <<index, rec>>

CompareStep ==
  \/ Enter \/ EnterFails \/ \E k \in Key : Walk(k)
  \/ WalkEnds \/ ReturnToWalk \/ ReturnToCaller \/ Answer

Next ==
  \/ \E r \in Rec : \/ \E i \in Idx : MakeRec(r, i)
                    \/ RecSep(r) \/ RecDefOverruns(r)
                    \/ \E k \in Key : \/ RecDefFails(r, k)
                                      \/ \E v \in Val \union {Udf} : RecDef(r, k, v) \/ RecSet(r, k, v)
  \/ \E op \in {"equal", "less", "lessOrEqual"}, r1, r2 \in Rec : Compare(op, r1, r2)
  \/ CompareStep

Spec == Init /\ [][Next]_vars
FairSpec == Spec /\ WF_vars(CompareStep)

-------------------------------------------------------------------------------
(* What records are for. *)

TypeOK ==
  /\ index \in [Idx -> Seq(Key)]
  /\ \A i \in Idx : IsInjective(index[i])
  /\ \A r \in Made :
       /\ rec[r].idx \in Idx /\ rec[r].row \in Row
       /\ rec[r].sep \in BOOLEAN /\ rec[r].rcu \in BOOLEAN
       /\ rec[r].vals \in [DOMAIN rec[r].vals -> Val \union {Udf}]
  /\ cmp.state \in {"idle", "on", "done", "failed"}
  /\ cmp.turn \in {"none", "call", "walk", "return"}
  /\ \A f \in Range(cmp.stack) : f.todo \subseteq Key

\* A record is a map of its own: what recGet finds in it is what was defined
\* and set in it, though records share indices whose keys any of them adds to,
\* and though a definition fails after its key has been added.
Gets == {<<r, k, Get(r, k)>> : r \in Made, k \in Key}
Store == INSTANCE Fields WITH fields <- {f \in Gets : f[3] # Udf}
IsolatesRecords == Store!Spec

\* The slots a record says it has are the slots that were allocated, and each
\* defined one has a key: scanRec, recCount and finlRec go by the row alone.
SlotsExist == \A r \in Made : IsSound(rec[r]) /\ Count(r) = Cardinality(Keys(r))

\* The flags against cycles are those of the calls of isSubset that wait for
\* the comparison of a value, and when no comparison runs there are none, so
\* that a later one does not take them for a cycle (taz_record.c:21-23).
Waiting ==
  LET depth == Len(cmp.stack) - (IF cmp.turn = "walk" THEN 1 ELSE 0)
  IN IF cmp.state # "on" THEN {} ELSE {cmp.stack[i].of.r1 : i \in 1 .. depth}
FlagsFollowCalls == {r \in Made : rec[r].rcu} = Waiting

\* The record is reached from itself, or leads to one that is.
Values(r) == {Get(r, k) : k \in Key} \intersect Rec
Leads(S) == Reach(Made, S, [r \in Made |-> Values(r)])
IsCyclic(r) == \E s \in Leads({r}) : s \in Leads(Values(s))

\* What the first record has, the second has too, where records that `same' relates
\* count as equal.  Same is the greatest relation of records that are equal to any
\* depth: the reference for isSubset and areEqual.
Agree(r1, r2, same) ==
  \A k \in Keys(r1) : Get(r1, k) = Get(r2, k) \/ <<Get(r1, k), Get(r2, k)>> \in same
Alike(same) == \A p \in same : Keys(p[1]) = Keys(p[2]) /\ Agree(p[1], p[2], same)
Same == UNION {S \in SUBSET (Made \X Made) : Alike(S)}
Holds(op, r1, r2) ==
  /\ Agree(r1, r2, Same)
  /\ op = "equal" => Keys(r1) = Keys(r2)
  /\ op = "less" => Keys(r1) # Keys(r2)

Answered == cmp.state = "done" /\ ~cmp.cyclic

\* A comparison that says no is right, whatever the records share and in which
\* order their keys are met, and one that reports a cycle has found one.
NoIsRight == Answered /\ ~cmp.isSub => ~Holds(cmp.op, cmp.of.r1, cmp.of.r2)
CycleIsRight == cmp.state = "done" /\ cmp.cyclic => IsCyclic(cmp.of.r1)

\* A comparison that says yes is right: isSubset ends with "no" on a value that
\* is not equal, "isSub = false; break;" (taz_record.c:305-312, 317).
YesIsRight == Answered /\ cmp.isSub => Holds(cmp.op, cmp.of.r1, cmp.of.r2)

\* "The bit masked by `SEP_FLAG_MASK` indicates that the record has been marked
\* for 'separation' from its index; so its current index pointer will be
\* replaced with a new index when the next definition to the record is
\* requested" (taz_record.c:18-21): a comparison leaves the mark alone.
ComparesWithoutTrace == [][cmp'.state = "on" => \A r \in Made : rec'[r].sep = rec[r].sep]_vars

\* A comparison comes to an end, on records with cycles too.
CompareEnds == cmp.state = "on" ~> cmp.state = "idle"
===============================================================================
