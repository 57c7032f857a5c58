----------------------------- MODULE RecordProofs -----------------------------
(***************************************************************************)
(* Proofs about Record, for every set of records, indices, keys and values *)
(* and every table of capacities: that records which share an index are    *)
(* independent, that their slots are those of their keys, and that what a  *)
(* comparison answers is right.                                            *)
(***************************************************************************)
EXTENDS Record, SequenceTheorems, FiniteSetTheorems, TLAPS

-------------------------------------------------------------------------------
(* Reach is the least closed set of objects that holds the roots. *)

\* The roots can be reached.
LEMMA ReachRoots ==
  ASSUME NEW objs, NEW from \in SUBSET objs, NEW to
  PROVE  from \subseteq Reach(objs, from, to)
BY DEF Reach

\* What a reachable object refers to can be reached.
LEMMA ReachClosed ==
  ASSUME NEW objs, NEW from, NEW to \in [objs -> SUBSET objs]
  PROVE  Closed(Reach(objs, from, to), to)
<1>1. SUFFICES ASSUME NEW o \in Reach(objs, from, to), NEW p \in to[o],
                      NEW S \in SUBSET objs, from \subseteq S, Closed(S, to)
               PROVE  p \in S
  BY DEF Closed, Reach
<1>2. o \in S
  BY <1>1 DEF Reach
<1>3. QED
  BY <1>1, <1>2 DEF Closed

\* Nothing else can: a closed set that holds the roots holds all of it.
LEMMA ReachLeast ==
  ASSUME NEW objs, NEW from, NEW to, NEW S \in SUBSET objs, from \subseteq S, Closed(S, to)
  PROVE  Reach(objs, from, to) \subseteq S
BY DEF Reach

\* Reach names objects only.
LEMMA ReachType ==
  ASSUME NEW objs, NEW from, NEW to
  PROVE  Reach(objs, from, to) \subseteq objs
BY DEF Reach

-------------------------------------------------------------------------------
(* Rows and locs. *)

LEMMA MinIs ==
  ASSUME NEW S \in SUBSET Nat, S # {}
  PROVE  Min(S) \in S /\ \A n \in S : Min(S) <= n
<1>1. \E n \in S : \A m \in S : <<m, n>> \notin OpToRel(<, Nat)
  BY NatLessThanWellFounded, WFMin, Zenon
<1>2. PICK n \in S : \A m \in S : ~(m < n)
  BY <1>1 DEF OpToRel
<1>3. \A m \in S : n <= m
  BY <1>2
<1>4. QED
  BY <1>3 DEF Min

\* The last row has room for every key.
MaxRow == Len(ValsCap)
LEMMA RowForIs ==
  ASSUME NEW n \in Nat, n <= ValsCap[MaxRow]
  PROVE  RowFor(n) \in Row /\ ValsCap[RowFor(n)] >= n
<1> DEFINE S == {r \in Row : ValsCap[r] >= n}
<1>1. MaxRow \in Row /\ ValsCap \in [Row -> Nat] /\ Row \subseteq Nat
  BY RecordAssumption DEF MaxRow, Row
<1>2. S \subseteq Nat /\ S # {}
  BY <1>1
<1>3. Min(S) \in S
  <2> HIDE DEF S
  <2>1. QED
    BY <1>2, MinIs
<1>4. QED
  BY <1>3 DEF RowFor

\* The keys of an index.
Keyed(keys) == keys \in Seq(Key) /\ IsInjective(keys)

LEMMA LocIs ==
  ASSUME NEW keys, Keyed(keys), NEW k
  PROVE  /\ Loc(keys, k) \in Int /\ -1 <= Loc(keys, k) /\ Loc(keys, k) < Len(keys)
         /\ Loc(keys, k) # -1 => Loc(keys, k) \in Nat /\ keys[Loc(keys, k) + 1] = k
         /\ \A j \in 1 .. Len(keys) : keys[j] = k => Loc(keys, k) = j - 1
         /\ Len(keys) \in Nat
<1> DEFINE places == {j \in 1 .. Len(keys) : keys[j] = k}
<1>1. keys \in Seq(Key) /\ DOMAIN keys = 1 .. Len(keys) /\ Len(keys) \in Nat
  BY DEF Keyed
<1>2. Loc(keys, k) = IF places = {} THEN -1 ELSE (CHOOSE j \in places : TRUE) - 1
  BY <1>1 DEF Loc
<1>3. CASE places = {}
  <2>1. \A j \in 1 .. Len(keys) : keys[j] # k
    BY <1>3
  <2>2. Loc(keys, k) = -1
    BY <1>2, <1>3
  <2>3. QED
    BY <1>1, <2>1, <2>2
<1>4. CASE places # {}
  <2> DEFINE j == CHOOSE i \in places : TRUE
  <2>1. j \in places
    BY <1>4
  <2>2. j \in 1 .. Len(keys) /\ keys[j] = k /\ Loc(keys, k) = j - 1
    BY <1>2, <1>4, <2>1
  <2>3. \A i \in 1 .. Len(keys) : keys[i] = k => i = j
    BY <1>1, <2>2 DEF Keyed, IsInjective
  <2> HIDE DEF j, places
  <2>4. QED
    BY <1>1, <2>2, <2>3
<1>5. QED
  BY <1>3, <1>4

LEMMA FewKeys ==
  ASSUME NEW keys, Keyed(keys)
  PROVE  Len(keys) \in Nat /\ Len(keys) <= ValsCap[MaxRow]
<1>1. keys \in Seq(Key) /\ DOMAIN keys = 1 .. Len(keys) /\ Len(keys) \in Nat
  BY DEF Keyed
<1>2. keys \in Injection(1 .. Len(keys), Key)
  BY <1>1 DEF Keyed, IsInjective, Injection
<1>3. Cardinality(1 .. Len(keys)) <= Cardinality(Key) /\ Cardinality(Key) \in Nat
  BY <1>2, RecordAssumption, FS_Injection, FS_CardinalityType
<1>4. Cardinality(1 .. Len(keys)) = Len(keys)
  BY <1>1, FS_Interval
<1>5. ValsCap[MaxRow] \in Nat /\ Cardinality(Key) <= ValsCap[MaxRow]
  BY RecordAssumption DEF MaxRow
<1>6. QED
  BY <1>1, <1>3, <1>4, <1>5

\* An index after an insertion.
LEMMA AppendKeyed ==
  ASSUME NEW keys, Keyed(keys), NEW k \in Key, Loc(keys, k) = -1
  PROVE  /\ Keyed(Append(keys, k)) /\ Len(Append(keys, k)) = Len(keys) + 1
         /\ Loc(Append(keys, k), k) = Len(keys)
         /\ \A l \in Key \ {k} : Loc(Append(keys, k), l) = Loc(keys, l)
<1> DEFINE new == Append(keys, k)
           n == Len(keys)
<1>1. keys \in Seq(Key) /\ n \in Nat /\ DOMAIN keys = 1 .. n
  BY DEF Keyed
<1>2. /\ new \in Seq(Key) /\ Len(new) = n + 1 /\ DOMAIN new = 1 .. n + 1
      /\ new[n + 1] = k /\ \A i \in 1 .. n : new[i] = keys[i]
  BY <1>1
<1>3. \A i \in 1 .. n : keys[i] # k
  <2>1. \A i \in 1 .. n : keys[i] = k => -1 = i - 1
    BY LocIs
  <2> HIDE DEF n
  <2>2. QED
    BY <1>1, <2>1
<1> HIDE DEF new, n
<1>4. IsInjective(new)
  <2>1. SUFFICES ASSUME NEW a \in 1 .. n + 1, NEW b \in 1 .. n + 1, new[a] = new[b]
                 PROVE  a = b
    BY <1>2 DEF IsInjective
  <2>2. CASE a \in 1 .. n /\ b \in 1 .. n
    BY <1>1, <1>2, <2>1, <2>2 DEF Keyed, IsInjective
  <2>3. CASE a = n + 1 \/ b = n + 1
    BY <1>1, <1>2, <1>3, <2>1, <2>3
  <2>4. QED
    BY <1>1, <2>2, <2>3
<1>5. Keyed(new)
  BY <1>2, <1>4 DEF Keyed
<1>6. Loc(new, k) = n
  <2>1. n \in Nat /\ Len(new) = n + 1 /\ new[n + 1] = k
    BY <1>1, <1>2
  <2>2. \A j \in 1 .. Len(new) : new[j] = k => Loc(new, k) = j - 1
    BY <1>5, LocIs
  <2>3. QED
    BY <2>1, <2>2
<1>7. ASSUME NEW l \in Key \ {k} PROVE Loc(new, l) = Loc(keys, l)
  <2>1. CASE Loc(keys, l) = -1
    <3>1. \A i \in 1 .. n : keys[i] # l
      <4>1. \A i \in 1 .. n : keys[i] = l => -1 = i - 1
        BY <2>1, LocIs DEF n
      <4>2. QED
        BY <1>1, <4>1
    <3>2. \A i \in 1 .. n + 1 : new[i] # l
      BY <1>1, <1>2, <3>1
    <3>3. Loc(new, l) # -1 => Loc(new, l) + 1 \in 1 .. n + 1 /\ new[Loc(new, l) + 1] = l
      <4>1. /\ Loc(new, l) \in Int /\ Loc(new, l) < n + 1
            /\ Loc(new, l) # -1 => Loc(new, l) \in Nat /\ new[Loc(new, l) + 1] = l
        BY <1>2, <1>5, LocIs
      <4>2. QED
        BY <1>1, <4>1
    <3>4. QED
      BY <2>1, <3>2, <3>3
  <2>2. CASE Loc(keys, l) # -1
    <3>1. /\ Loc(keys, l) \in Nat /\ Loc(keys, l) < n
          /\ keys[Loc(keys, l) + 1] = l
      BY <2>2, LocIs DEF n
    <3>2. Loc(keys, l) + 1 \in 1 .. n + 1 /\ Loc(keys, l) + 1 \in 1 .. n
      BY <1>1, <3>1
    <3>3. new[Loc(keys, l) + 1] = l
      BY <1>2, <3>1, <3>2
    <3>4. Loc(new, l) = Loc(keys, l) + 1 - 1
      BY <1>2, <1>5, <3>2, <3>3, LocIs
    <3>5. QED
      BY <3>1, <3>4
  <2>3. QED
    BY <2>1, <2>2
<1>8. QED
  BY <1>2, <1>5, <1>6, <1>7 DEF new, n

IndexOK == index \in [Idx -> Seq(Key)] /\ \A i \in Idx : IsInjective(index[i])

\* What an insertion into one of the indices leaves.
LEMMA WithKeyIs ==
  ASSUME IndexOK, NEW i \in Idx, NEW k \in Key
  PROVE  /\ WithKey(i, k) \in [Idx -> Seq(Key)]
         /\ \A j \in Idx : Keyed(index[j]) /\ Keyed(WithKey(i, k)[j])
         /\ \A j \in Idx : Len(index[j]) \in Nat /\ Len(index[j]) <= Len(WithKey(i, k)[j])
         /\ \A j \in Idx, l \in Key :
              j # i \/ l # k => Loc(WithKey(i, k)[j], l) = Loc(index[j], l)
         /\ Loc(WithKey(i, k)[i], k) \in Nat
         /\ Loc(WithKey(i, k)[i], k) < Len(WithKey(i, k)[i])
         /\ \/ Loc(WithKey(i, k)[i], k) = Loc(index[i], k)
            \/ Loc(index[i], k) = -1 /\ Loc(WithKey(i, k)[i], k) = Len(index[i])
<1>1. \A j \in Idx : Keyed(index[j]) /\ Len(index[j]) \in Nat
  BY DEF IndexOK, Keyed
<1>2. CASE Contains(index[i], k)
  <2>1. WithKey(i, k) = index
    BY <1>2 DEF WithKey
  <2>2. PICK p \in 1 .. Len(index[i]) : index[i][p] = k
    BY <1>2 DEF Contains
  <2>3. Loc(index[i], k) = p - 1
    BY <1>1, <2>2, LocIs
  <2>4. \A j \in Idx : Len(index[j]) <= Len(index[j])
    BY <1>1
  <2>5. Loc(index[i], k) \in Nat /\ Loc(index[i], k) < Len(index[i])
    BY <1>1, <2>2, <2>3
  <2>6. QED
    BY <1>1, <2>1, <2>4, <2>5 DEF IndexOK
<1>3. CASE ~Contains(index[i], k)
  <2>1. WithKey(i, k) = [index EXCEPT ![i] = Append(index[i], k)]
    BY <1>3 DEF WithKey
  <2>2. Loc(index[i], k) = -1
    <3>1. \A p \in 1 .. Len(index[i]) : index[i][p] # k
      BY <1>3 DEF Contains
    <3>2. /\ Loc(index[i], k) \in Int /\ Loc(index[i], k) < Len(index[i])
          /\ Loc(index[i], k) # -1 => Loc(index[i], k) \in Nat /\ index[i][Loc(index[i], k) + 1] = k
      BY <1>1, LocIs
    <3>3. QED
      BY <1>1, <3>1, <3>2
  <2>3. /\ Keyed(Append(index[i], k)) /\ Len(Append(index[i], k)) = Len(index[i]) + 1
        /\ Loc(Append(index[i], k), k) = Len(index[i])
        /\ \A l \in Key \ {k} : Loc(Append(index[i], k), l) = Loc(index[i], l)
    BY <1>1, <2>2, AppendKeyed
  <2>4. WithKey(i, k)[i] = Append(index[i], k)
    BY <2>1 DEF IndexOK
  <2>5. \A j \in Idx \ {i} : WithKey(i, k)[j] = index[j]
    BY <2>1 DEF IndexOK
  <2>6. WithKey(i, k) \in [Idx -> Seq(Key)]
    BY <2>1, <2>3 DEF IndexOK, Keyed
  <2>7. ASSUME NEW j \in Idx
        PROVE  Keyed(WithKey(i, k)[j]) /\ Len(index[j]) <= Len(WithKey(i, k)[j])
    <3>1. CASE j = i
      <4>1. Len(index[i]) <= Len(index[i]) + 1
        BY <1>1
      <4>2. QED
        BY <2>3, <2>4, <3>1, <4>1
    <3>2. CASE j # i
      <4>1. Len(index[j]) <= Len(index[j])
        BY <1>1
      <4>2. QED
        BY <1>1, <2>5, <3>2, <4>1
    <3>3. QED
      BY <3>1, <3>2
  <2>8. Len(index[i]) < Len(index[i]) + 1
    BY <1>1
  <2>9. QED
    BY <1>1, <2>2, <2>3, <2>4, <2>5, <2>6, <2>7, <2>8
<1>4. QED
  BY <1>2, <1>3

-------------------------------------------------------------------------------
(* Records. *)

Array == UNION {[0 .. n - 1 -> Val \union {Udf}] : n \in Nat}
RecType == [idx : Idx, sep : BOOLEAN, rcu : BOOLEAN, row : Row, vals : Array]

RecOK ==
  /\ rec \in [Rec -> RecType \union {Null}]
  /\ \A r \in Made : \A l \in DOMAIN rec[r].vals : Held(rec[r].vals[l])

LEMMA NotNull == ASSUME NEW x \in RecType PROVE x # Null
BY RecordAssumption DEF RecType, Row, Null

LEMMA MadeType ==
  ASSUME RecOK, NEW r \in Made
  PROVE  r \in Rec /\ rec[r] \in RecType
BY DEF RecOK, Made

LEMMA Fields ==
  ASSUME NEW x \in RecType
  PROVE  /\ x = [idx |-> x.idx, sep |-> x.sep, rcu |-> x.rcu, row |-> x.row, vals |-> x.vals]
         /\ x.idx \in Idx /\ x.sep \in BOOLEAN /\ x.rcu \in BOOLEAN
         /\ x.row \in Row /\ x.vals \in Array
BY DEF RecType

LEMMA ArrayIs ==
  ASSUME NEW a \in Array
  PROVE  /\ \E n \in Nat : DOMAIN a = 0 .. n - 1
         /\ \A l \in DOMAIN a : a[l] \in Val \union {Udf}
         /\ a \in [DOMAIN a -> Val \union {Udf}]
         /\ IsFiniteSet(DOMAIN a) /\ DOMAIN a \subseteq Nat
<1>1. PICK n \in Nat : a \in [0 .. n - 1 -> Val \union {Udf}]
  BY DEF Array
<1>2. DOMAIN a = 0 .. n - 1
  BY <1>1
<1>3. IsFiniteSet(0 .. n - 1)
  BY FS_Interval
<1>4. QED
  BY <1>1, <1>2, <1>3

LEMMA ArraySet ==
  ASSUME NEW a \in Array, NEW l, NEW v \in Val \union {Udf}
  PROVE  /\ [a EXCEPT ![l] = v] \in Array /\ DOMAIN [a EXCEPT ![l] = v] = DOMAIN a
         /\ l \in DOMAIN a => [a EXCEPT ![l] = v][l] = v
         /\ \A m \in DOMAIN a : m # l => [a EXCEPT ![l] = v][m] = a[m]
<1>1. PICK n \in Nat : a \in [0 .. n - 1 -> Val \union {Udf}]
  BY DEF Array
<1>2. [a EXCEPT ![l] = v] \in [0 .. n - 1 -> Val \union {Udf}]
  BY <1>1
<1>3. QED
  BY <1>1, <1>2 DEF Array

\* A record with other fields.
LEMMA Refilled ==
  ASSUME NEW x, NEW i, NEW s, NEW c, NEW r, NEW v, NEW t, NEW q, NEW w,
         x = [idx |-> i, sep |-> s, rcu |-> c, row |-> r, vals |-> v]
  PROVE  [x EXCEPT !.sep = t, !.row = q, !.vals = w] =
           [idx |-> i, sep |-> t, rcu |-> c, row |-> q, vals |-> w]
<1> DEFINE z == [x EXCEPT !.sep = t]
           u == [z EXCEPT !.row = q]
<1>1. [x EXCEPT !.sep = t, !.row = q, !.vals = w] = [u EXCEPT !.vals = w]
  OBVIOUS
<1>2. z = [idx |-> i, sep |-> t, rcu |-> c, row |-> r, vals |-> v]
  OBVIOUS
<1> HIDE DEF z
<1>3. u = [idx |-> i, sep |-> t, rcu |-> c, row |-> q, vals |-> v]
  BY <1>2
<1> HIDE DEF u
<1>4. [u EXCEPT !.vals = w] = [idx |-> i, sep |-> t, rcu |-> c, row |-> q, vals |-> w]
  BY <1>3
<1>5. QED
  BY <1>1, <1>4

\* Setting flags, or an element of the array.
LEMMA FlagsSet ==
  ASSUME NEW x \in RecType, NEW s \in BOOLEAN, NEW c \in BOOLEAN,
         NEW y, y = [x EXCEPT !.rcu = c, !.sep = s] \/ (y = [x EXCEPT !.sep = s] /\ c = x.rcu)
  PROVE  /\ y \in RecType /\ y.idx = x.idx /\ y.row = x.row /\ y.vals = x.vals
         /\ y.rcu = c /\ y.sep = s
BY Fields DEF RecType

LEMMA ValSet ==
  ASSUME NEW x \in RecType, NEW l, NEW v \in Val \union {Udf}
  PROVE  /\ [x EXCEPT !.vals[l] = v] \in RecType
         /\ [x EXCEPT !.vals[l] = v] =
              [idx |-> x.idx, sep |-> x.sep, rcu |-> x.rcu, row |-> x.row,
               vals |-> [x.vals EXCEPT ![l] = v]]
<1>1. /\ x = [idx |-> x.idx, sep |-> x.sep, rcu |-> x.rcu, row |-> x.row, vals |-> x.vals]
      /\ x.vals \in Array
  BY Fields
<1>2. [x EXCEPT !.vals[l] = v] =
        [idx |-> x.idx, sep |-> x.sep, rcu |-> x.rcu, row |-> x.row,
         vals |-> [x.vals EXCEPT ![l] = v]]
  BY <1>1
<1>3. [x.vals EXCEPT ![l] = v] \in Array
  BY <1>1, ArraySet
<1>4. QED
  BY <1>2, <1>3, Fields DEF RecType

\* A record is stored.
LEMMA Stored ==
  ASSUME RecOK, NEW r \in Rec, NEW x \in RecType, rec' = [rec EXCEPT ![r] = x],
         \A l \in DOMAIN x.vals : x.vals[l] \in Rec => x.vals[l] \in Made \union {r}
  PROVE  RecOK' /\ Made' = Made \union {r} /\ rec'[r] = x /\ \A s \in Rec \ {r} : rec'[s] = rec[s]
<1>1. rec' \in [Rec -> RecType \union {Null}] /\ rec'[r] = x /\ \A s \in Rec \ {r} : rec'[s] = rec[s]
  BY DEF RecOK
<1>2. x # Null
  BY NotNull
<1>3. Made' = Made \union {r}
  BY <1>1, <1>2 DEF Made
<1>4. ASSUME NEW s \in Made', NEW l \in DOMAIN rec'[s].vals
      PROVE  rec'[s].vals[l] \in Rec => rec'[s].vals[l] \in Made'
  <2>1. CASE s = r
    BY <1>1, <1>3, <1>4, <2>1 DEF Held
  <2>2. CASE s # r
    <3>1. s \in Made /\ rec'[s] = rec[s]
      BY <1>1, <1>3, <2>2 DEF Made
    <3>2. Held(rec[s].vals[l])
      BY <1>4, <3>1 DEF RecOK
    <3>3. QED
      BY <1>3, <3>1, <3>2 DEF Held
  <2>3. QED
    BY <2>1, <2>2
<1>5. QED
  BY <1>1, <1>3, <1>4 DEF RecOK, Held

-------------------------------------------------------------------------------
(* Slots. *)

LEMMA CapIs ==
  ASSUME NEW x \in RecType
  PROVE  CapOf(x) \in Nat /\ CapOf(x) >= 1
<1>1. x.row \in Row /\ ValsCap \in Seq(Nat \ {0}) /\ Row = 1 .. Len(ValsCap)
  BY Fields, RecordAssumption DEF Row
<1>2. ValsCap[x.row] \in Nat \ {0}
  BY <1>1
<1>3. QED
  BY <1>2 DEF CapOf

\* The array of a sound record.
LEMMA SoundSlots ==
  ASSUME NEW x \in RecType, IsSound(x), NEW l \in Int
  PROVE  /\ l \in DOMAIN x.vals <=> 0 <= l /\ l < CapOf(x)
         /\ l \in DOMAIN x.vals => FieldAt(x, l) = x.vals[l]
         /\ l \notin DOMAIN x.vals => FieldAt(x, l) = Udf
<1>1. CapOf(x) \in Nat
  BY CapIs
<1>2. QED
  BY <1>1 DEF IsSound, FieldAt

LEMMA FieldType ==
  ASSUME NEW x \in RecType, NEW l
  PROVE  /\ FieldAt(x, l) \in Val \union {Udf}
         /\ FieldAt(x, l) # Udf => l \in DOMAIN x.vals /\ FieldAt(x, l) = x.vals[l]
<1>1. x.vals \in Array
  BY Fields
<1>2. QED
  BY <1>1, ArrayIs DEF FieldAt

\* Growth leaves the fields, and makes room for the loc.
LEMMA GrownIs ==
  ASSUME NEW x \in RecType, IsSound(x), NEW l \in Nat, l + 1 <= ValsCap[MaxRow]
  PROVE  /\ Grown(x, l) \in RecType /\ IsSound(Grown(x, l))
         /\ Grown(x, l).idx = x.idx /\ Grown(x, l).sep = x.sep /\ Grown(x, l).rcu = x.rcu
         /\ l \in DOMAIN Grown(x, l).vals
         /\ DOMAIN x.vals \subseteq DOMAIN Grown(x, l).vals
         /\ \A m \in DOMAIN Grown(x, l).vals :
              Grown(x, l).vals[m] = IF m \in DOMAIN x.vals THEN x.vals[m] ELSE Udf
<1>1. CapOf(x) \in Nat /\ DOMAIN x.vals = 0 .. CapOf(x) - 1
  BY CapIs DEF IsSound
<1>2. CASE l < CapOf(x)
  <2>1. Grown(x, l) = x
    BY <1>2 DEF Grown
  <2>2. l \in DOMAIN x.vals
    BY <1>1, <1>2
  <2>3. QED
    BY <2>1, <2>2
<1>3. CASE ~(l < CapOf(x))
  <2> DEFINE row == RowFor(l + 1)
             new == [m \in 0 .. ValsCap[row] - 1 |-> NewSlot(x, m)]
  <2>1. l + 1 \in Nat
    OBVIOUS
  <2>2. row \in Row /\ ValsCap[row] >= l + 1
    BY <2>1, RowForIs
  <2> HIDE DEF row
  <2>3. ValsCap[row] \in Nat
    BY <2>2, RecordAssumption DEF Row
  <2>4. Grown(x, l) = [x EXCEPT !.row = row, !.vals = new]
    BY <1>3 DEF Grown, row
  <2>5. Grown(x, l) = [idx |-> x.idx, sep |-> x.sep, rcu |-> x.rcu, row |-> row, vals |-> new]
    BY <2>4, Fields
  <2>6. \A m : NewSlot(x, m) \in Val \union {Udf}
    <3>1. \A m \in DOMAIN x.vals : x.vals[m] \in Val \union {Udf}
      BY Fields, ArrayIs
    <3>2. QED
      BY <3>1 DEF NewSlot
  <2>7. new \in Array
    <3>1. new \in [0 .. ValsCap[row] - 1 -> Val \union {Udf}]
      BY <2>6
    <3> HIDE DEF new
    <3>2. QED
      BY <2>3, <3>1 DEF Array
  <2>8. Grown(x, l) \in RecType
    BY <2>2, <2>5, <2>7, Fields DEF RecType
  <2>9. CapOf(Grown(x, l)) = ValsCap[row] /\ DOMAIN new = 0 .. ValsCap[row] - 1
    BY <2>5 DEF CapOf
  <2>10. IsSound(Grown(x, l))
    BY <2>5, <2>9 DEF IsSound
  <2>11. l \in 0 .. ValsCap[row] - 1 /\ 0 .. CapOf(x) - 1 \subseteq 0 .. ValsCap[row] - 1
    BY <1>1, <1>3, <2>2, <2>3
  <2>12. \A m \in DOMAIN new : new[m] = IF m \in DOMAIN x.vals THEN x.vals[m] ELSE Udf
    BY DEF NewSlot
  <2> HIDE DEF new
  <2>13. QED
    BY <1>1, <2>5, <2>8, <2>9, <2>10, <2>11, <2>12
<1>4. QED
  BY <1>2, <1>3

\* What a record is like before a definition.
LEMMA PreparedIs ==
  ASSUME NEW x \in RecType, IsSound(x), NEW y \in Prepared(x)
  PROVE  /\ y \in RecType /\ y.idx = x.idx /\ y.rcu = x.rcu
         /\ \A l \in DOMAIN y.vals : \E m \in DOMAIN x.vals : y.vals[l] = x.vals[m]
         /\ ~x.sep => y = x
<1>1. CASE ~x.sep
  <2>1. y = x
    BY <1>1 DEF Prepared
  <2>2. QED
    BY <2>1
<1>2. CASE x.sep
  <2> DEFINE used == {i \in DOMAIN x.vals : x.vals[i] # Udf}
             n == Cardinality(used)
             rows == {x.row} \union {r \in Row : ValsCap[r] >= n}
             new(order) == [l \in 0 .. n - 1 |-> x.vals[order[l + 1]]]
  <2>1. n \in Nat
    <3>1. IsFiniteSet(DOMAIN x.vals)
      BY Fields, ArrayIs
    <3>2. QED
      BY <3>1, FS_Subset, FS_CardinalityType
  <2>2. PICK order \in [1 .. n -> used] :
               y = [x EXCEPT !.sep = FALSE, !.row = Min(rows), !.vals = new(order)]
    BY <1>2 DEF Prepared, SeparatedWays
  <2>3. Min(rows) \in Row
    <3>1. rows \subseteq Row /\ rows # {} /\ Row \subseteq Nat
      BY Fields, RecordAssumption DEF Row
    <3> HIDE DEF rows
    <3>2. QED
      BY <3>1, MinIs
  <2>4. \A l \in 0 .. n - 1 : l + 1 \in 1 .. n
    BY <2>1
  <2>5. \A l \in 0 .. n - 1 : order[l + 1] \in used
    <3> HIDE DEF used, n
    <3>1. QED
      BY <2>2, <2>4
  <2>6. \A l \in 0 .. n - 1 : order[l + 1] \in DOMAIN x.vals /\ x.vals[order[l + 1]] \in Val \union {Udf}
    BY <2>5, Fields, ArrayIs
  <2>7. new(order) \in Array
    <3> HIDE DEF n
    <3>1. QED
      BY <2>1, <2>6 DEF Array
  <2>8. y = [idx |-> x.idx, sep |-> FALSE, rcu |-> x.rcu, row |-> Min(rows), vals |-> new(order)]
    <3> DEFINE a == new(order)
    <3>1. y = [x EXCEPT !.sep = FALSE, !.row = Min(rows), !.vals = a]
      BY <2>2
    <3> HIDE DEF n, rows, a
    <3>2. y = [idx |-> x.idx, sep |-> FALSE, rcu |-> x.rcu, row |-> Min(rows), vals |-> a]
      <4>1. x = [idx |-> x.idx, sep |-> x.sep, rcu |-> x.rcu, row |-> x.row, vals |-> x.vals]
        BY Fields
      <4>2. QED
        BY <3>1, <4>1, Refilled, Zenon
    <3>3. QED
      BY <3>2 DEF a
  <2>9. y \in RecType
    <3> HIDE DEF n, rows, new
    <3>1. QED
      BY <2>3, <2>7, <2>8, Fields DEF RecType
  <2>10. y.vals = new(order) /\ y.idx = x.idx /\ y.rcu = x.rcu /\ DOMAIN y.vals = 0 .. n - 1
    BY <2>8
  <2>11. \A l \in 0 .. n - 1 : y.vals[l] = x.vals[order[l + 1]]
    BY <2>10
  <2>12. QED
    BY <1>2, <2>6, <2>9, <2>10, <2>11
<1>3. QED
  BY <1>1, <1>2

-------------------------------------------------------------------------------
(* Comparisons. *)

Pairs(S) == [r1 : S, r2 : S]
Frame == [of : Pairs(Made), todo : SUBSET Key, sep : BOOLEAN]

CmpType ==
  /\ cmp = [state |-> cmp.state, op |-> cmp.op, turn |-> cmp.turn, of |-> cmp.of,
            stack |-> cmp.stack, cyclic |-> cmp.cyclic, isSub |-> cmp.isSub]
  /\ cmp.state \in {"idle", "on", "done", "failed"}
  /\ cmp.turn \in {"none", "call", "walk", "return"}
  /\ cmp.stack \in Seq(Frame)
  /\ cmp.cyclic \in BOOLEAN /\ cmp.isSub \in BOOLEAN

CmpOK ==
  /\ CmpType
  /\ cmp.state \in {"on", "done"} => cmp.of \in Pairs(Made)
  /\ cmp.state = "on" /\ cmp.turn = "walk" => cmp.stack # <<>>
  /\ cmp.state # "on" => cmp.stack = <<>>
  /\ cmp.state = "on" => cmp.turn # "none"
  /\ cmp.state = "idle" => cmp = Idle

Typed == IndexOK /\ RecOK /\ CmpOK

LEMMA PopIs ==
  ASSUME NEW F, NEW s \in Seq(F), s # <<>>
  PROVE  /\ Len(s) \in Nat /\ Len(s) >= 1 /\ s[Len(s)] \in F
         /\ SubSeq(s, 1, Len(s) - 1) \in Seq(F)
         /\ Len(SubSeq(s, 1, Len(s) - 1)) = Len(s) - 1
         /\ \A i \in 1 .. Len(s) - 1 : SubSeq(s, 1, Len(s) - 1)[i] = s[i]
<1>1. Len(s) \in Nat /\ Len(s) >= 1 /\ s[Len(s)] \in F
  BY EmptySeq
<1>2. \A i \in 1 .. Len(s) - 1 : s[i] \in F
  BY <1>1
<1>3. 1 \in 1 .. Len(s) + 1 /\ Len(s) - 1 \in 1 - 1 .. Len(s) /\ Len(s) - 1 - 1 + 1 = Len(s) - 1
  BY <1>1
<1>4. /\ SubSeq(s, 1, Len(s) - 1) \in Seq(F)
      /\ Len(SubSeq(s, 1, Len(s) - 1)) = IF 1 <= Len(s) - 1 THEN Len(s) - 1 - 1 + 1 ELSE 0
      /\ \A i \in 1 .. Len(s) - 1 - 1 + 1 : SubSeq(s, 1, Len(s) - 1)[i] = s[1 + i - 1]
  BY <1>3, SubSeqProperties
<1>5. \A i \in 1 .. Len(s) - 1 : 1 + i - 1 = i
  BY <1>1
<1>6. QED
  BY <1>1, <1>3, <1>4, <1>5

LEMMA SetTop ==
  ASSUME NEW F, NEW s \in Seq(F), s # <<>>, NEW g \in F,
         NEW t, t = SubSeq(s, 1, Len(s) - 1) \o <<g>>
  PROVE  /\ t \in Seq(F) /\ Len(t) = Len(s) /\ t # <<>>
         /\ t[Len(s)] = g
         /\ \A i \in 1 .. Len(s) - 1 : t[i] = s[i]
<1> DEFINE p == SubSeq(s, 1, Len(s) - 1)
           n == Len(s)
<1>1. n \in Nat /\ n >= 1 /\ p \in Seq(F) /\ Len(p) = n - 1 /\ \A i \in 1 .. n - 1 : p[i] = s[i]
  BY PopIs
<1>0. t = p \o <<g>>
  OBVIOUS
<1> HIDE DEF p, n
<1>2. <<g>> \in Seq(F) /\ Len(<<g>>) = 1 /\ <<g>>[1] = g
  OBVIOUS
<1>3. p \o <<g>> \in Seq(F) /\ Len(p \o <<g>>) = n - 1 + 1
  BY <1>1, <1>2
<1>4. \A i \in 1 .. n - 1 : (p \o <<g>>)[i] = p[i]
  BY <1>1, <1>2
<1>5. (p \o <<g>>)[n] = g
  BY <1>1, <1>2
<1>6. p \o <<g>> # <<>>
  BY <1>1, <1>3
<1>7. QED
  BY <1>0, <1>1, <1>3, <1>4, <1>5, <1>6 DEF n

\* What the comparison becomes, field by field.
Becomes(state, turn, of, stack) ==
  /\ cmp'.state = state /\ cmp'.turn = turn /\ cmp'.of = of /\ cmp'.stack = stack
  /\ cmp'.op = cmp.op

LEMMA EnterIs ==
  ASSUME CmpType, Enter
  PROVE  /\ cmp.state = "on" /\ cmp.turn = "call" /\ rec' = rec /\ index' = index
         /\ CmpType' <=> cmp'.stack \in Seq(Frame)'
         /\ \/ /\ rec[cmp.of.r1].rcu
               /\ Becomes("on", "return", cmp.of, cmp.stack)
               /\ cmp'.cyclic = TRUE /\ cmp'.isSub = FALSE
            \/ /\ ~rec[cmp.of.r1].rcu
               /\ Becomes("on", "walk", cmp.of,
                          Append(cmp.stack, [of |-> cmp.of, todo |-> Keys(cmp.of.r1),
                                             sep |-> rec[cmp.of.r1].sep]))
               /\ cmp'.cyclic = cmp.cyclic /\ cmp'.isSub = cmp.isSub
BY DEF Enter, CmpType, Becomes

\* What isSubset returned, and to which frame.
LEMMA ReturnIs ==
  ASSUME CmpType, NEW sub \in BOOLEAN, cmp.state = "on", cmp' = ReturnWith(sub),
         cmp.stack # <<>>
  PROVE  /\ CmpType' <=> cmp'.stack \in Seq(Frame)'
         /\ Becomes("on", "return", TopFrame.of, Popped)
         /\ cmp'.cyclic = cmp.cyclic /\ cmp'.isSub = sub
BY DEF ReturnWith, CmpType, Becomes

LEMMA WalkIs ==
  ASSUME CmpType, NEW k \in Key, Walk(k), cmp.stack # <<>>
  PROVE  /\ cmp.state = "on" /\ cmp.turn = "walk" /\ index' = index
         /\ CmpType' <=> cmp'.stack \in Seq(Frame)'
         /\ cmp'.cyclic = cmp.cyclic
         /\ k \in TopFrame.todo
         /\ \/ /\ rec' = rec
               /\ Becomes("on", "return", TopFrame.of, Popped) /\ cmp'.isSub = FALSE
               /\ \/ TypeName(Get(TopFrame.of.r1, k)) # TypeName(Get(TopFrame.of.r2, k))
                  \/ /\ Get(TopFrame.of.r1, k) \in StrVal
                     /\ Get(TopFrame.of.r1, k) # Get(TopFrame.of.r2, k)
            \/ /\ rec' = rec
               /\ Becomes("on", "walk", cmp.of, Popped \o <<[TopFrame EXCEPT !.todo = Left(TopFrame, k)]>>)
            \/ /\ rec' = [rec EXCEPT ![TopFrame.of.r1] = [@ EXCEPT !.rcu = TRUE, !.sep = TopFrame.sep]]
               /\ Becomes("on", "call", Pair(Get(TopFrame.of.r1, k), Get(TopFrame.of.r2, k)),
                          Popped \o <<[TopFrame EXCEPT !.todo = Left(TopFrame, k)]>>)
               /\ Get(TopFrame.of.r1, k) \in Rec /\ Get(TopFrame.of.r2, k) \in Rec
               /\ Get(TopFrame.of.r1, k) # Get(TopFrame.of.r2, k)
<1> DEFINE f == TopFrame
           on == [cmp EXCEPT !.stack = Popped \o <<[f EXCEPT !.todo = Left(f, k)]>>]
           val == Get(f.of.r1, k)
           oth == Get(f.of.r2, k)
<1>1. cmp.state = "on" /\ cmp.turn = "walk" /\ k \in f.todo /\ index' = index
  BY DEF Walk
<1>2. CASE (TypeName(val) # TypeName(oth) \/ (val \in StrVal /\ val # oth))
           /\ cmp' = ReturnWith(FALSE) /\ rec' = rec
  BY <1>1, <1>2, ReturnIs
<1>3. CASE cmp' = on /\ rec' = rec
  <2> DEFINE st == Popped \o <<[f EXCEPT !.todo = Left(f, k)]>>
  <2>1. cmp' = [cmp EXCEPT !.stack = st]
    BY <1>3
  <2> HIDE DEF st
  <2>2. CmpType' <=> cmp'.stack \in Seq(Frame)'
    BY <2>1 DEF CmpType
  <2>3. Becomes("on", "walk", cmp.of, st) /\ cmp'.cyclic = cmp.cyclic
    BY <1>1, <2>1 DEF CmpType, Becomes
  <2>4. QED
    BY <1>1, <1>3, <2>2, <2>3 DEF st
<1>4. CASE /\ val # oth /\ {val, oth} \subseteq Rec
           /\ rec' = [rec EXCEPT ![f.of.r1] = [@ EXCEPT !.rcu = TRUE, !.sep = f.sep]]
           /\ cmp' = [on EXCEPT !.turn = "call", !.of = Pair(val, oth)]
  <2> DEFINE st == Popped \o <<[f EXCEPT !.todo = Left(f, k)]>>
             of == Pair(val, oth)
  <2>1. cmp' = [[cmp EXCEPT !.stack = st] EXCEPT !.turn = "call", !.of = of]
    BY <1>4
  <2> HIDE DEF st, of
  <2>2. CmpType' <=> cmp'.stack \in Seq(Frame)'
    BY <2>1 DEF CmpType
  <2>3. Becomes("on", "call", of, st) /\ cmp'.cyclic = cmp.cyclic
    BY <1>1, <2>1 DEF CmpType, Becomes
  <2>4. QED
    BY <1>1, <1>4, <2>2, <2>3 DEF st, of
<1>5. QED
  BY <1>2, <1>3, <1>4 DEF Walk

LEMMA WalkEndsIs ==
  ASSUME CmpType, WalkEnds, cmp.stack # <<>>
  PROVE  /\ cmp.state = "on" /\ cmp.turn = "walk" /\ rec' = rec /\ index' = index
         /\ CmpType' <=> cmp'.stack \in Seq(Frame)'
         /\ Becomes("on", "return", TopFrame.of, Popped)
         /\ cmp'.cyclic = cmp.cyclic /\ cmp'.isSub = TRUE
BY ReturnIs DEF WalkEnds

LEMMA ReturnToWalkIs ==
  ASSUME CmpType, ReturnToWalk
  PROVE  /\ cmp.state = "on" /\ cmp.turn = "return" /\ index' = index /\ cmp.stack # <<>>
         /\ rec' = [rec EXCEPT ![TopFrame.of.r1] = FlagsAfter(@)]
         /\ CmpType' <=> cmp'.stack \in Seq(Frame)'
         /\ cmp'.cyclic = cmp.cyclic
         /\ \/ /\ cmp.isSub /\ ~cmp.cyclic /\ Count(cmp.of.r1) = Count(cmp.of.r2)
               /\ Becomes("on", "walk", cmp.of, cmp.stack)
            \/ /\ ~(cmp.isSub /\ ~cmp.cyclic /\ Count(cmp.of.r1) = Count(cmp.of.r2))
               /\ Becomes("on", "return", TopFrame.of, Popped) /\ cmp'.isSub = FALSE
<1> DEFINE eq == cmp.isSub /\ ~cmp.cyclic /\ Count(cmp.of.r1) = Count(cmp.of.r2)
<1>1. /\ cmp.state = "on" /\ cmp.turn = "return" /\ index' = index /\ cmp.stack # <<>>
      /\ rec' = [rec EXCEPT ![TopFrame.of.r1] = FlagsAfter(@)]
      /\ cmp' = IF eq THEN [cmp EXCEPT !.turn = "walk"] ELSE ReturnWith(FALSE)
  BY DEF ReturnToWalk
<1>2. CASE eq
  <2>1. cmp' = [cmp EXCEPT !.turn = "walk"]
    BY <1>1, <1>2
  <2>2. (CmpType' <=> cmp'.stack \in Seq(Frame)') /\ cmp'.cyclic = cmp.cyclic
        /\ Becomes("on", "walk", cmp.of, cmp.stack)
    BY <1>1, <2>1 DEF CmpType, Becomes
  <2>3. QED
    BY <1>1, <1>2, <2>2
<1>3. CASE ~eq
  BY <1>1, <1>3, ReturnIs
<1>4. QED
  BY <1>2, <1>3

LEMMA ReturnToCallerIs ==
  ASSUME CmpType, ReturnToCaller
  PROVE  /\ cmp.state = "on" /\ cmp.turn = "return" /\ cmp.stack = <<>>
         /\ rec' = rec /\ index' = index
         /\ CmpType' <=> cmp'.stack \in Seq(Frame)'
         /\ Becomes("done", "return", cmp.of, cmp.stack) /\ cmp'.cyclic = cmp.cyclic
         /\ cmp'.isSub <=> cmp.isSub /\ CountsAgree(cmp.op, cmp.of.r1, cmp.of.r2)
<1> DEFINE agree == CountsAgree(cmp.op, cmp.of.r1, cmp.of.r2)
           sub == cmp.isSub /\ agree
<1>1. /\ cmp.state = "on" /\ cmp.turn = "return" /\ cmp.stack = <<>>
      /\ rec' = rec /\ index' = index
      /\ cmp' = [cmp EXCEPT !.state = "done", !.isSub = sub]
  BY DEF ReturnToCaller
<1> HIDE DEF agree
<1>2. QED
  BY <1>1 DEF CmpType, Becomes, agree

-------------------------------------------------------------------------------
(* The types. *)

LEMMA InitTyped == Init => Typed
<1>1. SUFFICES ASSUME Init PROVE Typed
  OBVIOUS
<1>2. IndexOK
  <2>1. \A i \in Idx : index[i] = <<>>
    BY <1>1 DEF Init
  <2>2. index \in [Idx -> Seq(Key)]
    BY <1>1 DEF Init
  <2>3. QED
    BY <2>1, <2>2 DEF IndexOK, IsInjective
<1>3. Made = {} /\ RecOK
  BY <1>1 DEF Init, Made, RecOK
<1>4. cmp = Idle
  BY <1>1 DEF Init
<1>5. CmpOK
  BY <1>4 DEF CmpOK, CmpType, Idle
<1>6. QED
  BY <1>2, <1>3, <1>5 DEF Typed

\* A step of the program, while nothing is compared.
LEMMA ReadyKeeps ==
  ASSUME CmpOK, Ready, UNCHANGED cmp
  PROVE  CmpOK'
<1>1. cmp = Idle /\ cmp' = Idle
  BY DEF CmpOK, Ready
<1>2. QED
  BY <1>1 DEF CmpOK, CmpType, Idle

\* A step of a comparison changes no more than flags.
OnlyFlags ==
  /\ RecOK' /\ Made' = Made /\ index' = index
  /\ \A r \in Made : /\ rec'[r] \in RecType
                     /\ rec'[r].idx = rec[r].idx /\ rec'[r].row = rec[r].row
                     /\ rec'[r].vals = rec[r].vals

LEMMA SameOnlyFlags ==
  ASSUME RecOK, rec' = rec, index' = index
  PROVE  OnlyFlags
<1>1. Made' = Made
  BY DEF Made
<1>2. RecOK'
  BY <1>1 DEF RecOK, Held
<1>3. QED
  BY <1>1, <1>2, MadeType DEF OnlyFlags

LEMMA FlagsOnlyFlags ==
  ASSUME RecOK, NEW r \in Made, NEW y \in RecType,
         y.idx = rec[r].idx, y.row = rec[r].row, y.vals = rec[r].vals,
         rec' = [rec EXCEPT ![r] = y], index' = index
  PROVE  OnlyFlags /\ rec'[r] = y /\ \A t \in Made \ {r} : rec'[t] = rec[t]
<1>1. rec[r] \in RecType /\ r \in Rec
  BY MadeType
<1>2. \A l \in DOMAIN y.vals : y.vals[l] \in Rec => y.vals[l] \in Made \union {r}
  BY DEF RecOK, Held
<1>3. RecOK' /\ Made' = Made \union {r} /\ rec'[r] = y /\ \A t \in Rec \ {r} : rec'[t] = rec[t]
  BY <1>1, <1>2, Stored
<1>4. Made' = Made /\ Made \subseteq Rec
  BY <1>3 DEF Made
<1>5. \A t \in Made \ {r} : rec'[t] = rec[t] /\ rec[t] \in RecType
  BY <1>3, <1>4, MadeType
<1>6. QED
  BY <1>1, <1>3, <1>4, <1>5 DEF OnlyFlags

\* The frames of a comparison under way.
LEMMA TopIs ==
  ASSUME CmpOK, cmp.stack # <<>>
  PROVE  /\ TopFrame \in Frame /\ Popped \in Seq(Frame)
         /\ TopFrame.of \in Pairs(Made) /\ TopFrame.todo \subseteq Key /\ TopFrame.sep \in BOOLEAN
         /\ Len(cmp.stack) \in Nat /\ Len(cmp.stack) >= 1
         /\ Len(Popped) = Len(cmp.stack) - 1
         /\ \A i \in 1 .. Len(cmp.stack) - 1 : Popped[i] = cmp.stack[i]
<1>1. cmp.stack \in Seq(Frame)
  BY DEF CmpOK, CmpType
<1>2. TopFrame \in Frame /\ Popped \in Seq(Frame)
  BY <1>1, PopIs DEF TopFrame, Popped
<1>3. /\ Len(cmp.stack) \in Nat /\ Len(cmp.stack) >= 1 /\ Len(Popped) = Len(cmp.stack) - 1
      /\ \A i \in 1 .. Len(cmp.stack) - 1 : Popped[i] = cmp.stack[i]
  BY <1>1, PopIs DEF Popped
<1>4. QED
  BY <1>2, <1>3 DEF Frame

LEMMA LeftIs ==
  ASSUME CmpOK, cmp.stack # <<>>, NEW k
  PROVE  LET g == [TopFrame EXCEPT !.todo = Left(TopFrame, k)]
             t == Popped \o <<g>>
         IN /\ t \in Seq(Frame) /\ t # <<>> /\ Len(t) = Len(cmp.stack)
            /\ t[Len(cmp.stack)] = g /\ g.of = TopFrame.of /\ g.sep = TopFrame.sep
            /\ \A i \in 1 .. Len(cmp.stack) - 1 : t[i] = cmp.stack[i]
<1> DEFINE g == [TopFrame EXCEPT !.todo = Left(TopFrame, k)]
           t == Popped \o <<g>>
<1>1. TopFrame \in Frame
  BY TopIs
<1>2. g \in Frame /\ g.of = TopFrame.of /\ g.sep = TopFrame.sep
  BY <1>1 DEF Frame, Left
<1> HIDE DEF g
<1>3. cmp.stack \in Seq(Frame)
  BY DEF CmpOK, CmpType
<1>4. /\ t \in Seq(Frame) /\ t # <<>> /\ Len(t) = Len(cmp.stack) /\ t[Len(cmp.stack)] = g
      /\ \A i \in 1 .. Len(cmp.stack) - 1 : t[i] = cmp.stack[i]
  <2>1. t = SubSeq(cmp.stack, 1, Len(cmp.stack) - 1) \o <<g>>
    BY DEF Popped
  <2> HIDE DEF t
  <2>2. t \in Seq(Frame)
    BY <1>2, <1>3, <2>1, SetTop
  <2>3. t # <<>>
    BY <1>2, <1>3, <2>1, SetTop
  <2>4. Len(t) = Len(cmp.stack)
    BY <1>2, <1>3, <2>1, SetTop
  <2>5. t[Len(cmp.stack)] = g
    <3>1. /\ Popped \in Seq(Frame) /\ Len(Popped) \in Nat
          /\ Len(cmp.stack) = Len(Popped) + 1
      BY TopIs
    <3>2. (Popped \o <<g>>)[Len(Popped) + 1] = g
      BY <3>1
    <3>3. QED
      BY <3>1, <3>2 DEF t
  <2>6. \A i \in 1 .. Len(cmp.stack) - 1 : t[i] = cmp.stack[i]
    BY <1>2, <1>3, <2>1, SetTop
  <2>7. QED
    BY <2>2, <2>3, <2>4, <2>5, <2>6
<1>5. QED
  BY <1>2, <1>4 DEF g

LEMMA FlagsStep ==
  ASSUME Typed, cmp.stack # <<>>, index' = index, NEW c \in BOOLEAN, NEW s \in BOOLEAN,
         rec' = [rec EXCEPT ![TopFrame.of.r1] = [@ EXCEPT !.rcu = c, !.sep = s]]
  PROVE  /\ OnlyFlags /\ TopFrame.of.r1 \in Made
         /\ rec'[TopFrame.of.r1].rcu = c /\ rec'[TopFrame.of.r1].sep = s
         /\ \A t \in Made \ {TopFrame.of.r1} : rec'[t] = rec[t]
<1> DEFINE r == TopFrame.of.r1
           x == rec[r]
           y == [x EXCEPT !.rcu = c, !.sep = s]
<1>1. r \in Made
  BY TopIs DEF Typed, Pairs
<1>2. x \in RecType /\ r \in Rec
  BY <1>1, MadeType DEF Typed
<1>3. rec' = [rec EXCEPT ![r] = y] /\ y = [x EXCEPT !.rcu = c, !.sep = s]
  OBVIOUS
<1> HIDE DEF y
<1>4. y \in RecType /\ y.idx = x.idx /\ y.row = x.row /\ y.vals = x.vals /\ y.rcu = c /\ y.sep = s
  <2> HIDE DEF x
  <2>1. x = [idx |-> x.idx, sep |-> x.sep, rcu |-> x.rcu, row |-> x.row, vals |-> x.vals]
    BY <1>2, Fields
  <2>2. y = [idx |-> x.idx, sep |-> s, rcu |-> c, row |-> x.row, vals |-> x.vals]
    BY <1>3, <2>1
  <2>3. QED
    BY <1>2, <2>2, Fields DEF RecType
<1>5. RecOK
  BY DEF Typed
<1> HIDE DEF r
<1>6. OnlyFlags /\ rec'[r] = y /\ \A t \in Made \ {r} : rec'[t] = rec[t]
  BY <1>1, <1>3, <1>4, <1>5, FlagsOnlyFlags
<1>7. QED
  BY <1>1, <1>4, <1>6 DEF r

\* What a comparison may become, and what it keeps.
LEMMA CompareKeeps ==
  ASSUME Typed, OnlyFlags, cmp.state = "on", NEW state, NEW turn, NEW of, NEW stack,
         Becomes(state, turn, of, stack), CmpType' <=> cmp'.stack \in Seq(Frame)',
         stack \in Seq(Frame), of \in Pairs(Made), state \in {"on", "done"},
         turn \in {"call", "walk", "return"},
         state = "on" /\ turn = "walk" => stack # <<>>,
         state = "done" => stack = <<>>
  PROVE  Typed'
<1>1. Frame' = Frame /\ Pairs(Made)' = Pairs(Made)
  BY DEF Frame, OnlyFlags
<1>2. CmpType'
  BY <1>1 DEF Becomes
<1>3. CmpOK'
  BY <1>1, <1>2 DEF CmpOK, Becomes
<1>4. QED
  BY <1>3 DEF Typed, OnlyFlags, IndexOK

LEMMA GetMade ==
  ASSUME Typed, NEW r \in Made, NEW k, Get(r, k) \in Rec
  PROVE  Get(r, k) \in Made
<1>1. rec[r] \in RecType /\ Udf \notin Rec
  BY MadeType, RecordAssumption DEF Typed, Val
<1>2. PICK l \in DOMAIN rec[r].vals : Get(r, k) = rec[r].vals[l]
  BY <1>1, FieldType DEF Get
<1>3. QED
  BY <1>2 DEF Typed, RecOK, Held

-------------------------------------------------------------------------------
(* A step of the program: it stores one record, whose values it has. *)

Stores(r, x) ==
  /\ r \in Rec /\ x \in RecType
  /\ \A l \in DOMAIN x.vals : x.vals[l] \in Rec => x.vals[l] \in Made
  /\ rec' = [rec EXCEPT ![r] = x]
  /\ index' \in [Idx -> Seq(Key)] /\ \A i \in Idx : IsInjective(index'[i])
  /\ Ready /\ cmp' = cmp

LEMMA StoresTyped ==
  ASSUME Typed, NEW r, NEW x, Stores(r, x)
  PROVE  Typed'
<1>1. RecOK'
  <2>1. RecOK /\ r \in Rec /\ x \in RecType /\ rec' = [rec EXCEPT ![r] = x]
    BY DEF Typed, Stores
  <2>2. \A l \in DOMAIN x.vals : x.vals[l] \in Rec => x.vals[l] \in Made \union {r}
    BY DEF Stores
  <2>3. QED
    BY <2>1, <2>2, Stored
<1>2. CmpOK'
  BY ReadyKeeps DEF Typed, Stores
<1>3. QED
  BY <1>1, <1>2 DEF Typed, Stores, IndexOK

\* The values a record has are the program's.
LEMMA ValsHeld ==
  ASSUME RecOK, NEW r \in Rec, rec[r] # Null
  PROVE  /\ r \in Made /\ rec[r] \in RecType
         /\ \A l \in DOMAIN rec[r].vals : rec[r].vals[l] \in Rec => rec[r].vals[l] \in Made
BY MadeType DEF RecOK, Held, Made

\* A new record.
Fresh(i) == [idx |-> i, sep |-> FALSE, rcu |-> FALSE, row |-> RowFor(Len(index[i])),
             vals |-> [l \in 0 .. ValsCap[RowFor(Len(index[i]))] - 1 |-> Udf]]

LEMMA FreshIs ==
  ASSUME IndexOK, NEW i \in Idx
  PROVE  /\ Fresh(i) \in RecType /\ \A l \in DOMAIN Fresh(i).vals : Fresh(i).vals[l] = Udf
         /\ IsSound(Fresh(i))
<1> DEFINE row == RowFor(Len(index[i]))
           new == [l \in 0 .. ValsCap[row] - 1 |-> Udf]
<1>1. row \in Row
  <2>1. Keyed(index[i])
    BY DEF IndexOK, Keyed
  <2>2. Len(index[i]) \in Nat /\ Len(index[i]) <= ValsCap[MaxRow]
    BY <2>1, FewKeys
  <2>3. QED
    BY <2>2, RowForIs
<1>2. Fresh(i) = [idx |-> i, sep |-> FALSE, rcu |-> FALSE, row |-> row, vals |-> new]
  BY DEF Fresh
<1> HIDE DEF row
<1>3. ValsCap[row] \in Nat
  BY <1>1, RecordAssumption DEF Row
<1>4. new \in [0 .. ValsCap[row] - 1 -> Val \union {Udf}]
  OBVIOUS
<1>5. new \in Array
  <2> HIDE DEF new
  <2>1. QED
    BY <1>3, <1>4 DEF Array
<1>6. \A l \in DOMAIN new : new[l] = Udf
  OBVIOUS
<1>7. DOMAIN new = 0 .. ValsCap[row] - 1
  OBVIOUS
<1> HIDE DEF new
<1>8. QED
  BY <1>1, <1>2, <1>5, <1>6, <1>7 DEF RecType, IsSound, CapOf

LEMMA MakeStores ==
  ASSUME Typed, NEW r \in Rec, NEW i \in Idx, MakeRec(r, i)
  PROVE  Stores(r, Fresh(i)) /\ rec[r] = Null /\ index' = index
<1>1. /\ Ready /\ rec[r] = Null /\ rec' = [rec EXCEPT ![r] = Fresh(i)]
      /\ index' = index /\ cmp' = cmp
  BY DEF MakeRec, Fresh
<1>2. Fresh(i) \in RecType /\ \A l \in DOMAIN Fresh(i).vals : Fresh(i).vals[l] = Udf
  BY FreshIs DEF Typed
<1>3. Udf \notin Rec
  BY RecordAssumption DEF Val
<1>4. QED
  BY <1>1, <1>2, <1>3 DEF Stores, Typed, IndexOK

LEMMA SepStores ==
  ASSUME Typed, NEW r \in Rec, RecSep(r)
  PROVE  /\ Stores(r, [rec[r] EXCEPT !.sep = TRUE]) /\ r \in Made /\ index' = index
         /\ Seps /\ [rec[r] EXCEPT !.sep = TRUE].rcu = rec[r].rcu
<1>1. /\ Ready /\ rec[r] # Null /\ rec' = [rec EXCEPT ![r] = [rec[r] EXCEPT !.sep = TRUE]]
      /\ index' = index /\ cmp' = cmp /\ Seps
  BY DEF RecSep
<1>2. /\ r \in Made /\ rec[r] \in RecType
      /\ \A l \in DOMAIN rec[r].vals : rec[r].vals[l] \in Rec => rec[r].vals[l] \in Made
  BY <1>1, ValsHeld DEF Typed
<1> DEFINE y == [rec[r] EXCEPT !.sep = TRUE]
<1>3. y \in RecType /\ y.vals = rec[r].vals /\ y.rcu = rec[r].rcu
  BY <1>2, Fields DEF RecType
<1> HIDE DEF y
<1>4. QED
  BY <1>1, <1>2, <1>3 DEF Stores, Typed, IndexOK, y

\* What a separation leaves holds values of the program.
LEMMA PreparedHeld ==
  ASSUME RecOK, NEW r \in Rec, rec[r] # Null, IsSound(rec[r]), NEW x \in Prepared(rec[r])
  PROVE  /\ x \in RecType /\ x.idx = rec[r].idx /\ x.idx \in Idx /\ x.rcu = rec[r].rcu
         /\ \A l \in DOMAIN x.vals : x.vals[l] \in Rec => x.vals[l] \in Made
         /\ ~rec[r].sep => x = rec[r]
<1>1. /\ rec[r] \in RecType
      /\ \A l \in DOMAIN rec[r].vals : rec[r].vals[l] \in Rec => rec[r].vals[l] \in Made
  BY ValsHeld
<1>2. /\ x \in RecType /\ x.idx = rec[r].idx /\ x.rcu = rec[r].rcu
      /\ \A l \in DOMAIN x.vals : \E m \in DOMAIN rec[r].vals : x.vals[l] = rec[r].vals[m]
      /\ ~rec[r].sep => x = rec[r]
  BY <1>1, PreparedIs
<1>3. QED
  BY <1>1, <1>2, Fields

LEMMA OverrunStores ==
  ASSUME Typed, NEW r \in Rec, RecDefOverruns(r)
  PROVE  /\ r \in Made /\ index' = index
         /\ \E x \in Prepared(rec[r]) : ~IsSound(x) /\ Stores(r, x) /\ x.rcu = rec[r].rcu
<1>1. /\ Ready /\ rec[r] # Null /\ IsSound(rec[r]) /\ index' = index /\ cmp' = cmp
      /\ \E x \in Prepared(rec[r]) : ~IsSound(x) /\ rec' = [rec EXCEPT ![r] = x]
  BY DEF RecDefOverruns
<1>2. PICK x \in Prepared(rec[r]) : ~IsSound(x) /\ rec' = [rec EXCEPT ![r] = x]
  BY <1>1
<1>3. /\ x \in RecType /\ x.rcu = rec[r].rcu
      /\ \A l \in DOMAIN x.vals : x.vals[l] \in Rec => x.vals[l] \in Made
  BY <1>1, PreparedHeld DEF Typed
<1>4. Stores(r, x)
  BY <1>1, <1>2, <1>3 DEF Stores, Typed, IndexOK
<1>5. QED
  BY <1>1, <1>2, <1>3, <1>4 DEF Made

LEMMA DefFailStores ==
  ASSUME Typed, NEW r \in Rec, NEW k \in Key, RecDefFails(r, k)
  PROVE  /\ r \in Made /\ IsSound(rec[r])
         /\ \E x \in Prepared(rec[r]) :
              /\ IsSound(x) /\ x.idx \in Idx /\ index' = WithKey(x.idx, k) /\ Stores(r, x)
              /\ x.rcu = rec[r].rcu
<1>1. /\ Ready /\ rec[r] # Null /\ IsSound(rec[r]) /\ cmp' = cmp
  BY DEF RecDefFails
<1>2. PICK x \in Prepared(rec[r]) :
           IsSound(x) /\ rec' = [rec EXCEPT ![r] = x] /\ index' = WithKey(x.idx, k)
  BY DEF RecDefFails
<1>3. /\ x \in RecType /\ x.idx \in Idx /\ x.rcu = rec[r].rcu
      /\ \A l \in DOMAIN x.vals : x.vals[l] \in Rec => x.vals[l] \in Made
  BY <1>1, PreparedHeld DEF Typed
<1>4. index' \in [Idx -> Seq(Key)] /\ \A j \in Idx : Keyed(index'[j])
  BY <1>2, <1>3, WithKeyIs DEF Typed
<1>5. Stores(r, x)
  BY <1>1, <1>2, <1>3, <1>4 DEF Stores, Keyed
<1>6. QED
  BY <1>1, <1>2, <1>3, <1>5 DEF Made

\* The record that a definition leaves.
Defined(x, l, v) == [Grown(x, l) EXCEPT !.vals[l] = v]

LEMMA DefinedIs ==
  ASSUME NEW x \in RecType, IsSound(x), NEW l \in Nat, l + 1 <= ValsCap[MaxRow],
         NEW v \in Val \union {Udf}
  PROVE  /\ Defined(x, l, v) \in RecType /\ IsSound(Defined(x, l, v))
         /\ Defined(x, l, v).idx = x.idx /\ Defined(x, l, v).sep = x.sep
         /\ Defined(x, l, v).rcu = x.rcu
         /\ l \in DOMAIN Defined(x, l, v).vals /\ Defined(x, l, v).vals[l] = v
         /\ DOMAIN x.vals \subseteq DOMAIN Defined(x, l, v).vals
         /\ \A m \in DOMAIN Defined(x, l, v).vals : m # l =>
              Defined(x, l, v).vals[m] = IF m \in DOMAIN x.vals THEN x.vals[m] ELSE Udf
<1> DEFINE g == Grown(x, l)
           y == Defined(x, l, v)
<1>1. /\ g \in RecType /\ IsSound(g) /\ g.idx = x.idx /\ g.sep = x.sep /\ g.rcu = x.rcu
      /\ l \in DOMAIN g.vals /\ DOMAIN x.vals \subseteq DOMAIN g.vals
      /\ \A m \in DOMAIN g.vals : g.vals[m] = IF m \in DOMAIN x.vals THEN x.vals[m] ELSE Udf
  BY GrownIs
<1>2. y = [g EXCEPT !.vals[l] = v]
  BY DEF Defined
<1> HIDE DEF g, y
<1>3. /\ y \in RecType
      /\ y = [idx |-> g.idx, sep |-> g.sep, rcu |-> g.rcu, row |-> g.row,
              vals |-> [g.vals EXCEPT ![l] = v]]
  BY <1>1, <1>2, ValSet
<1> DEFINE a == [g.vals EXCEPT ![l] = v]
<1>4. /\ DOMAIN a = DOMAIN g.vals /\ a[l] = v
      /\ \A m \in DOMAIN g.vals : m # l => a[m] = g.vals[m]
  <2>1. g.vals \in Array
    BY <1>1, Fields
  <2>2. QED
    BY <1>1, <2>1, ArraySet
<1>5. /\ y.idx = g.idx /\ y.sep = g.sep /\ y.rcu = g.rcu /\ y.row = g.row /\ y.vals = a
  BY <1>3
<1> HIDE DEF a
<1>6. IsSound(y)
  BY <1>1, <1>4, <1>5 DEF IsSound, CapOf
<1>7. QED
  BY <1>1, <1>3, <1>4, <1>5, <1>6 DEF y

LEMMA DefStores ==
  ASSUME Typed, NEW r \in Rec, NEW k \in Key, NEW v \in Val \union {Udf}, RecDef(r, k, v)
  PROVE  /\ r \in Made /\ IsSound(rec[r])
         /\ \E x \in Prepared(rec[r]) :
              LET l == Loc(WithKey(x.idx, k)[x.idx], k)
              IN /\ IsSound(x) /\ x \in RecType /\ x.idx \in Idx /\ index' = WithKey(x.idx, k)
                 /\ l \in Nat /\ l + 1 <= ValsCap[MaxRow]
                 /\ Stores(r, Defined(x, l, v)) /\ Defined(x, l, v).rcu = rec[r].rcu
<1>1. /\ Ready /\ rec[r] # Null /\ IsSound(rec[r]) /\ Held(v) /\ cmp' = cmp
  BY DEF RecDef
<1>2. PICK x \in Prepared(rec[r]) :
        /\ IsSound(x) /\ index' = WithKey(x.idx, k)
        /\ LET l == Loc(index'[x.idx], k)
           IN rec' = [rec EXCEPT ![r] = [Grown(x, l) EXCEPT !.vals[l] = v]]
  BY DEF RecDef
<1> DEFINE l == Loc(WithKey(x.idx, k)[x.idx], k)
           y == Defined(x, l, v)
<1>3. rec' = [rec EXCEPT ![r] = y]
  BY <1>2 DEF Defined
<1>4. /\ x \in RecType /\ x.idx \in Idx /\ x.rcu = rec[r].rcu
      /\ \A m \in DOMAIN x.vals : x.vals[m] \in Rec => x.vals[m] \in Made
  BY <1>1, PreparedHeld DEF Typed
<1>5. /\ index' \in [Idx -> Seq(Key)] /\ \A j \in Idx : Keyed(index'[j])
      /\ l \in Nat /\ l < Len(index'[x.idx])
  BY <1>2, <1>4, WithKeyIs DEF Typed
<1>6. Len(index'[x.idx]) \in Nat /\ Len(index'[x.idx]) <= ValsCap[MaxRow]
  BY <1>4, <1>5, FewKeys
<1>7. l + 1 <= ValsCap[MaxRow]
  <2>1. ValsCap[MaxRow] \in Nat
    BY RecordAssumption DEF MaxRow
  <2> HIDE DEF l
  <2>2. QED
    BY <1>5, <1>6, <2>1
<1> HIDE DEF l
<1>8. /\ y \in RecType /\ l \in DOMAIN y.vals /\ y.vals[l] = v /\ y.rcu = x.rcu
      /\ \A m \in DOMAIN y.vals : m # l =>
           y.vals[m] = IF m \in DOMAIN x.vals THEN x.vals[m] ELSE Udf
  BY <1>2, <1>4, <1>5, <1>7, DefinedIs
<1> HIDE DEF y
<1>9. \A m \in DOMAIN y.vals : y.vals[m] \in Rec => y.vals[m] \in Made
  <2>1. Udf \notin Rec
    BY RecordAssumption DEF Val
  <2>2. QED
    BY <1>1, <1>4, <1>8, <2>1 DEF Held
<1>10. Stores(r, y)
  BY <1>1, <1>3, <1>5, <1>8, <1>9 DEF Stores, Keyed
<1>11. QED
  BY <1>1, <1>2, <1>4, <1>5, <1>7, <1>8, <1>10 DEF Made, y, l

LEMMA SetStores ==
  ASSUME Typed, NEW r \in Rec, NEW k \in Key, NEW v \in Val \union {Udf}, RecSet(r, k, v)
  PROVE  /\ r \in Made /\ IsSound(rec[r]) /\ index' = index /\ v # Udf
         /\ LET l == Loc(index[rec[r].idx], k)
            IN /\ l \in DOMAIN rec[r].vals /\ rec[r].vals[l] # Udf
               /\ Stores(r, [rec[r] EXCEPT !.vals[l] = v])
               /\ [rec[r] EXCEPT !.vals[l] = v].rcu = rec[r].rcu
<1> DEFINE l == Loc(index[rec[r].idx], k)
           x == rec[r]
           y == [x EXCEPT !.vals[l] = v]
<1>1. /\ Ready /\ x # Null /\ IsSound(x) /\ Held(v) /\ v # Udf /\ Get(r, k) # Udf
      /\ index' = index /\ cmp' = cmp
  BY DEF RecSet
<1>2. rec' = [rec EXCEPT ![r] = y]
  BY DEF RecSet
<1>3. /\ r \in Made /\ x \in RecType
      /\ \A m \in DOMAIN x.vals : x.vals[m] \in Rec => x.vals[m] \in Made
  BY <1>1, ValsHeld DEF Typed
<1>4. l \in DOMAIN x.vals /\ x.vals[l] # Udf
  <2>1. FieldAt(x, l) # Udf
    BY <1>1 DEF Get
  <2> HIDE DEF x, l
  <2>2. l \in DOMAIN x.vals /\ FieldAt(x, l) = x.vals[l]
    BY <1>3, <2>1, FieldType
  <2>3. QED
    BY <2>1, <2>2
<1> DEFINE a == [x.vals EXCEPT ![l] = v]
<1> HIDE DEF x, l
<1>5. y \in RecType /\ y.vals = a /\ y.rcu = x.rcu
  <2>1. /\ y \in RecType
        /\ y = [idx |-> x.idx, sep |-> x.sep, rcu |-> x.rcu, row |-> x.row, vals |-> a]
    BY <1>3, ValSet
  <2> HIDE DEF y, a
  <2>2. QED
    BY <2>1
<1>6. DOMAIN a = DOMAIN x.vals /\ a[l] = v /\ \A m \in DOMAIN x.vals : m # l => a[m] = x.vals[m]
  <2>1. x.vals \in Array
    BY <1>3, Fields
  <2>2. QED
    BY <1>4, <2>1, ArraySet
<1> HIDE DEF y, a
<1>7. \A m \in DOMAIN y.vals : y.vals[m] \in Rec => y.vals[m] \in Made
  BY <1>1, <1>3, <1>5, <1>6 DEF Held
<1>8. Stores(r, y)
  BY <1>1, <1>2, <1>3, <1>5, <1>7 DEF Stores, Typed, IndexOK
<1>9. QED
  BY <1>1, <1>3, <1>4, <1>5, <1>8 DEF y, x, l

-------------------------------------------------------------------------------
(* The steps of a comparison keep the types. *)

ProgramStep ==
  \E r \in Rec : \/ \E i \in Idx : MakeRec(r, i)
                 \/ RecSep(r) \/ RecDefOverruns(r)
                 \/ \E k \in Key : \/ RecDefFails(r, k)
                                   \/ \E v \in Val \union {Udf} : RecDef(r, k, v) \/ RecSet(r, k, v)

LEMMA NextIs ==
  ASSUME Next
  PROVE  \/ ProgramStep
         \/ \E op \in {"equal", "less", "lessOrEqual"}, r1, r2 \in Rec : Compare(op, r1, r2)
         \/ CompareStep
BY DEF Next, ProgramStep

\* What a step of the program stores has the flag that was there.
Keeps(r, x) == Stores(r, x) /\ (x.rcu <=> r \in Made /\ rec[r].rcu)

LEMMA ProgramKeeps ==
  ASSUME Typed, ProgramStep
  PROVE  \E r \in Rec, x \in RecType : Keeps(r, x)
<1>1. PICK r \in Rec : \/ \E i \in Idx : MakeRec(r, i)
                       \/ RecSep(r) \/ RecDefOverruns(r)
                       \/ \E k \in Key : \/ RecDefFails(r, k)
                                         \/ \E v \in Val \union {Udf} : RecDef(r, k, v) \/ RecSet(r, k, v)
  BY DEF ProgramStep
<1>2. SUFFICES \E x : Keeps(r, x)
  BY DEF Keeps, Stores
<1>0. ASSUME r \in Made, NEW x, Stores(r, x), x.rcu = rec[r].rcu PROVE Keeps(r, x)
  <2>1. x.rcu \in BOOLEAN /\ rec[r].rcu \in BOOLEAN
    BY <1>0, MadeType, Fields DEF Stores, Typed
  <2>2. QED
    BY <1>0, <2>1 DEF Keeps
<1>3. ASSUME NEW i \in Idx, MakeRec(r, i) PROVE \E x : Keeps(r, x)
  <2>1. Stores(r, Fresh(i)) /\ rec[r] = Null
    BY <1>3, MakeStores
  <2>2. Fresh(i).rcu = FALSE /\ r \notin Made
    BY <2>1 DEF Fresh, Made
  <2>3. QED
    BY <2>1, <2>2 DEF Keeps
<1>4. CASE RecSep(r)
  BY <1>0, <1>4, SepStores
<1>5. CASE RecDefOverruns(r)
  BY <1>0, <1>5, OverrunStores
<1>6. ASSUME NEW k \in Key, RecDefFails(r, k) PROVE \E x : Keeps(r, x)
  BY <1>0, <1>6, DefFailStores
<1>7. ASSUME NEW k \in Key, NEW v \in Val \union {Udf}, RecDef(r, k, v) PROVE \E x : Keeps(r, x)
  BY <1>0, <1>7, DefStores
<1>8. ASSUME NEW k \in Key, NEW v \in Val \union {Udf}, RecSet(r, k, v) PROVE \E x : Keeps(r, x)
  BY <1>0, <1>8, SetStores
<1>9. QED
  BY <1>1, <1>3, <1>4, <1>5, <1>6, <1>7, <1>8

LEMMA BeginsTyped ==
  ASSUME Typed, NEW op, NEW r1, NEW r2, Compare(op, r1, r2)
  PROVE  /\ Typed' /\ Ready /\ OnlyFlags /\ rec' = rec /\ index' = index
         /\ cmp' = [state |-> "on", op |-> op, turn |-> "call", of |-> Pair(r1, r2),
                    stack |-> <<>>, cyclic |-> FALSE, isSub |-> FALSE]
         /\ r1 \in Made /\ r2 \in Made
         /\ \A r \in Made : IsSound(rec[r])
<1>1. /\ Ready /\ r1 \in Made /\ r2 \in Made /\ rec' = rec /\ index' = index
      /\ \A r \in Made : IsSound(rec[r])
      /\ cmp' = [Idle EXCEPT !.state = "on", !.op = op, !.turn = "call", !.of = Pair(r1, r2)]
  BY DEF Compare
<1>2. OnlyFlags
  BY <1>1, SameOnlyFlags DEF Typed
<1> DEFINE of == Pair(r1, r2)
<1>3. of \in Pairs(Made)
  BY <1>1 DEF Pair, Pairs
<1> HIDE DEF of
<1>4. cmp' = [state |-> "on", op |-> op, turn |-> "call", of |-> of,
              stack |-> <<>>, cyclic |-> FALSE, isSub |-> FALSE]
  BY <1>1 DEF Idle, of
<1>5. Pairs(Made)' = Pairs(Made)
  BY <1>2 DEF OnlyFlags, Pairs
<1>6. CmpType'
  BY <1>4 DEF CmpType
<1>7. CmpOK'
  BY <1>3, <1>4, <1>5, <1>6 DEF CmpOK
<1>8. Typed'
  BY <1>1, <1>2, <1>7 DEF Typed, OnlyFlags, IndexOK
<1>9. QED
  BY <1>1, <1>2, <1>4, <1>8 DEF of

LEMMA EnterTyped ==
  ASSUME Typed, Enter
  PROVE  Typed' /\ OnlyFlags /\ rec' = rec
<1>1. /\ cmp.state = "on" /\ cmp.turn = "call" /\ rec' = rec /\ index' = index
      /\ CmpType' <=> cmp'.stack \in Seq(Frame)'
      /\ \/ Becomes("on", "return", cmp.of, cmp.stack)
         \/ Becomes("on", "walk", cmp.of,
                          Append(cmp.stack, [of |-> cmp.of, todo |-> Keys(cmp.of.r1),
                                             sep |-> rec[cmp.of.r1].sep]))
  BY EnterIs DEF Typed, CmpOK
<1>2. OnlyFlags
  BY <1>1, SameOnlyFlags DEF Typed
<1>3. cmp.of \in Pairs(Made) /\ cmp.stack \in Seq(Frame)
  BY <1>1 DEF Typed, CmpOK, CmpType
<1> DEFINE f == [of |-> cmp.of, todo |-> Keys(cmp.of.r1), sep |-> rec[cmp.of.r1].sep]
<1>4. f \in Frame
  <2>1. rec[cmp.of.r1] \in RecType
    BY <1>3, MadeType DEF Typed, Pairs
  <2>2. rec[cmp.of.r1].sep \in BOOLEAN
    BY <2>1, Fields
  <2>3. Keys(cmp.of.r1) \subseteq Key
    BY DEF Keys
  <2>4. QED
    BY <1>3, <2>2, <2>3 DEF Frame
<1> HIDE DEF f
<1>5. Append(cmp.stack, f) \in Seq(Frame) /\ Append(cmp.stack, f) # <<>>
  BY <1>3, <1>4
<1>6. CASE Becomes("on", "return", cmp.of, cmp.stack)
  BY <1>1, <1>2, <1>3, <1>6, CompareKeeps
<1>7. CASE Becomes("on", "walk", cmp.of, Append(cmp.stack, f))
  BY <1>1, <1>2, <1>3, <1>5, <1>7, CompareKeeps
<1>8. QED
  BY <1>1, <1>2, <1>6, <1>7 DEF f

LEMMA ReturnTyped ==
  ASSUME Typed, OnlyFlags, cmp.state = "on", cmp.stack # <<>>,
         Becomes("on", "return", TopFrame.of, Popped), CmpType' <=> cmp'.stack \in Seq(Frame)'
  PROVE  Typed'
<1>1. Popped \in Seq(Frame) /\ TopFrame.of \in Pairs(Made)
  BY TopIs DEF Typed
<1>2. QED
  BY <1>1, CompareKeeps

\* A walk has a frame.
LEMMA WalksOn ==
  ASSUME Typed, cmp.state = "on", cmp.turn = "walk"
  PROVE  cmp.stack # <<>>
BY DEF Typed, CmpOK

LEMMA WalkTyped ==
  ASSUME Typed, NEW k \in Key, Walk(k)
  PROVE  Typed' /\ OnlyFlags /\ cmp.stack # <<>>
<1> DEFINE st == Popped \o <<[TopFrame EXCEPT !.todo = Left(TopFrame, k)]>>
           of == Pair(Get(TopFrame.of.r1, k), Get(TopFrame.of.r2, k))
<1>1. cmp.stack # <<>>
  BY WalksOn DEF Walk
<1>2. /\ cmp.state = "on" /\ index' = index
      /\ CmpType' <=> cmp'.stack \in Seq(Frame)'
      /\ \/ rec' = rec /\ Becomes("on", "return", TopFrame.of, Popped)
         \/ rec' = rec /\ Becomes("on", "walk", cmp.of, st)
         \/ /\ rec' = [rec EXCEPT ![TopFrame.of.r1] = [@ EXCEPT !.rcu = TRUE, !.sep = TopFrame.sep]]
            /\ Becomes("on", "call", of, st)
            /\ Get(TopFrame.of.r1, k) \in Rec /\ Get(TopFrame.of.r2, k) \in Rec
  <2>1. CmpType
    BY DEF Typed, CmpOK
  <2>2. QED
    BY <1>1, <2>1, WalkIs
<1>3. st \in Seq(Frame) /\ st # <<>> /\ TopFrame.of \in Pairs(Made) /\ TopFrame.sep \in BOOLEAN
  BY <1>1, LeftIs, TopIs DEF Typed
<1>4. cmp.of \in Pairs(Made)
  BY <1>2 DEF Typed, CmpOK
<1> HIDE DEF st
<1>5. CASE rec' = rec /\ Becomes("on", "return", TopFrame.of, Popped)
  <2>1. OnlyFlags
    BY <1>2, <1>5, SameOnlyFlags DEF Typed
  <2>2. QED
    BY <1>1, <1>2, <1>5, <2>1, ReturnTyped
<1>6. CASE rec' = rec /\ Becomes("on", "walk", cmp.of, st)
  <2>1. OnlyFlags
    BY <1>2, <1>6, SameOnlyFlags DEF Typed
  <2>2. Typed'
    BY <1>2, <1>3, <1>4, <1>6, <2>1, CompareKeeps
  <2>3. QED
    BY <1>1, <2>1, <2>2
<1>7. CASE /\ rec' = [rec EXCEPT ![TopFrame.of.r1] = [@ EXCEPT !.rcu = TRUE, !.sep = TopFrame.sep]]
           /\ Becomes("on", "call", of, st)
           /\ Get(TopFrame.of.r1, k) \in Rec /\ Get(TopFrame.of.r2, k) \in Rec
  <2>1. OnlyFlags
    BY <1>1, <1>2, <1>3, <1>7, FlagsStep
  <2>2. of \in Pairs(Made)
    <3>1. TopFrame.of.r1 \in Made /\ TopFrame.of.r2 \in Made
      BY <1>3 DEF Pairs
    <3>2. Get(TopFrame.of.r1, k) \in Made /\ Get(TopFrame.of.r2, k) \in Made
      BY <1>7, <3>1, GetMade
    <3>3. QED
      BY <3>2 DEF Pair, Pairs
  <2> HIDE DEF of
  <2>3. Typed'
    BY <1>2, <1>3, <1>7, <2>1, <2>2, CompareKeeps
  <2>4. QED
    BY <1>1, <2>1, <2>3
<1>8. QED
  BY <1>2, <1>5, <1>6, <1>7

LEMMA WalkEndsTyped ==
  ASSUME Typed, WalkEnds
  PROVE  Typed' /\ OnlyFlags /\ cmp.stack # <<>>
<1>1. cmp.stack # <<>> /\ CmpType
  BY WalksOn DEF WalkEnds, Typed, CmpOK
<1>2. /\ cmp.state = "on" /\ rec' = rec /\ index' = index
      /\ CmpType' <=> cmp'.stack \in Seq(Frame)'
      /\ Becomes("on", "return", TopFrame.of, Popped)
  BY <1>1, WalkEndsIs
<1>3. OnlyFlags
  BY <1>2, SameOnlyFlags DEF Typed
<1>4. QED
  BY <1>1, <1>2, <1>3, ReturnTyped

LEMMA BackToWalkTyped ==
  ASSUME Typed, ReturnToWalk
  PROVE  /\ Typed' /\ OnlyFlags /\ cmp.stack # <<>> /\ TopFrame.of.r1 \in Made
         /\ rec'[TopFrame.of.r1].rcu = FALSE /\ rec'[TopFrame.of.r1].sep = FALSE
         /\ \A t \in Made \ {TopFrame.of.r1} : rec'[t] = rec[t]
<1>1. CmpType
  BY DEF Typed, CmpOK
<1>2. /\ cmp.state = "on" /\ cmp.turn = "return" /\ index' = index /\ cmp.stack # <<>>
      /\ rec' = [rec EXCEPT ![TopFrame.of.r1] = FlagsAfter(@)]
      /\ CmpType' <=> cmp'.stack \in Seq(Frame)'
      /\ \/ Becomes("on", "walk", cmp.of, cmp.stack)
         \/ Becomes("on", "return", TopFrame.of, Popped)
  BY <1>1, ReturnToWalkIs
<1>3. /\ OnlyFlags /\ TopFrame.of.r1 \in Made
      /\ rec'[TopFrame.of.r1].rcu = FALSE /\ rec'[TopFrame.of.r1].sep = FALSE
      /\ \A t \in Made \ {TopFrame.of.r1} : rec'[t] = rec[t]
  <2>1. rec' = [rec EXCEPT ![TopFrame.of.r1] = [@ EXCEPT !.rcu = FALSE, !.sep = FALSE]]
    BY <1>2 DEF FlagsAfter
  <2>2. QED
    BY <1>2, <2>1, FlagsStep
<1>4. CASE Becomes("on", "walk", cmp.of, cmp.stack)
  <2>1. cmp.of \in Pairs(Made) /\ cmp.stack \in Seq(Frame)
    BY <1>2 DEF Typed, CmpOK, CmpType
  <2>2. Typed'
    BY <1>2, <1>3, <1>4, <2>1, CompareKeeps
  <2>3. QED
    BY <1>2, <1>3, <2>2
<1>5. CASE Becomes("on", "return", TopFrame.of, Popped)
  BY <1>2, <1>3, <1>5, ReturnTyped
<1>6. QED
  BY <1>2, <1>4, <1>5

LEMMA BackToCallerTyped ==
  ASSUME Typed, ReturnToCaller
  PROVE  Typed' /\ OnlyFlags
<1>1. CmpType
  BY DEF Typed, CmpOK
<1>2. /\ cmp.state = "on" /\ cmp.stack = <<>> /\ rec' = rec /\ index' = index
      /\ CmpType' <=> cmp'.stack \in Seq(Frame)'
      /\ Becomes("done", "return", cmp.of, cmp.stack)
  BY <1>1, ReturnToCallerIs
<1>3. OnlyFlags
  BY <1>2, SameOnlyFlags DEF Typed
<1>4. cmp.of \in Pairs(Made) /\ cmp.stack \in Seq(Frame)
  BY <1>1, <1>2 DEF Typed, CmpOK, CmpType
<1>5. QED
  BY <1>2, <1>3, <1>4, CompareKeeps

\* Two ends of a comparison that leave nothing of it.
LEMMA EndsTyped ==
  ASSUME Typed, EnterFails \/ Answer
  PROVE  /\ Typed' /\ OnlyFlags /\ rec' = rec /\ cmp'.stack = <<>>
         /\ \/ EnterFails /\ cmp.state = "on" /\ cmp'.state = "failed" /\ "compare" \in Fails
            \/ Answer /\ cmp' = Idle /\ cmp.state \in {"done", "failed"}
<1>1. rec' = rec /\ index' = index
  BY DEF EnterFails, Answer
<1>2. OnlyFlags
  BY <1>1, SameOnlyFlags DEF Typed
<1>3. CASE EnterFails
  <2>1. cmp' = [Idle EXCEPT !.state = "failed"] /\ cmp.state = "on" /\ "compare" \in Fails
    BY <1>3 DEF EnterFails
  <2>2. cmp' = [state |-> "failed", op |-> "none", turn |-> "none", of |-> <<>>,
                stack |-> <<>>, cyclic |-> FALSE, isSub |-> FALSE]
    BY <2>1 DEF Idle
  <2>3. CmpOK'
    BY <2>2 DEF CmpOK, CmpType
  <2>4. QED
    BY <1>1, <1>2, <1>3, <2>1, <2>2, <2>3 DEF Typed, OnlyFlags, IndexOK
<1>4. CASE Answer
  <2>1. cmp' = Idle /\ cmp.state \in {"done", "failed"}
    BY <1>4 DEF Answer
  <2>2. CmpOK' /\ cmp'.stack = <<>>
    BY <2>1 DEF CmpOK, CmpType, Idle
  <2>3. QED
    BY <1>1, <1>2, <1>4, <2>1, <2>2 DEF Typed, OnlyFlags, IndexOK
<1>5. QED
  BY <1>3, <1>4

LEMMA CompareTyped ==
  ASSUME Typed, CompareStep
  PROVE  Typed' /\ OnlyFlags
<1>1. CASE Enter
  BY <1>1, EnterTyped
<1>2. CASE EnterFails \/ Answer
  BY <1>2, EndsTyped
<1>3. ASSUME NEW k \in Key, Walk(k) PROVE Typed' /\ OnlyFlags
  BY <1>3, WalkTyped
<1>4. CASE WalkEnds
  BY <1>4, WalkEndsTyped
<1>5. CASE ReturnToWalk
  BY <1>5, BackToWalkTyped
<1>6. CASE ReturnToCaller
  BY <1>6, BackToCallerTyped
<1>7. QED
  BY <1>1, <1>2, <1>3, <1>4, <1>5, <1>6 DEF CompareStep

LEMMA StutterTyped ==
  ASSUME Typed, UNCHANGED vars
  PROVE  Typed' /\ OnlyFlags
<1>1. rec' = rec /\ index' = index /\ cmp' = cmp
  BY DEF vars
<1>2. OnlyFlags
  BY <1>1, SameOnlyFlags DEF Typed
<1>3. Frame' = Frame /\ Pairs(Made)' = Pairs(Made)
  BY <1>2 DEF Frame, OnlyFlags
<1>4. CmpType'
  BY <1>1, <1>3 DEF CmpType, Typed, CmpOK
<1>5. CmpOK'
  BY <1>1, <1>3, <1>4 DEF CmpOK, Typed
<1>6. QED
  BY <1>1, <1>2, <1>5 DEF Typed, OnlyFlags, IndexOK

LEMMA NextTyped ==
  ASSUME Typed, [Next]_vars
  PROVE  Typed'
<1>1. CASE ProgramStep
  BY <1>1, ProgramKeeps, StoresTyped DEF Keeps
<1>2. ASSUME NEW op, NEW r1, NEW r2, Compare(op, r1, r2) PROVE Typed'
  BY <1>2, BeginsTyped
<1>3. CASE CompareStep
  BY <1>3, CompareTyped
<1>4. CASE UNCHANGED vars
  BY <1>4, StutterTyped
<1>5. QED
  BY <1>1, <1>2, <1>3, <1>4, NextIs

LEMMA TypedInvariant == Spec => []Typed
<1>1. Init => Typed
  BY InitTyped
<1>2. Typed /\ [Next]_vars => Typed'
  BY NextTyped
<1>3. QED
  BY <1>1, <1>2, PTL DEF Spec

LEMMA TypedIsTypeOK == Typed => TypeOK
<1>1. SUFFICES ASSUME Typed PROVE TypeOK
  OBVIOUS
<1>2. ASSUME NEW r \in Made
      PROVE  /\ rec[r].idx \in Idx /\ rec[r].row \in Row
             /\ rec[r].sep \in BOOLEAN /\ rec[r].rcu \in BOOLEAN
             /\ rec[r].vals \in [DOMAIN rec[r].vals -> Val \union {Udf}]
  <2>1. rec[r] \in RecType
    BY <1>1, MadeType DEF Typed
  <2>2. QED
    BY <2>1, Fields, ArrayIs
<1>3. \A f \in Range(cmp.stack) : f.todo \subseteq Key
  <2>1. cmp.stack \in Seq(Frame)
    BY <1>1 DEF Typed, CmpOK, CmpType
  <2>2. \A i \in DOMAIN cmp.stack : cmp.stack[i] \in Frame
    BY <2>1
  <2>3. QED
    BY <2>2 DEF Range, Frame
<1>4. QED
  BY <1>1, <1>2, <1>3 DEF TypeOK, Typed, IndexOK, CmpOK, CmpType

\* TypeOK, for every program: names in an index are distinct, whatever fails.
THEOREM TypeCorrect == Spec => []TypeOK
BY TypedInvariant, TypedIsTypeOK, PTL

-------------------------------------------------------------------------------
(* What a comparison reads. *)

\* Flags are no fields.
LEMMA SameGet ==
  ASSUME Typed, OnlyFlags, NEW r \in Made, NEW k
  PROVE  Get(r, k)' = Get(r, k)
BY DEF Get, FieldAt, CapOf, OnlyFlags

\* The values of each record, what they lead to, and the records with a cycle.
Links == [r \in Made |-> Values(r)]
Below == [r \in Made |-> Reach(Made, Links[r], Links)]
Cyclics == {r \in Made : \E s \in Reach(Made, {r}, Links) : s \in Below[s]}

LEMMA LinksIs ==
  ASSUME Typed
  PROVE  Links \in [Made -> SUBSET Made]
<1>1. ASSUME NEW r \in Made PROVE Values(r) \subseteq Made
  BY GetMade DEF Values
<1>2. QED
  BY <1>1 DEF Links

LEMMA SameLinks ==
  ASSUME Typed, OnlyFlags
  PROVE  Links' = Links /\ Below' = Below /\ Cyclics' = Cyclics
<1>1. Made' = Made
  BY DEF OnlyFlags
<1>2. ASSUME NEW r \in Made PROVE Values(r)' = Values(r)
  BY SameGet DEF Values
<1>3. Links' = Links
  BY <1>1, <1>2 DEF Links
<1>4. Below' = Below
  BY <1>1, <1>3 DEF Below
<1>5. QED
  BY <1>1, <1>3, <1>4 DEF Cyclics

LEMMA CyclicIs ==
  ASSUME NEW r \in Cyclics
  PROVE  IsCyclic(r)
<1>1. PICK s \in Reach(Made, {r}, Links) : s \in Below[s]
  BY DEF Cyclics
<1>2. s \in Made
  BY <1>1, ReachType
<1>3. Reach(Made, {r}, Links) = Leads({r})
  BY DEF Leads, Links
<1>4. Below[s] = Leads(Values(s))
  BY <1>2 DEF Below, Leads, Links
<1>5. QED
  BY <1>1, <1>3, <1>4 DEF IsCyclic

LEMMA BelowIs ==
  ASSUME Typed, NEW r \in Made
  PROVE  /\ Below[r] \subseteq Made
         /\ \A k \in Key : Get(r, k) \in Rec => Get(r, k) \in Below[r]
         /\ \A s \in Below[r] : \A k \in Key : Get(s, k) \in Rec => Get(s, k) \in Below[r]
         /\ r \in Below[r] => r \in Cyclics
         /\ \A s \in Below[r] : s \in Cyclics => r \in Cyclics
<1>1. Links \in [Made -> SUBSET Made] /\ Links[r] \subseteq Made
  BY LinksIs
<1>2. Below[r] = Reach(Made, Links[r], Links)
  BY DEF Below
<1>3. Below[r] \subseteq Made
  BY <1>2, ReachType
<1>4. Links[r] \subseteq Below[r] /\ Closed(Below[r], Links)
  BY <1>1, <1>2, ReachRoots, ReachClosed
<1>5. \A s \in Made, k \in Key : Get(s, k) \in Rec => Get(s, k) \in Links[s]
  BY DEF Links, Values
<1>6. ASSUME NEW s \in Below[r] PROVE \A k \in Key : Get(s, k) \in Rec => Get(s, k) \in Below[r]
  BY <1>3, <1>4, <1>5 DEF Closed
<1>7. \A k \in Key : Get(r, k) \in Rec => Get(r, k) \in Below[r]
  BY <1>4, <1>5
<1>8. r \in Reach(Made, {r}, Links) /\ Closed(Reach(Made, {r}, Links), Links)
  <2>1. {r} \subseteq Made
    OBVIOUS
  <2>2. QED
    BY <1>1, <2>1, ReachRoots, ReachClosed
<1>9. r \in Below[r] => r \in Cyclics
  BY <1>8 DEF Cyclics
<1>10. ASSUME NEW s \in Below[r], s \in Cyclics PROVE r \in Cyclics
  <2>1. PICK t \in Reach(Made, {s}, Links) : t \in Below[t]
    BY <1>10 DEF Cyclics
  <2>2. Below[r] \subseteq Reach(Made, {r}, Links)
    <3>1. Links[r] \subseteq Reach(Made, {r}, Links)
      BY <1>8 DEF Closed
    <3>2. Reach(Made, {r}, Links) \in SUBSET Made
      BY ReachType
    <3>3. QED
      BY <1>2, <1>8, <3>1, <3>2, ReachLeast
  <2>3. Reach(Made, {s}, Links) \subseteq Reach(Made, {r}, Links)
    <3>1. {s} \subseteq Reach(Made, {r}, Links)
      BY <1>10, <2>2
    <3>2. Reach(Made, {r}, Links) \in SUBSET Made
      BY ReachType
    <3>3. QED
      BY <1>8, <3>1, <3>2, ReachLeast
  <2>4. QED
    BY <2>1, <2>3 DEF Cyclics
<1>11. QED
  BY <1>3, <1>6, <1>7, <1>9, <1>10

-------------------------------------------------------------------------------
(* The steps of a comparison, as what they do to its frames. *)

\* isSubset is called, or has returned, for the record in cmp.of.
Called == cmp.state = "on" /\ cmp.turn \in {"call", "return"}

\* A frame is made for the call.
Pushes ==
  /\ cmp.turn = "call" /\ cmp'.turn = "walk" /\ rec' = rec
  /\ ~rec[cmp.of.r1].rcu
  /\ cmp'.stack = Append(cmp.stack, [of |-> cmp.of, todo |-> Keys(cmp.of.r1),
                                     sep |-> rec[cmp.of.r1].sep])
  /\ cmp'.cyclic = cmp.cyclic

\* The flag says that the call is a cycle.
Meets ==
  /\ cmp.turn = "call" /\ cmp'.turn = "return" /\ rec' = rec
  /\ rec[cmp.of.r1].rcu
  /\ cmp'.stack = cmp.stack /\ cmp'.of = cmp.of /\ cmp'.cyclic = TRUE /\ cmp'.isSub = FALSE

\* The walk passes a key.
Passed(k) == Popped \o <<[TopFrame EXCEPT !.todo = Left(TopFrame, k)]>>
Passes(k) ==
  /\ cmp.turn = "walk" /\ cmp'.turn = "walk" /\ rec' = rec
  /\ cmp.stack # <<>> /\ cmp'.stack = Passed(k) /\ cmp'.of = cmp.of /\ cmp'.cyclic = cmp.cyclic

\* The values of a key are compared in depth.
Descends(k) ==
  /\ cmp.turn = "walk" /\ cmp'.turn = "call"
  /\ cmp.stack # <<>> /\ cmp'.stack = Passed(k)
  /\ cmp'.of = Pair(Get(TopFrame.of.r1, k), Get(TopFrame.of.r2, k)) /\ cmp'.cyclic = cmp.cyclic
  /\ k \in TopFrame.todo
  /\ Get(TopFrame.of.r1, k) \in Rec /\ Get(TopFrame.of.r2, k) \in Rec
  /\ Get(TopFrame.of.r1, k) # Get(TopFrame.of.r2, k)
  /\ rec'[TopFrame.of.r1].rcu = TRUE /\ rec'[TopFrame.of.r1].sep = TopFrame.sep
  /\ \A t \in Made \ {TopFrame.of.r1} : rec'[t] = rec[t]

\* A frame returns from its walk: every key passed, or two values that differ.
Differ(v, w) == TypeName(v) # TypeName(w) \/ (v \in StrVal /\ v # w)
Returns ==
  /\ cmp.turn = "walk" /\ cmp'.turn = "return" /\ rec' = rec
  /\ cmp.stack # <<>> /\ cmp'.stack = Popped /\ cmp'.of = TopFrame.of /\ cmp'.cyclic = cmp.cyclic
  /\ \/ cmp'.isSub = TRUE /\ TopFrame.todo = {}
     \/ /\ cmp'.isSub = FALSE
        /\ \E k \in TopFrame.todo : Differ(Get(TopFrame.of.r1, k), Get(TopFrame.of.r2, k))

\* The frame has its answer, and walks on or returns.
EqualBelow == cmp.isSub /\ ~cmp.cyclic /\ Count(cmp.of.r1) = Count(cmp.of.r2)
Resumes ==
  /\ cmp.turn = "return" /\ cmp.stack # <<>> /\ cmp'.cyclic = cmp.cyclic
  /\ rec'[TopFrame.of.r1].rcu = FALSE /\ rec'[TopFrame.of.r1].sep = FALSE
  /\ \A t \in Made \ {TopFrame.of.r1} : rec'[t] = rec[t]
  /\ \/ cmp'.turn = "walk" /\ cmp'.stack = cmp.stack /\ EqualBelow
     \/ /\ cmp'.turn = "return" /\ cmp'.stack = Popped /\ cmp'.of = TopFrame.of
        /\ cmp'.isSub = FALSE /\ ~EqualBelow

Moves ==
  /\ Typed' /\ OnlyFlags /\ cmp.state = "on" /\ cmp'.state = "on" /\ cmp'.op = cmp.op
  /\ \/ Pushes \/ Meets \/ Returns \/ Resumes
     \/ \E k \in Key : Passes(k) \/ Descends(k)

LEMMA WalkMoves ==
  ASSUME Typed, NEW k \in Key, Walk(k)
  PROVE  Moves
<1>1. Typed' /\ OnlyFlags /\ cmp.stack # <<>> /\ CmpType
  BY WalkTyped DEF Typed, CmpOK
<1>2. /\ cmp.state = "on" /\ cmp.turn = "walk" /\ index' = index /\ cmp'.cyclic = cmp.cyclic
      /\ k \in TopFrame.todo
      /\ \/ /\ rec' = rec
            /\ Becomes("on", "return", TopFrame.of, Popped) /\ cmp'.isSub = FALSE
            /\ Differ(Get(TopFrame.of.r1, k), Get(TopFrame.of.r2, k))
         \/ /\ rec' = rec /\ Becomes("on", "walk", cmp.of, Passed(k))
         \/ /\ rec' = [rec EXCEPT ![TopFrame.of.r1] = [@ EXCEPT !.rcu = TRUE, !.sep = TopFrame.sep]]
            /\ Becomes("on", "call", Pair(Get(TopFrame.of.r1, k), Get(TopFrame.of.r2, k)), Passed(k))
            /\ Get(TopFrame.of.r1, k) \in Rec /\ Get(TopFrame.of.r2, k) \in Rec
            /\ Get(TopFrame.of.r1, k) # Get(TopFrame.of.r2, k)
  BY <1>1, WalkIs DEF Differ, Passed
<1>3. CASE /\ rec' = rec
           /\ Becomes("on", "return", TopFrame.of, Popped) /\ cmp'.isSub = FALSE
           /\ Differ(Get(TopFrame.of.r1, k), Get(TopFrame.of.r2, k))
  <2>1. Returns /\ cmp'.state = "on" /\ cmp'.op = cmp.op
    BY <1>1, <1>2, <1>3 DEF Returns, Becomes
  <2>2. QED
    BY <1>1, <1>2, <2>1 DEF Moves
<1>4. CASE rec' = rec /\ Becomes("on", "walk", cmp.of, Passed(k))
  <2>1. Passes(k) /\ cmp'.state = "on" /\ cmp'.op = cmp.op
    BY <1>1, <1>2, <1>4 DEF Passes, Becomes
  <2>2. QED
    BY <1>1, <1>2, <2>1 DEF Moves
<1>5. CASE /\ rec' = [rec EXCEPT ![TopFrame.of.r1] = [@ EXCEPT !.rcu = TRUE, !.sep = TopFrame.sep]]
           /\ Becomes("on", "call", Pair(Get(TopFrame.of.r1, k), Get(TopFrame.of.r2, k)), Passed(k))
           /\ Get(TopFrame.of.r1, k) \in Rec /\ Get(TopFrame.of.r2, k) \in Rec
           /\ Get(TopFrame.of.r1, k) # Get(TopFrame.of.r2, k)
  <2>1. TopFrame.sep \in BOOLEAN
    BY <1>1, TopIs DEF Typed
  <2>2. /\ rec'[TopFrame.of.r1].rcu = TRUE /\ rec'[TopFrame.of.r1].sep = TopFrame.sep
        /\ \A t \in Made \ {TopFrame.of.r1} : rec'[t] = rec[t]
    BY <1>1, <1>2, <1>5, <2>1, FlagsStep
  <2>3. Descends(k) /\ cmp'.state = "on" /\ cmp'.op = cmp.op
    BY <1>1, <1>2, <1>5, <2>2 DEF Descends, Becomes
  <2>4. QED
    BY <1>1, <1>2, <2>3 DEF Moves
<1>6. QED
  BY <1>2, <1>3, <1>4, <1>5

LEMMA CompareMoves ==
  ASSUME Typed, CompareStep
  PROVE  \/ Moves
         \/ ReturnToCaller
         \/ EnterFails \/ Answer
<1>1. CmpType
  BY DEF Typed, CmpOK
<1>2. CASE Enter
  <2>1. Typed' /\ OnlyFlags
    BY <1>2, EnterTyped
  <2>2. (Pushes \/ Meets) /\ cmp.state = "on" /\ cmp'.state = "on" /\ cmp'.op = cmp.op
    BY <1>1, <1>2, EnterIs DEF Pushes, Meets, Becomes
  <2>3. QED
    BY <2>1, <2>2 DEF Moves
<1>3. ASSUME NEW k \in Key, Walk(k) PROVE Moves
  BY <1>3, WalkMoves
<1>4. CASE WalkEnds
  <2>1. Typed' /\ OnlyFlags /\ cmp.stack # <<>> /\ TopFrame.todo = {}
    BY <1>4, WalkEndsTyped DEF WalkEnds
  <2>2. /\ cmp.state = "on" /\ cmp.turn = "walk" /\ rec' = rec
        /\ Becomes("on", "return", TopFrame.of, Popped)
        /\ cmp'.cyclic = cmp.cyclic /\ cmp'.isSub = TRUE
    BY <1>1, <1>4, <2>1, WalkEndsIs
  <2>3. Returns /\ cmp'.state = "on" /\ cmp'.op = cmp.op
    BY <2>1, <2>2 DEF Returns, Becomes
  <2>4. QED
    BY <2>1, <2>2, <2>3 DEF Moves
<1>5. CASE ReturnToWalk
  <2>1. /\ Typed' /\ OnlyFlags /\ cmp.stack # <<>>
        /\ rec'[TopFrame.of.r1].rcu = FALSE /\ rec'[TopFrame.of.r1].sep = FALSE
        /\ \A t \in Made \ {TopFrame.of.r1} : rec'[t] = rec[t]
    BY <1>5, BackToWalkTyped
  <2>2. Resumes /\ cmp.state = "on" /\ cmp'.state = "on" /\ cmp'.op = cmp.op
    BY <1>1, <1>5, <2>1, ReturnToWalkIs DEF Resumes, EqualBelow, Becomes
  <2>3. QED
    BY <2>1, <2>2 DEF Moves
<1>6. QED
  BY <1>2, <1>3, <1>4, <1>5 DEF CompareStep

-------------------------------------------------------------------------------
(* Flags and calls. *)

LEMMA StackIs ==
  ASSUME Typed
  PROVE  /\ cmp.stack \in Seq(Frame) /\ Len(cmp.stack) \in Nat
         /\ \A i \in 1 .. Len(cmp.stack) :
              /\ cmp.stack[i] \in Frame /\ cmp.stack[i].of \in Pairs(Made)
              /\ cmp.stack[i].of.r1 \in Made /\ cmp.stack[i].of.r2 \in Made
         /\ cmp.stack # <<>> => /\ Len(cmp.stack) >= 1 /\ Len(cmp.stack) \in 1 .. Len(cmp.stack)
                                /\ TopFrame = cmp.stack[Len(cmp.stack)]
                                /\ Len(cmp.stack) - 1 \in Nat
         /\ cmp.state \in {"on", "done"} => cmp.of.r1 \in Made /\ cmp.of.r2 \in Made
<1>1. /\ cmp.stack \in Seq(Frame)
      /\ cmp.state \in {"on", "done"} => cmp.of \in Pairs(Made)
  BY DEF Typed, CmpOK, CmpType
<1>2. Len(cmp.stack) \in Nat /\ \A i \in 1 .. Len(cmp.stack) : cmp.stack[i] \in Frame
  BY <1>1 DEF Typed, CmpOK, CmpType
<1>3. cmp.stack # <<>> => Len(cmp.stack) >= 1
  BY TopIs DEF Typed
<1>4. \A i \in 1 .. Len(cmp.stack) :
        /\ cmp.stack[i].of \in Pairs(Made)
        /\ cmp.stack[i].of.r1 \in Made /\ cmp.stack[i].of.r2 \in Made
  BY <1>2 DEF Frame, Pairs
<1>5. cmp.state \in {"on", "done"} => cmp.of.r1 \in Made /\ cmp.of.r2 \in Made
  BY <1>1 DEF Pairs
<1>6. cmp.stack \in Seq(Frame)
  BY DEF Typed, CmpOK, CmpType
<1> DEFINE n == Len(cmp.stack)
<1>7. n >= 1 => n \in 1 .. n /\ n - 1 \in Nat
  BY <1>2
<1>8. QED
  BY <1>2, <1>3, <1>4, <1>5, <1>6, <1>7 DEF TopFrame

LEMMA PassedIs ==
  ASSUME Typed, cmp.stack # <<>>, NEW k
  PROVE  /\ Len(Passed(k)) = Len(cmp.stack)
         /\ \A i \in 1 .. Len(cmp.stack) : /\ Passed(k)[i].of = cmp.stack[i].of
                                           /\ Passed(k)[i].sep = cmp.stack[i].sep
                                           /\ Passed(k)[i].todo \subseteq cmp.stack[i].todo
         /\ Passed(k)[Len(cmp.stack)].todo = TopFrame.todo \ {k}
         /\ \A i \in 1 .. Len(cmp.stack) - 1 : Passed(k)[i] = cmp.stack[i]
<1> DEFINE g == [TopFrame EXCEPT !.todo = Left(TopFrame, k)]
           n == Len(cmp.stack)
<1>1. /\ Len(Passed(k)) = n /\ Passed(k)[n] = g
      /\ g.of = TopFrame.of /\ g.sep = TopFrame.sep
      /\ \A i \in 1 .. n - 1 : Passed(k)[i] = cmp.stack[i]
  BY LeftIs DEF Typed, Passed
<1>2. g.todo = TopFrame.todo \ {k}
  BY TopIs DEF Typed, Frame, Left
<1> HIDE DEF g
<1>3. TopFrame = cmp.stack[n] /\ n \in Nat
  BY StackIs
<1> HIDE DEF n
<1>4. \A i \in 1 .. n : i = n \/ i \in 1 .. n - 1
  BY <1>3
<1>5. QED
  BY <1>1, <1>2, <1>3, <1>4 DEF n

LEMMA PoppedIs ==
  ASSUME Typed, cmp.stack # <<>>
  PROVE  /\ Len(Popped) = Len(cmp.stack) - 1
         /\ \A i \in 1 .. Len(cmp.stack) - 1 : Popped[i] = cmp.stack[i]
BY TopIs DEF Typed

LEMMA PushedIs ==
  ASSUME Typed, NEW f, NEW t, t = Append(cmp.stack, f)
  PROVE  /\ Len(t) = Len(cmp.stack) + 1 /\ t[Len(cmp.stack) + 1] = f
         /\ \A i \in 1 .. Len(cmp.stack) : t[i] = cmp.stack[i]
<1>1. cmp.stack \in Seq(Frame)
  BY StackIs
<1>2. QED
  BY <1>1

Flagged == {r \in Made : rec[r].rcu}

\* The records of the frames differ: none is entered twice.
Distinct == \A i, j \in 1 .. Len(cmp.stack) :
              cmp.stack[i].of.r1 = cmp.stack[j].of.r1 => i = j
FlagInv == FlagsFollowCalls /\ Distinct

Lower == {cmp.stack[i].of.r1 : i \in 1 .. Len(cmp.stack) - 1}
All == {cmp.stack[i].of.r1 : i \in 1 .. Len(cmp.stack)}

WaitsFor ==
  /\ cmp.state # "on" => Waiting = {}
  /\ cmp.state = "on" /\ cmp.turn = "walk" => Waiting = Lower
  /\ cmp.state = "on" /\ cmp.turn # "walk" => Waiting = All
LEMMA WaitingIs == Typed => WaitsFor
<1>1. SUFFICES ASSUME Typed PROVE WaitsFor
  OBVIOUS
<1>2. Len(cmp.stack) - 0 = Len(cmp.stack)
  BY <1>1, StackIs
<1>3. QED
  BY <1>2 DEF WaitsFor, Waiting, Lower, All
LEMMA WaitingThen == Typed' => WaitsFor'
BY WaitingIs, PTL

LEMMA LowerIs ==
  ASSUME Typed, cmp.stack # <<>>
  PROVE  /\ All = Lower \union {TopFrame.of.r1}
         /\ Distinct => TopFrame.of.r1 \notin Lower
<1> DEFINE n == Len(cmp.stack)
<1>1. TopFrame = cmp.stack[n] /\ n \in Nat /\ n >= 1
  BY StackIs
<1> HIDE DEF n
<1>2. /\ \A i \in 1 .. n : i = n \/ i \in 1 .. n - 1
      /\ n \in 1 .. n /\ \A i \in 1 .. n - 1 : i \in 1 .. n /\ i # n
  BY <1>1
<1>3. QED
  BY <1>1, <1>2 DEF Lower, All, Distinct, n

\* The flags and the records that wait do not change.
LEMMA FlagsRest ==
  ASSUME Typed, Typed', OnlyFlags, rec' = rec, FlagInv, Waiting' = Waiting, Distinct'
  PROVE  FlagInv'
<1>1. Flagged' = Flagged
  BY DEF Flagged, OnlyFlags
<1>2. QED
  BY <1>1 DEF FlagInv, FlagsFollowCalls, Flagged

LEMMA FlagsPush ==
  ASSUME Typed, Moves, FlagInv, Pushes
  PROVE  FlagInv'
<1> DEFINE n == Len(cmp.stack)
           f == [of |-> cmp.of, todo |-> Keys(cmp.of.r1), sep |-> rec[cmp.of.r1].sep]
<1>1. /\ Typed' /\ OnlyFlags /\ rec' = rec /\ cmp.state = "on" /\ cmp'.state = "on"
      /\ cmp.turn = "call" /\ cmp'.turn = "walk" /\ ~rec[cmp.of.r1].rcu
      /\ cmp'.stack = Append(cmp.stack, f)
  BY DEF Moves, Pushes
<1>2. f.of.r1 = cmp.of.r1
  OBVIOUS
<1> HIDE DEF f
<1>3. n \in Nat /\ Len(cmp'.stack) = n + 1 /\ cmp'.stack[n + 1] = f
      /\ \A i \in 1 .. n : cmp'.stack[i] = cmp.stack[i]
  BY <1>1, PushedIs, StackIs
<1> HIDE DEF n
<1>4. n + 1 - 1 = n
  BY <1>3
<1>5. Waiting' = All
  <2>1. Waiting' = Lower'
    BY <1>1, WaitingIs, WaitingThen DEF WaitsFor
  <2>2. Lower' = All
    BY <1>3, <1>4 DEF Lower, All, n
  <2>3. QED
    BY <2>1, <2>2
<1>6. Waiting = All
  BY <1>1, WaitingIs, WaitingThen DEF WaitsFor
<1>7. cmp.of.r1 \notin All
  <2>1. cmp.of.r1 \in Made
    BY <1>1, StackIs
  <2>2. QED
    BY <1>1, <1>6, <2>1 DEF FlagInv, FlagsFollowCalls
<1>8. Distinct'
  <2>1. SUFFICES ASSUME NEW i \in 1 .. n + 1, NEW j \in 1 .. n + 1,
                        cmp'.stack[i].of.r1 = cmp'.stack[j].of.r1
                 PROVE  i = j
    BY <1>3 DEF Distinct
  <2>2. \A l \in 1 .. n + 1 : l \in 1 .. n \/ l = n + 1
    BY <1>3
  <2>3. CASE i \in 1 .. n /\ j \in 1 .. n
    BY <1>3, <2>1, <2>3 DEF FlagInv, Distinct, n
  <2>4. \A l \in 1 .. n : cmp'.stack[l].of.r1 # cmp'.stack[n + 1].of.r1
    BY <1>2, <1>3, <1>7 DEF All, n
  <2>5. QED
    BY <2>1, <2>2, <2>3, <2>4
<1>9. QED
  BY <1>1, <1>5, <1>6, <1>8, FlagsRest

LEMMA FlagsMeet ==
  ASSUME Typed, Moves, FlagInv, Meets
  PROVE  FlagInv'
<1>1. /\ Typed' /\ OnlyFlags /\ rec' = rec /\ cmp.state = "on" /\ cmp'.state = "on"
      /\ cmp.turn = "call" /\ cmp'.turn = "return" /\ cmp'.stack = cmp.stack
  BY DEF Moves, Meets
<1>2. All' = All /\ Distinct'
  BY <1>1 DEF All, FlagInv, Distinct
<1>3. Waiting' = All' /\ Waiting = All
  BY <1>1, WaitingIs, WaitingThen DEF WaitsFor
<1>4. QED
  BY <1>1, <1>2, <1>3, FlagsRest

\* The frames below the top, when a key is passed and when the top is popped.
LEMMA PassedLower ==
  ASSUME Typed, cmp.stack # <<>>, NEW k, cmp'.stack = Passed(k)
  PROVE  Lower' = Lower /\ All' = All /\ (Distinct => Distinct')
<1> DEFINE n == Len(cmp.stack)
<1>1. /\ Len(cmp'.stack) = n /\ n \in Nat
      /\ \A i \in 1 .. n : cmp'.stack[i].of = cmp.stack[i].of
  BY PassedIs, StackIs
<1> HIDE DEF n
<1>2. \A i \in 1 .. n - 1 : i \in 1 .. n
  BY <1>1
<1>3. Lower' = Lower /\ All' = All
  BY <1>1, <1>2 DEF Lower, All, n
<1>4. QED
  BY <1>1, <1>3 DEF Distinct, n

LEMMA PoppedLower ==
  ASSUME Typed, cmp.stack # <<>>, cmp'.stack = Popped
  PROVE  All' = Lower /\ (Distinct => Distinct')
<1> DEFINE n == Len(cmp.stack)
<1>1. /\ Len(cmp'.stack) = n - 1 /\ n \in Nat
      /\ \A i \in 1 .. n - 1 : cmp'.stack[i] = cmp.stack[i]
  BY PoppedIs, StackIs
<1> HIDE DEF n
<1>2. \A i \in 1 .. n - 1 : i \in 1 .. n
  BY <1>1
<1>3. All' = Lower
  BY <1>1 DEF Lower, All, n
<1>4. QED
  BY <1>1, <1>2, <1>3 DEF Distinct, n

LEMMA FlagsWalk ==
  ASSUME Typed, Moves, FlagInv, Returns \/ \E k \in Key : Passes(k) \/ Descends(k)
  PROVE  FlagInv'
<1>1. Typed' /\ OnlyFlags /\ cmp.state = "on" /\ cmp'.state = "on"
  BY DEF Moves
<1>2. cmp.turn = "walk" /\ cmp.stack # <<>>
  BY DEF Returns, Passes, Descends
<1>3. Waiting = Lower
  BY <1>1, <1>2, WaitingIs, WaitingThen DEF WaitsFor
<1>4. CASE Returns
  <2>1. cmp'.turn = "return" /\ rec' = rec /\ cmp'.stack = Popped
    BY <1>4 DEF Returns
  <2>2. Waiting' = All'
    BY <1>1, <2>1, WaitingIs, WaitingThen DEF WaitsFor
  <2>3. All' = Lower /\ Distinct'
    BY <1>2, <2>1, PoppedLower DEF FlagInv
  <2>4. QED
    BY <1>1, <1>3, <2>1, <2>2, <2>3, FlagsRest
<1>5. ASSUME NEW k \in Key, Passes(k) PROVE FlagInv'
  <2>1. cmp'.turn = "walk" /\ rec' = rec /\ cmp'.stack = Passed(k)
    BY <1>5 DEF Passes
  <2>2. Waiting' = Lower'
    BY <1>1, <2>1, WaitingIs, WaitingThen DEF WaitsFor
  <2>3. Lower' = Lower /\ Distinct'
    BY <1>2, <2>1, PassedLower DEF FlagInv
  <2>4. QED
    BY <1>1, <1>3, <2>1, <2>2, <2>3, FlagsRest
<1>6. ASSUME NEW k \in Key, Descends(k) PROVE FlagInv'
  <2>1. /\ cmp'.turn = "call" /\ cmp'.stack = Passed(k)
        /\ rec'[TopFrame.of.r1].rcu = TRUE
        /\ \A t \in Made \ {TopFrame.of.r1} : rec'[t] = rec[t]
    BY <1>6 DEF Descends
  <2>2. Waiting' = All'
    BY <1>1, <2>1, WaitingIs, WaitingThen DEF WaitsFor
  <2>3. All' = All /\ Distinct'
    BY <1>2, <2>1, PassedLower DEF FlagInv
  <2>4. All = Lower \union {TopFrame.of.r1}
    BY <1>2, LowerIs
  <2>5. TopFrame.of.r1 \in Made /\ Made' = Made
    BY <1>1, <1>2, StackIs DEF OnlyFlags
  <2>6. Flagged' = Flagged \union {TopFrame.of.r1}
    BY <2>1, <2>5 DEF Flagged
  <2>7. QED
    BY <1>3, <2>2, <2>3, <2>4, <2>6 DEF FlagInv, FlagsFollowCalls, Flagged
<1>7. QED
  BY <1>4, <1>5, <1>6

LEMMA FlagsResume ==
  ASSUME Typed, Moves, FlagInv, Resumes
  PROVE  FlagInv'
<1>1. Typed' /\ OnlyFlags /\ cmp.state = "on" /\ cmp'.state = "on"
  BY DEF Moves
<1>2. /\ cmp.turn = "return" /\ cmp.stack # <<>>
      /\ rec'[TopFrame.of.r1].rcu = FALSE
      /\ \A t \in Made \ {TopFrame.of.r1} : rec'[t] = rec[t]
      /\ \/ cmp'.turn = "walk" /\ cmp'.stack = cmp.stack
         \/ cmp'.turn = "return" /\ cmp'.stack = Popped
  BY DEF Resumes
<1>3. Waiting = All /\ All = Lower \union {TopFrame.of.r1} /\ TopFrame.of.r1 \notin Lower
  BY <1>1, <1>2, WaitingIs, LowerIs DEF WaitsFor, FlagInv
<1>4. Waiting' = Lower /\ Distinct'
  <2>1. CASE cmp'.turn = "walk" /\ cmp'.stack = cmp.stack
    <3>1. Lower' = Lower /\ Distinct'
      BY <2>1 DEF Lower, FlagInv, Distinct
    <3>2. Waiting' = Lower'
      BY <1>1, <2>1, WaitingIs, WaitingThen DEF WaitsFor
    <3>3. QED
      BY <3>1, <3>2
  <2>2. CASE cmp'.turn = "return" /\ cmp'.stack = Popped
    <3>1. All' = Lower /\ Distinct'
      BY <1>2, <2>2, PoppedLower DEF FlagInv
    <3>2. Waiting' = All'
      BY <1>1, <2>2, WaitingIs, WaitingThen DEF WaitsFor
    <3>3. QED
      BY <3>1, <3>2
  <2>3. QED
    BY <1>2, <2>1, <2>2
<1>5. TopFrame.of.r1 \in Made /\ Made' = Made
  BY <1>1, <1>2, StackIs DEF OnlyFlags
<1>6. Flagged' = Flagged \ {TopFrame.of.r1}
  BY <1>2, <1>5 DEF Flagged
<1>7. QED
  BY <1>3, <1>4, <1>6 DEF FlagInv, FlagsFollowCalls, Flagged

LEMMA FlagsMove ==
  ASSUME Typed, Moves, FlagInv
  PROVE  FlagInv'
BY FlagsPush, FlagsMeet, FlagsWalk, FlagsResume DEF Moves

\* Without frames, and without flags.
Unframed == Typed /\ cmp.stack = <<>> => (FlagInv <=> Flagged = {})
LEMMA NoFrames == Unframed
<1> SUFFICES ASSUME Typed, cmp.stack = <<>> PROVE FlagInv <=> Flagged = {}
  BY DEF Unframed
<1>1. Len(cmp.stack) = 0 /\ 1 .. 0 = {} /\ 1 .. 0 - 1 = {}
  OBVIOUS
<1>2. Distinct /\ Lower = {} /\ All = {}
  BY <1>1 DEF Distinct, Lower, All
<1>3. Waiting = {}
  BY <1>2, WaitingIs DEF WaitsFor
<1>4. QED
  BY <1>2, <1>3 DEF FlagInv, FlagsFollowCalls, Flagged
LEMMA NoFramesThen == Unframed'
BY NoFrames, PTL

LEMMA FlagsStored ==
  ASSUME Typed, FlagInv, NEW r, NEW x, Keeps(r, x)
  PROVE  FlagInv'
<1>1. Typed' /\ cmp' = cmp /\ Ready
  BY StoresTyped DEF Keeps, Stores
<1>2. cmp = Idle
  BY <1>1 DEF Typed, CmpOK, Ready
<1>3. cmp.stack = <<>> /\ cmp'.stack = <<>>
  BY <1>1, <1>2 DEF Idle
<1>4. Flagged = {}
  BY <1>3, NoFrames, NoFramesThen DEF Unframed
<1>5. Flagged' = {}
  <2>1. RecOK /\ r \in Rec /\ x \in RecType /\ rec' = [rec EXCEPT ![r] = x]
        /\ \A l \in DOMAIN x.vals : x.vals[l] \in Rec => x.vals[l] \in Made \union {r}
    BY DEF Keeps, Stores, Typed
  <2>2. Made' = Made \union {r} /\ rec'[r] = x /\ \A s \in Rec \ {r} : rec'[s] = rec[s]
    BY <2>1, Stored
  <2>3. ~x.rcu
    BY <1>4 DEF Keeps, Flagged
  <2>4. Made \subseteq Rec
    BY DEF Made
  <2>5. QED
    BY <1>4, <2>2, <2>3, <2>4 DEF Flagged
<1>6. QED
  BY <1>1, <1>3, <1>5, NoFrames, NoFramesThen DEF Unframed

LEMMA FlagsNext ==
  ASSUME Typed, FlagInv, [Next]_vars, "compare" \notin Fails
  PROVE  FlagInv'
<1>1. Typed'
  BY NextTyped
<1>2. CASE ProgramStep
  BY <1>2, ProgramKeeps, FlagsStored
<1>3. ASSUME NEW op, NEW r1, NEW r2, Compare(op, r1, r2) PROVE FlagInv'
  <2>1. OnlyFlags /\ rec' = rec /\ Ready /\ cmp'.stack = <<>>
    BY <1>3, BeginsTyped
  <2>2. cmp.stack = <<>>
    BY <2>1 DEF Typed, CmpOK, Ready, Idle
  <2>3. Flagged' = Flagged
    BY <2>1 DEF Flagged, OnlyFlags
  <2>4. QED
    BY <1>1, <2>1, <2>2, <2>3, NoFrames, NoFramesThen DEF Unframed
<1>4. CASE Moves
  BY <1>4, FlagsMove
<1>5. CASE ReturnToCaller
  <2>1. CmpType
    BY DEF Typed, CmpOK
  <2>2. cmp.stack = <<>> /\ rec' = rec /\ cmp'.stack = cmp.stack
    BY <1>5, <2>1, ReturnToCallerIs DEF Becomes
  <2>3. Flagged' = Flagged
    BY <2>2 DEF Flagged, Made
  <2>4. QED
    BY <1>1, <2>2, <2>3, NoFrames, NoFramesThen DEF Unframed
<1>6. CASE EnterFails \/ Answer
  <2>1. cmp.state \in {"done", "failed"} /\ rec' = rec /\ cmp'.stack = <<>>
    BY <1>6, EndsTyped
  <2>2. cmp.stack = <<>>
    BY <2>1 DEF Typed, CmpOK
  <2>3. Flagged' = Flagged
    BY <2>1 DEF Flagged, Made
  <2>4. QED
    BY <1>1, <2>1, <2>2, <2>3, NoFrames, NoFramesThen DEF Unframed
<1>7. CASE UNCHANGED vars
  BY <1>7 DEF vars, FlagInv, FlagsFollowCalls, Waiting, Made, Distinct
<1>8. QED
  BY <1>2, <1>3, <1>4, <1>5, <1>6, <1>7, NextIs, CompareMoves

LEMMA FlagInvariant == "compare" \notin Fails => (Spec => [](Typed /\ FlagInv))
<1>1. Init => FlagInv
  <2>1. SUFFICES ASSUME Init PROVE FlagInv
    OBVIOUS
  <2>2. Typed /\ cmp.stack = <<>>
    BY <2>1, InitTyped DEF Init, Idle
  <2>3. Flagged = {}
    BY <2>1 DEF Init, Flagged, Made
  <2>4. QED
    BY <2>2, <2>3, NoFrames, NoFramesThen DEF Unframed
<1>2. SUFFICES ASSUME "compare" \notin Fails PROVE Spec => [](Typed /\ FlagInv)
  OBVIOUS
<1>3. Typed /\ FlagInv /\ [Next]_vars => (Typed /\ FlagInv)'
  BY <1>2, FlagsNext, NextTyped
<1>4. QED
  BY <1>1, <1>3, InitTyped, PTL DEF Spec

-------------------------------------------------------------------------------
(* Cycles: each frame is reached from the frames below it. *)

Linked == \A i, j \in 1 .. Len(cmp.stack) :
            i < j => cmp.stack[j].of.r1 \in Below[cmp.stack[i].of.r1]
CallLinked == cmp.state = "on" /\ cmp.turn # "walk" =>
                \A i \in 1 .. Len(cmp.stack) : cmp.of.r1 \in Below[cmp.stack[i].of.r1]
CycleFound == cmp.state \in {"on", "done"} /\ cmp.cyclic =>
                cmp.turn = "return" /\ cmp.of.r1 \in Cyclics
CycleInv == Linked /\ CallLinked /\ CycleFound

\* What a step of a comparison leaves of them.
LEMMA LinksPush ==
  ASSUME Typed, Moves, FlagInv, CycleInv, Pushes
  PROVE  CycleInv'
<1> DEFINE n == Len(cmp.stack)
           f == [of |-> cmp.of, todo |-> Keys(cmp.of.r1), sep |-> rec[cmp.of.r1].sep]
<1>1. /\ Typed' /\ OnlyFlags /\ cmp.state = "on" /\ cmp'.state = "on"
      /\ cmp.turn = "call" /\ cmp'.turn = "walk" /\ cmp'.cyclic = cmp.cyclic
      /\ cmp'.stack = Append(cmp.stack, f)
  BY DEF Moves, Pushes
<1>2. f.of.r1 = cmp.of.r1
  OBVIOUS
<1> HIDE DEF f
<1>3. n \in Nat /\ Len(cmp'.stack) = n + 1 /\ cmp'.stack[n + 1] = f
      /\ \A i \in 1 .. n : cmp'.stack[i] = cmp.stack[i]
  BY <1>1, PushedIs, StackIs
<1>4. ~cmp'.cyclic
  BY <1>1 DEF CycleInv, CycleFound
<1>5. Below' = Below
  BY <1>1, SameLinks
<1>6. \A i \in 1 .. n : cmp.of.r1 \in Below[cmp.stack[i].of.r1]
  BY <1>1 DEF CycleInv, CallLinked
<1>7. \A i, j \in 1 .. n : i < j => cmp.stack[j].of.r1 \in Below[cmp.stack[i].of.r1]
  BY DEF CycleInv, Linked
<1> HIDE DEF n
<1>8. \A i, j \in 1 .. n + 1 : i < j => i \in 1 .. n /\ (j \in 1 .. n \/ j = n + 1)
  BY <1>3
<1>9. Linked'
  BY <1>2, <1>3, <1>5, <1>6, <1>7, <1>8 DEF Linked
<1>10. QED
  BY <1>1, <1>4, <1>9 DEF CycleInv, CallLinked, CycleFound

LEMMA LinksMeet ==
  ASSUME Typed, Moves, FlagInv, CycleInv, Meets
  PROVE  CycleInv'
<1>1. /\ Typed' /\ OnlyFlags /\ cmp.state = "on" /\ cmp'.state = "on"
      /\ cmp.turn = "call" /\ cmp'.turn = "return" /\ rec[cmp.of.r1].rcu
      /\ cmp'.stack = cmp.stack /\ cmp'.of = cmp.of
  BY DEF Moves, Meets
<1>2. Below' = Below /\ Cyclics' = Cyclics
  BY <1>1, SameLinks
<1>3. cmp.of.r1 \in Made
  BY <1>1, StackIs
<1>4. cmp.of.r1 \in All
  <2>1. Waiting = All
    BY <1>1, WaitingIs DEF WaitsFor
  <2>2. QED
    BY <1>1, <1>3, <2>1 DEF FlagInv, FlagsFollowCalls
<1>5. cmp.of.r1 \in Below[cmp.of.r1]
  BY <1>1, <1>4 DEF All, CycleInv, CallLinked
<1>6. cmp.of.r1 \in Cyclics
  BY <1>3, <1>5, BelowIs
<1>7. QED
  BY <1>1, <1>2, <1>6 DEF CycleInv, Linked, CallLinked, CycleFound

LEMMA LinksWalk ==
  ASSUME Typed, Moves, FlagInv, CycleInv, NEW k \in Key, Passes(k) \/ Descends(k)
  PROVE  CycleInv'
<1> DEFINE n == Len(cmp.stack)
<1>1. /\ Typed' /\ OnlyFlags /\ cmp.state = "on" /\ cmp'.state = "on"
      /\ cmp.turn = "walk" /\ cmp.stack # <<>> /\ cmp'.stack = Passed(k)
      /\ cmp'.cyclic = cmp.cyclic
  BY DEF Moves, Passes, Descends
<1>2. Below' = Below
  BY <1>1, SameLinks
<1>3. ~cmp'.cyclic
  BY <1>1 DEF CycleInv, CycleFound
<1>4. Len(cmp'.stack) = n /\ \A i \in 1 .. n : cmp'.stack[i].of = cmp.stack[i].of
  BY <1>1, PassedIs
<1>5. Linked'
  BY <1>2, <1>4 DEF CycleInv, Linked
<1>6. CallLinked'
  <2>1. CASE Passes(k)
    BY <2>1 DEF Passes, CallLinked
  <2>2. CASE Descends(k)
    <3>1. /\ cmp'.of = Pair(Get(TopFrame.of.r1, k), Get(TopFrame.of.r2, k))
          /\ Get(TopFrame.of.r1, k) \in Rec
      BY <2>2 DEF Descends
    <3>2. cmp'.of.r1 = Get(TopFrame.of.r1, k)
      BY <3>1 DEF Pair
    <3>3. TopFrame = cmp.stack[n] /\ n \in Nat
      BY <1>1, StackIs
    <3>4. ASSUME NEW i \in 1 .. n PROVE cmp'.of.r1 \in Below[cmp.stack[i].of.r1]
      <4>1. cmp.stack[i].of.r1 \in Made
        BY StackIs
      <4>2. CASE i = n
        BY <3>1, <3>2, <3>3, <4>1, <4>2, BelowIs
      <4>3. CASE i # n
        <5>1. i < n /\ n \in 1 .. n
          BY <3>3, <4>3
        <5>2. TopFrame.of.r1 \in Below[cmp.stack[i].of.r1]
          BY <3>3, <5>1 DEF CycleInv, Linked
        <5>3. QED
          BY <3>1, <3>2, <4>1, <5>2, BelowIs
      <4>4. QED
        BY <4>2, <4>3
    <3>5. QED
      BY <1>2, <1>4, <3>4 DEF CallLinked
  <2>3. QED
    BY <2>1, <2>2
<1>7. QED
  BY <1>3, <1>5, <1>6 DEF CycleInv, CycleFound

\* The top is popped, and its record is what was called.
LEMMA LinksPop ==
  ASSUME Typed, OnlyFlags, CycleInv, cmp.stack # <<>>, cmp'.stack = Popped,
         cmp'.of = TopFrame.of, cmp'.state = "on"
  PROVE  Linked' /\ CallLinked'
<1> DEFINE n == Len(cmp.stack)
<1>1. Below' = Below
  BY SameLinks
<1>2. Len(cmp'.stack) = n - 1 /\ \A i \in 1 .. n - 1 : cmp'.stack[i] = cmp.stack[i]
  BY PoppedIs
<1>3. n \in Nat /\ TopFrame = cmp.stack[n] /\ n >= 1
  BY StackIs
<1>4. \A i, j \in 1 .. n : i < j => cmp.stack[j].of.r1 \in Below[cmp.stack[i].of.r1]
  BY DEF CycleInv, Linked
<1> HIDE DEF n
<1>5. \A i \in 1 .. n - 1 : i \in 1 .. n /\ i < n /\ n \in 1 .. n
  BY <1>3
<1>6. Linked'
  BY <1>1, <1>2, <1>4, <1>5 DEF Linked
<1>7. CallLinked'
  BY <1>1, <1>2, <1>3, <1>4, <1>5 DEF CallLinked
<1>8. QED
  BY <1>6, <1>7

LEMMA LinksReturn ==
  ASSUME Typed, Moves, FlagInv, CycleInv, Returns
  PROVE  CycleInv'
<1>1. /\ Typed' /\ OnlyFlags /\ cmp.state = "on" /\ cmp'.state = "on"
      /\ cmp.turn = "walk" /\ cmp.stack # <<>> /\ cmp'.stack = Popped /\ cmp'.of = TopFrame.of
      /\ cmp'.cyclic = cmp.cyclic
  BY DEF Moves, Returns
<1>2. ~cmp'.cyclic
  BY <1>1 DEF CycleInv, CycleFound
<1>3. QED
  BY <1>1, <1>2, LinksPop DEF CycleInv, CycleFound

LEMMA LinksResume ==
  ASSUME Typed, Moves, FlagInv, CycleInv, Resumes
  PROVE  CycleInv'
<1>1. /\ Typed' /\ OnlyFlags /\ cmp.state = "on" /\ cmp'.state = "on"
      /\ cmp.turn = "return" /\ cmp.stack # <<>> /\ cmp'.cyclic = cmp.cyclic
      /\ \/ cmp'.turn = "walk" /\ cmp'.stack = cmp.stack /\ EqualBelow
         \/ cmp'.turn = "return" /\ cmp'.stack = Popped /\ cmp'.of = TopFrame.of
  BY DEF Moves, Resumes
<1>2. Below' = Below /\ Cyclics' = Cyclics
  BY <1>1, SameLinks
<1>3. CASE cmp'.turn = "walk" /\ cmp'.stack = cmp.stack /\ EqualBelow
  BY <1>1, <1>2, <1>3 DEF CycleInv, Linked, CallLinked, CycleFound, EqualBelow
<1>4. CASE cmp'.turn = "return" /\ cmp'.stack = Popped /\ cmp'.of = TopFrame.of
  <2>1. Linked' /\ CallLinked'
    BY <1>1, <1>4, LinksPop
  <2>2. cmp.cyclic => TopFrame.of.r1 \in Cyclics
    <3>1. SUFFICES ASSUME cmp.cyclic PROVE TopFrame.of.r1 \in Cyclics
      OBVIOUS
    <3>2. cmp.of.r1 \in Cyclics
      BY <1>1, <3>1 DEF CycleInv, CycleFound
    <3>3. /\ TopFrame = cmp.stack[Len(cmp.stack)] /\ Len(cmp.stack) \in 1 .. Len(cmp.stack)
          /\ TopFrame.of.r1 \in Made
      BY <1>1, StackIs
    <3>4. cmp.of.r1 \in Below[TopFrame.of.r1]
      BY <1>1, <3>3 DEF CycleInv, CallLinked
    <3>5. QED
      BY <3>2, <3>3, <3>4, BelowIs
  <2>3. QED
    BY <1>1, <1>2, <1>4, <2>1, <2>2 DEF CycleInv, CycleFound
<1>5. QED
  BY <1>1, <1>3, <1>4

\* Without frames and without a cycle.
LEMMA Unlinked == cmp.stack = <<>> /\ ~cmp.cyclic => CycleInv
<1>1. cmp.stack = <<>> => 1 .. Len(cmp.stack) = {}
  OBVIOUS
<1>2. QED
  BY <1>1 DEF CycleInv, Linked, CallLinked, CycleFound

UnlinkedClaim == cmp.stack = <<>> /\ ~cmp.cyclic => CycleInv
LEMMA UnlinkedThen == UnlinkedClaim'
<1>1. UnlinkedClaim
  BY Unlinked DEF UnlinkedClaim
<1>2. QED
  BY <1>1, PTL

LEMMA CycleNext ==
  ASSUME Typed, FlagInv, CycleInv, [Next]_vars
  PROVE  CycleInv'
<1>1. Typed'
  BY NextTyped
<1>2. CASE ProgramStep
  <2>1. cmp' = cmp /\ Ready
    BY <1>2, ProgramKeeps DEF Keeps, Stores
  <2>2. cmp'.stack = <<>> /\ ~cmp'.cyclic
    BY <2>1 DEF Typed, CmpOK, Ready, Idle
  <2>3. QED
    BY <2>2, UnlinkedThen DEF UnlinkedClaim
<1>3. ASSUME NEW op, NEW r1, NEW r2, Compare(op, r1, r2) PROVE CycleInv'
  <2>1. cmp'.stack = <<>> /\ ~cmp'.cyclic
    BY <1>3, BeginsTyped
  <2>2. QED
    BY <2>1, UnlinkedThen DEF UnlinkedClaim
<1>4. CASE Moves
  BY <1>4, LinksPush, LinksMeet, LinksWalk, LinksReturn, LinksResume DEF Moves
<1>5. CASE ReturnToCaller
  <2>1. CmpType /\ OnlyFlags
    BY <1>5, BackToCallerTyped DEF Typed, CmpOK
  <2>2. /\ cmp.state = "on" /\ cmp'.state = "done" /\ cmp'.turn = "return" /\ cmp'.of = cmp.of
        /\ cmp'.stack = cmp.stack /\ cmp'.cyclic = cmp.cyclic
    BY <1>5, <2>1, ReturnToCallerIs DEF Becomes
  <2>3. Below' = Below /\ Cyclics' = Cyclics
    BY <2>1, SameLinks
  <2>4. QED
    BY <2>2, <2>3 DEF CycleInv, Linked, CallLinked, CycleFound
<1>6. CASE EnterFails \/ Answer
  <2>1. /\ cmp'.stack = <<>>
        /\ cmp' = Idle \/ cmp' = [Idle EXCEPT !.state = "failed"]
    BY <1>6, EndsTyped DEF EnterFails
  <2>2. ~cmp'.cyclic
    BY <2>1 DEF Idle
  <2>3. QED
    BY <2>1, <2>2, UnlinkedThen DEF UnlinkedClaim
<1>7. CASE UNCHANGED vars
  <2>1. cmp' = cmp /\ OnlyFlags
    BY <1>7, StutterTyped DEF vars
  <2>2. Below' = Below /\ Cyclics' = Cyclics
    BY <2>1, SameLinks
  <2>3. QED
    BY <2>1, <2>2 DEF CycleInv, Linked, CallLinked, CycleFound
<1>8. QED
  BY <1>2, <1>3, <1>4, <1>5, <1>6, <1>7, NextIs, CompareMoves

LEMMA CycleInvariant == "compare" \notin Fails => (Spec => [](Typed /\ FlagInv /\ CycleInv))
<1>1. SUFFICES ASSUME "compare" \notin Fails PROVE Spec => [](Typed /\ FlagInv /\ CycleInv)
  OBVIOUS
<1>2. Spec => [](Typed /\ FlagInv)
  BY <1>1, FlagInvariant
<1>3. Init => CycleInv
  <2>1. Init => cmp.stack = <<>> /\ ~cmp.cyclic
    BY DEF Init, Idle
  <2>2. QED
    BY <2>1, Unlinked
<1>4. Typed /\ FlagInv /\ CycleInv /\ [Next]_vars => CycleInv'
  BY CycleNext
<1>5. QED
  BY <1>2, <1>3, <1>4, PTL DEF Spec

\* FlagsFollowCalls, unless a comparison runs out of memory.
THEOREM FlagsFollowHolds == "compare" \notin Fails => (Spec => []FlagsFollowCalls)
<1>1. Typed /\ FlagInv => FlagsFollowCalls
  BY DEF FlagInv
<1>2. QED
  BY <1>1, FlagInvariant, PTL

\* CycleIsRight, unless an earlier comparison ran out of memory.
THEOREM CycleIsRightHolds == "compare" \notin Fails => (Spec => []CycleIsRight)
<1>1. Typed /\ FlagInv /\ CycleInv => CycleIsRight
  BY CyclicIs DEF CycleInv, CycleFound, CycleIsRight
<1>2. QED
  BY <1>1, CycleInvariant, PTL

-------------------------------------------------------------------------------
(* Records that are never separated: their slots are those of their keys.  *)

\* A record whose array is whole, and whose slots in use have a key.
Within(x, n) == \A l \in DOMAIN x.vals : x.vals[l] # Udf => l < n
Plain(x, ix) == x \in RecType /\ ~x.sep /\ IsSound(x) /\ Within(x, Len(ix[x.idx]))

PlainInv ==
  /\ \A r \in Made : Plain(rec[r], index)
  /\ \A i \in 1 .. Len(cmp.stack) : ~cmp.stack[i].sep

\* A key of another record, or a new one, moves nothing that is there.
LEMMA KeepsField ==
  ASSUME IndexOK, NEW i \in Idx, NEW k \in Key, NEW x, Plain(x, index), NEW j \in Key
  PROVE  FieldAt(x, Loc(WithKey(i, k)[x.idx], j)) = FieldAt(x, Loc(index[x.idx], j))
<1> DEFINE ix == WithKey(i, k)
<1>1. /\ x \in RecType /\ IsSound(x) /\ x.idx \in Idx
      /\ Within(x, Len(index[x.idx]))
  BY Fields DEF Plain
<1>2. x.idx # i \/ j # k => Loc(ix[x.idx], j) = Loc(index[x.idx], j)
  BY <1>1, WithKeyIs
<1>3. CASE Loc(ix[x.idx], j) = Loc(index[x.idx], j)
  BY <1>3
<1>4. CASE Loc(ix[x.idx], j) # Loc(index[x.idx], j)
  <2>1. x.idx = i /\ j = k
    BY <1>2, <1>4
  <2>2. Loc(index[i], k) = -1 /\ Loc(ix[i], k) = Len(index[i]) /\ Len(index[i]) \in Nat
    BY <1>4, <2>1, WithKeyIs
  <2>3. FieldAt(x, -1) = Udf
    <3>1. -1 \notin DOMAIN x.vals
      BY <1>1, CapIs DEF IsSound
    <3>2. QED
      BY <1>1, <3>1, FieldType
  <2>4. FieldAt(x, Len(index[i])) = Udf
    <3>1. SUFFICES ASSUME FieldAt(x, Len(index[i])) # Udf PROVE FALSE
      OBVIOUS
    <3>2. Len(index[i]) \in DOMAIN x.vals /\ x.vals[Len(index[i])] # Udf
      BY <1>1, <3>1, FieldType
    <3>3. Len(index[i]) < Len(index[i])
      BY <1>1, <2>1, <3>2 DEF Within
    <3>4. QED
      BY <2>2, <3>3
  <2>5. QED
    BY <2>1, <2>2, <2>3, <2>4
<1>5. QED
  BY <1>3, <1>4

\* An insertion leaves a record plain.
LEMMA KeepsPlain ==
  ASSUME IndexOK, NEW i \in Idx, NEW k \in Key, NEW x, Plain(x, index)
  PROVE  Plain(x, WithKey(i, k))
<1>1. x \in RecType /\ x.idx \in Idx
  BY Fields DEF Plain
<1>2. /\ Len(index[x.idx]) \in Nat /\ Len(WithKey(i, k)[x.idx]) \in Nat
      /\ Len(index[x.idx]) <= Len(WithKey(i, k)[x.idx])
  BY <1>1, WithKeyIs, LocIs
<1>3. \A l \in DOMAIN x.vals : l \in Nat
  BY <1>1, Fields, ArrayIs
<1>4. Within(x, Len(WithKey(i, k)[x.idx]))
  <2>1. Within(x, Len(index[x.idx]))
    BY DEF Plain
  <2>2. ASSUME NEW l \in DOMAIN x.vals, x.vals[l] # Udf PROVE l < Len(WithKey(i, k)[x.idx])
    <3>1. l < Len(index[x.idx]) /\ l \in Nat
      BY <1>3, <2>1, <2>2 DEF Within
    <3>2. QED
      BY <1>2, <3>1
  <2>3. QED
    BY <2>2 DEF Within
<1>5. QED
  BY <1>4 DEF Plain

\* The fields of a record, of an index with these keys.
FieldOf(x, ix, k) == FieldAt(x, Loc(ix[x.idx], k))

LEMMA GetIs == \A r, k : Get(r, k) = FieldOf(rec[r], index, k)
BY DEF Get, FieldOf

\* What a definition leaves of a record, and of its fields.
LEMMA DefinedPlain ==
  ASSUME IndexOK, NEW x, Plain(x, index), NEW k \in Key, NEW v \in Val \union {Udf},
         NEW ix, ix = WithKey(x.idx, k), NEW l, l = Loc(ix[x.idx], k),
         l \in Nat, l + 1 <= ValsCap[MaxRow]
  PROVE  /\ Plain(Defined(x, l, v), ix) /\ FieldOf(Defined(x, l, v), ix, k) = v
         /\ \A j \in Key \ {k} : FieldOf(Defined(x, l, v), ix, j) = FieldOf(x, index, j)
<1> DEFINE y == Defined(x, l, v)
<1>1. x \in RecType /\ ~x.sep /\ IsSound(x) /\ x.idx \in Idx
  BY Fields DEF Plain
<1>2. /\ y \in RecType /\ IsSound(y) /\ y.idx = x.idx /\ y.sep = x.sep
      /\ l \in DOMAIN y.vals /\ y.vals[l] = v
      /\ DOMAIN x.vals \subseteq DOMAIN y.vals
      /\ \A m \in DOMAIN y.vals : m # l =>
           y.vals[m] = IF m \in DOMAIN x.vals THEN x.vals[m] ELSE Udf
  BY <1>1, DefinedIs
<1> HIDE DEF y
<1>3. /\ Keyed(ix[x.idx]) /\ l < Len(ix[x.idx]) /\ Len(ix[x.idx]) \in Nat
      /\ Plain(x, ix)
  BY <1>1, WithKeyIs, LocIs, KeepsPlain
<1>4. Plain(y, ix)
  <2>1. ASSUME NEW m \in DOMAIN y.vals, y.vals[m] # Udf PROVE m < Len(ix[x.idx])
    BY <1>2, <1>3, <2>1 DEF Plain, Within
  <2>2. QED
    BY <1>1, <1>2, <2>1 DEF Plain, Within
<1>5. FieldOf(y, ix, k) = v
  BY <1>2, SoundSlots DEF FieldOf
<1>6. ASSUME NEW j \in Key \ {k} PROVE FieldOf(y, ix, j) = FieldOf(x, index, j)
  <2> DEFINE m == Loc(ix[x.idx], j)
  <2>1. m \in Int /\ m # l
    <3>1. m \in Int /\ (m # -1 => ix[x.idx][m + 1] = j)
      BY <1>3, LocIs
    <3>2. l # -1 /\ ix[x.idx][l + 1] = k
      BY <1>3, LocIs
    <3>3. QED
      BY <3>1, <3>2
  <2>2. FieldAt(y, m) = FieldAt(x, m)
    <3> HIDE DEF m
    <3>1. CASE m \in DOMAIN x.vals
      BY <1>1, <1>2, <2>1, <3>1, SoundSlots
    <3>2. CASE m \notin DOMAIN x.vals
      <4>1. FieldAt(x, m) = Udf
        BY <1>1, <2>1, <3>2, SoundSlots
      <4>2. m \in DOMAIN y.vals => y.vals[m] = Udf
        BY <1>2, <2>1, <3>2
      <4>3. FieldAt(y, m) = Udf
        BY <1>2, <2>1, <4>2, SoundSlots
      <4>4. QED
        BY <4>1, <4>3
    <3>3. QED
      BY <3>1, <3>2
  <2>3. FieldAt(x, m) = FieldAt(x, Loc(index[x.idx], j))
    BY <1>1, <1>3, KeepsField
  <2>4. QED
    BY <1>2, <2>2, <2>3 DEF FieldOf
<1>7. QED
  BY <1>4, <1>5, <1>6 DEF y

\* What an assignment leaves.
Assigned(x, l, v) == [x EXCEPT !.vals[l] = v]
LEMMA SetPlain ==
  ASSUME IndexOK, NEW x, Plain(x, index), NEW k \in Key, NEW v \in Val \union {Udf},
         NEW l, l = Loc(index[x.idx], k), l \in DOMAIN x.vals, x.vals[l] # Udf
  PROVE  /\ Plain(Assigned(x, l, v), index) /\ FieldOf(Assigned(x, l, v), index, k) = v
         /\ \A j \in Key \ {k} : FieldOf(Assigned(x, l, v), index, j) = FieldOf(x, index, j)
<1>1. x \in RecType /\ ~x.sep /\ IsSound(x) /\ x.idx \in Idx
  BY Fields DEF Plain
<1> DEFINE a == [x.vals EXCEPT ![l] = v]
           y == Assigned(x, l, v)
<1>2. /\ y \in RecType
      /\ y = [idx |-> x.idx, sep |-> x.sep, rcu |-> x.rcu, row |-> x.row, vals |-> a]
  BY <1>1, ValSet DEF Assigned
<1>3. DOMAIN a = DOMAIN x.vals /\ a[l] = v /\ \A m \in DOMAIN x.vals : m # l => a[m] = x.vals[m]
  BY <1>1, Fields, ArraySet
<1> HIDE DEF a, y
<1>4. y.idx = x.idx /\ y.sep = x.sep /\ y.row = x.row /\ y.vals = a
  BY <1>2
<1>5. IsSound(y)
  BY <1>1, <1>3, <1>4 DEF IsSound, CapOf
<1>6. Plain(y, index)
  <2>1. Within(y, Len(index[y.idx]))
    BY <1>3, <1>4 DEF Plain, Within
  <2>2. QED
    BY <1>1, <1>2, <1>4, <1>5, <2>1 DEF Plain
<1>7. Keyed(index[x.idx])
  BY <1>1 DEF IndexOK, Keyed
<1>8. l \in Nat
  BY <1>1, Fields, ArrayIs
<1>12. \A m \in Int : /\ m \in DOMAIN y.vals => FieldAt(y, m) = y.vals[m]
                      /\ m \notin DOMAIN y.vals => FieldAt(y, m) = Udf
  BY <1>2, <1>5, SoundSlots
<1>14. /\ DOMAIN y.vals = DOMAIN x.vals /\ y.vals[l] = v
       /\ \A m \in DOMAIN x.vals : m # l => y.vals[m] = x.vals[m]
  BY <1>3, <1>4, Zenon
<1>15. l \in Int
  BY <1>8
<1>13. FieldAt(y, l) = v
  BY <1>12, <1>14, <1>15, Zenon
<1>9. FieldOf(y, index, k) = v
  BY <1>4, <1>13 DEF FieldOf
<1>10. ASSUME NEW j \in Key \ {k} PROVE FieldOf(y, index, j) = FieldOf(x, index, j)
  <2> DEFINE m == Loc(index[x.idx], j)
  <2>1. m \in Int /\ (m # -1 => index[x.idx][m + 1] = j)
    BY <1>7, LocIs
  <2>2. l # -1 /\ index[x.idx][l + 1] = k
    BY <1>7, <1>8, LocIs
  <2>3. m # l
    BY <2>1, <2>2
  <2> HIDE DEF m
  <2>4. FieldAt(y, m) = FieldAt(x, m)
    <3>1. /\ m \in DOMAIN x.vals => FieldAt(x, m) = x.vals[m]
          /\ m \notin DOMAIN x.vals => FieldAt(x, m) = Udf
      BY <1>1, <2>1, SoundSlots
    <3>2. QED
      BY <1>12, <1>14, <2>1, <2>3, <3>1
  <2>5. QED
    BY <1>4, <2>4 DEF FieldOf, m
<1>11. QED
  BY <1>6, <1>9, <1>10 DEF y

\* How a step of the program changes the fields of all records.
Content == [p \in Rec \X Key |-> IF p[1] \in Made THEN Get(p[1], p[2]) ELSE Udf]
OneField == \/ Content' = Content
            \/ \E p \in Rec \X Key, v \in Val \union {Udf} : Content' = [Content EXCEPT ![p] = v]

LEMMA SameContent ==
  ASSUME Made' = Made, \A r \in Made, k \in Key : Get(r, k)' = Get(r, k)
  PROVE  Content' = Content
BY DEF Content

\* A record is stored, and an index may have one more key.
LEMMA PlainStored ==
  ASSUME Typed, PlainInv, NEW r \in Rec, NEW x, Stores(r, x), Plain(x, index'),
         index' = index \/ \E i \in Idx, k \in Key : index' = WithKey(i, k)
  PROVE  /\ PlainInv'
         /\ Made' = Made \union {r} /\ rec'[r] = x
         /\ \A s \in Made \ {r} : \A k \in Key : FieldOf(rec'[s], index', k) = Get(s, k)
<1>1. Made' = Made \union {r} /\ rec'[r] = x /\ \A s \in Rec \ {r} : rec'[s] = rec[s]
  <2>1. RecOK /\ x \in RecType /\ rec' = [rec EXCEPT ![r] = x]
        /\ \A l \in DOMAIN x.vals : x.vals[l] \in Rec => x.vals[l] \in Made \union {r}
    BY DEF Stores, Typed
  <2>2. QED
    BY <2>1, Stored
<1>2. IndexOK /\ Made \subseteq Rec
  BY DEF Typed, Made
<1>3. ASSUME NEW s \in Made
      PROVE  /\ Plain(rec[s], index')
             /\ \A k \in Key : FieldOf(rec[s], index', k) = Get(s, k)
  <2>1. Plain(rec[s], index)
    BY DEF PlainInv
  <2>2. CASE index' = index
    BY <2>1, <2>2, GetIs
  <2>3. ASSUME NEW i \in Idx, NEW k \in Key, index' = WithKey(i, k)
        PROVE  /\ Plain(rec[s], index')
               /\ \A j \in Key : FieldOf(rec[s], index', j) = Get(s, j)
    <3>1. Plain(rec[s], index')
      BY <1>2, <2>1, <2>3, KeepsPlain
    <3>2. \A j \in Key : FieldAt(rec[s], Loc(WithKey(i, k)[rec[s].idx], j))
                            = FieldAt(rec[s], Loc(index[rec[s].idx], j))
      BY <1>2, <2>1, KeepsField
    <3>3. QED
      BY <2>3, <3>1, <3>2 DEF FieldOf, Get
  <2>4. QED
    BY <2>2, <2>3
<1>4. \A s \in Made \ {r} : rec'[s] = rec[s]
  BY <1>1, <1>2
<1>5. \A s \in Made' : Plain(rec'[s], index')
  BY <1>1, <1>3, <1>4
<1>6. \A i \in 1 .. Len(cmp'.stack) : ~cmp'.stack[i].sep
  BY DEF PlainInv, Stores
<1>7. QED
  BY <1>1, <1>3, <1>4, <1>5, <1>6 DEF PlainInv

\* As what it stores differs from what was there in one field, or in none.
LEMMA OneStored ==
  ASSUME Typed, NEW r \in Made, NEW x, NEW k \in Key, NEW v \in Val \union {Udf},
         Made' = Made \union {r}, rec'[r] = x,
         \A s \in Made \ {r} : \A j \in Key : FieldOf(rec'[s], index', j) = Get(s, j),
         FieldOf(x, index', k) = v,
         \A j \in Key \ {k} : FieldOf(x, index', j) = Get(r, j)
  PROVE  OneField
<1> DEFINE p == <<r, k>>
<1>1. r \in Rec /\ p \in Rec \X Key /\ Made' = Made
  BY DEF Made
<1>2. \A q \in Rec \X Key : q = p <=> q[1] = r /\ q[2] = k
  OBVIOUS
<1>3. ASSUME NEW s \in Made, NEW j \in Key
      PROVE  Get(s, j)' = IF s = r /\ j = k THEN v ELSE Get(s, j)
  <2>1. Get(s, j)' = FieldOf(rec'[s], index', j)
    BY DEF Get, FieldOf
  <2>2. QED
    BY <2>1
<1>4. ASSUME NEW q \in Rec \X Key
      PROVE  Content'[q] = IF q = p THEN v ELSE Content[q]
  <2>1. q[2] \in Key /\ Content[q] = IF q[1] \in Made THEN Get(q[1], q[2]) ELSE Udf
    BY DEF Content
  <2>2. Content'[q] = IF q[1] \in Made THEN Get(q[1], q[2])' ELSE Udf
    BY <1>1 DEF Content
  <2>3. CASE q[1] \in Made
    BY <1>2, <1>3, <2>1, <2>2, <2>3
  <2>4. CASE q[1] \notin Made
    <3>1. q # p
      BY <2>4
    <3>2. QED
      BY <2>1, <2>2, <2>4, <3>1
  <2>5. QED
    BY <2>3, <2>4
<1>5. Content = [q \in Rec \X Key |-> Content[q]] /\ Content' = [q \in Rec \X Key |-> Content'[q]]
  BY DEF Content
<1>6. Content' = [Content EXCEPT ![p] = v]
  <2> HIDE DEF p
  <2>1. QED
    BY <1>4, <1>5
<1>7. QED
  BY <1>1, <1>6 DEF OneField

LEMMA MakePlain ==
  ASSUME Typed, PlainInv, NEW r \in Rec, NEW i \in Idx, MakeRec(r, i)
  PROVE  PlainInv' /\ OneField
<1> DEFINE x == Fresh(i)
<1>1. Stores(r, x) /\ rec[r] = Null /\ index' = index
  BY MakeStores
<1>2. /\ x \in RecType /\ \A l \in DOMAIN x.vals : x.vals[l] = Udf
      /\ IsSound(x) /\ ~x.sep /\ x.idx = i
  BY FreshIs DEF Typed, Fresh
<1> HIDE DEF x
<1>3. Plain(x, index')
  BY <1>1, <1>2 DEF Plain, Within
<1>4. /\ PlainInv' /\ Made' = Made \union {r} /\ rec'[r] = x
      /\ \A s \in Made \ {r} : \A k \in Key : FieldOf(rec'[s], index', k) = Get(s, k)
  BY <1>1, <1>3, PlainStored
<1>5. r \notin Made
  BY <1>1 DEF Made
<1>6. \A k \in Key : FieldOf(x, index', k) = Udf
  BY <1>2, FieldType DEF FieldOf
<1>7. ASSUME NEW s \in Rec, NEW k \in Key
      PROVE  (IF s \in Made THEN Get(s, k) ELSE Udf)' = IF s \in Made THEN Get(s, k) ELSE Udf
  <2>1. Get(s, k)' = FieldOf(rec'[s], index', k)
    BY DEF Get, FieldOf
  <2>2. CASE s = r
    BY <1>4, <1>5, <1>6, <2>1, <2>2
  <2>3. CASE s # r
    BY <1>4, <2>1, <2>3
  <2>4. QED
    BY <2>2, <2>3
<1>8. Content' = Content
  <2>1. \A p \in Rec \X Key : p[1] \in Rec /\ p[2] \in Key
    OBVIOUS
  <2>2. QED
    BY <1>7, <2>1 DEF Content
<1>9. QED
  BY <1>4, <1>8 DEF OneField

LEMMA DefPlain ==
  ASSUME Typed, PlainInv, NEW r \in Rec, NEW k \in Key, NEW v \in Val \union {Udf}, RecDef(r, k, v)
  PROVE  PlainInv' /\ OneField
<1>1. r \in Made /\ IsSound(rec[r])
  BY DefStores
<1>2. PICK x \in Prepared(rec[r]) :
              LET l == Loc(WithKey(x.idx, k)[x.idx], k)
              IN /\ IsSound(x) /\ x \in RecType /\ x.idx \in Idx /\ index' = WithKey(x.idx, k)
                 /\ l \in Nat /\ l + 1 <= ValsCap[MaxRow]
                 /\ Stores(r, Defined(x, l, v))
  BY DefStores
<1>3. Plain(rec[r], index) /\ IndexOK
  BY <1>1 DEF PlainInv, Typed
<1>4. x = rec[r]
  BY <1>3 DEF Plain, Prepared
<1> DEFINE l == Loc(index'[x.idx], k)
           y == Defined(x, l, v)
<1>5. /\ l \in Nat /\ l + 1 <= ValsCap[MaxRow] /\ index' = WithKey(x.idx, k) /\ x.idx \in Idx
      /\ Stores(r, y)
  BY <1>2
<1>6. /\ Plain(y, index') /\ FieldOf(y, index', k) = v
      /\ \A j \in Key \ {k} : FieldOf(y, index', j) = FieldOf(x, index, j)
  <2>1. Plain(x, index)
    BY <1>3, <1>4
  <2>2. QED
    BY <1>3, <1>5, <2>1, DefinedPlain
<1> HIDE DEF y, l
<1>7. /\ PlainInv' /\ Made' = Made \union {r} /\ rec'[r] = y
      /\ \A s \in Made \ {r} : \A j \in Key : FieldOf(rec'[s], index', j) = Get(s, j)
  BY <1>5, <1>6, PlainStored
<1>8. \A j \in Key \ {k} : FieldOf(y, index', j) = Get(r, j)
  BY <1>4, <1>6, GetIs
<1>9. OneField
  BY <1>1, <1>6, <1>7, <1>8, OneStored
<1>10. QED
  BY <1>7, <1>9

LEMMA DefFailPlain ==
  ASSUME Typed, PlainInv, NEW r \in Rec, NEW k \in Key, RecDefFails(r, k)
  PROVE  PlainInv' /\ OneField
<1>1. r \in Made /\ IsSound(rec[r])
  BY DefFailStores
<1>2. PICK x \in Prepared(rec[r]) :
              IsSound(x) /\ x.idx \in Idx /\ index' = WithKey(x.idx, k) /\ Stores(r, x)
  BY DefFailStores
<1>3. Plain(rec[r], index) /\ IndexOK
  BY <1>1 DEF PlainInv, Typed
<1>4. x = rec[r]
  BY <1>3 DEF Plain, Prepared
<1>5. Plain(x, index')
  BY <1>2, <1>3, <1>4, KeepsPlain
<1>6. /\ PlainInv' /\ Made' = Made \union {r} /\ rec'[r] = x
      /\ \A s \in Made \ {r} : \A j \in Key : FieldOf(rec'[s], index', j) = Get(s, j)
  BY <1>2, <1>5, PlainStored
<1>7. ASSUME NEW s \in Made, NEW j \in Key PROVE Get(s, j)' = Get(s, j)
  <2>1. Get(s, j)' = FieldOf(rec'[s], index', j)
    BY DEF Get, FieldOf
  <2>2. CASE s # r
    BY <1>6, <2>1, <2>2
  <2>3. CASE s = r
    <3>1. FieldAt(x, Loc(WithKey(x.idx, k)[x.idx], j)) = FieldAt(x, Loc(index[x.idx], j))
      BY <1>2, <1>3, <1>4, KeepsField
    <3>2. QED
      BY <1>2, <1>4, <1>6, <2>1, <2>3, <3>1 DEF FieldOf, Get
  <2>4. QED
    BY <2>2, <2>3
<1>8. Made' = Made
  BY <1>1, <1>6
<1>9. Content' = Content
  BY <1>7, <1>8, SameContent
<1>10. QED
  BY <1>6, <1>9 DEF OneField

LEMMA SetPlainStep ==
  ASSUME Typed, PlainInv, NEW r \in Rec, NEW k \in Key, NEW v \in Val \union {Udf}, RecSet(r, k, v)
  PROVE  PlainInv' /\ OneField
<1> DEFINE x == rec[r]
           l == Loc(index[x.idx], k)
           y == Assigned(x, l, v)
<1>1. /\ r \in Made /\ index' = index /\ l \in DOMAIN x.vals /\ x.vals[l] # Udf /\ Stores(r, y)
  BY SetStores DEF Assigned
<1>2. Plain(x, index) /\ IndexOK
  BY <1>1 DEF PlainInv, Typed
<1>3. /\ Plain(y, index) /\ FieldOf(y, index, k) = v
      /\ \A j \in Key \ {k} : FieldOf(y, index, j) = FieldOf(x, index, j)
  <2> HIDE DEF x
  <2>1. QED
    BY <1>1, <1>2, SetPlain
<1> HIDE DEF y, l
<1>4. /\ PlainInv' /\ Made' = Made \union {r} /\ rec'[r] = y
      /\ \A s \in Made \ {r} : \A j \in Key : FieldOf(rec'[s], index', j) = Get(s, j)
  BY <1>1, <1>3, PlainStored
<1>5. \A j \in Key \ {k} : FieldOf(y, index', j) = Get(r, j)
  BY <1>1, <1>3, GetIs
<1>6. FieldOf(y, index', k) = v
  BY <1>1, <1>3
<1>7. OneField
  BY <1>1, <1>4, <1>5, <1>6, OneStored
<1>8. QED
  BY <1>4, <1>7

\* A comparison leaves them plain.
LEMMA FlagsPlain ==
  ASSUME Typed, PlainInv, OnlyFlags, \A r \in Made : ~rec'[r].sep,
         \A i \in 1 .. Len(cmp'.stack) : ~cmp'.stack[i].sep
  PROVE  PlainInv'
<1>1. ASSUME NEW r \in Made PROVE Plain(rec'[r], index')
  <2>1. /\ rec'[r] \in RecType /\ rec'[r].idx = rec[r].idx /\ rec'[r].row = rec[r].row
        /\ rec'[r].vals = rec[r].vals /\ index' = index
    BY DEF OnlyFlags
  <2>2. IsSound(rec[r]) /\ Within(rec[r], Len(index[rec[r].idx]))
    BY DEF PlainInv, Plain
  <2>3. IsSound(rec'[r]) /\ Within(rec'[r], Len(index'[rec'[r].idx]))
    BY <2>1, <2>2 DEF IsSound, CapOf, Within
  <2>4. QED
    BY <2>1, <2>3 DEF Plain
<1>2. Made' = Made
  BY DEF OnlyFlags
<1>3. QED
  BY <1>1, <1>2 DEF PlainInv

LEMMA MovesPlain ==
  ASSUME Typed, PlainInv, Moves
  PROVE  PlainInv'
<1> DEFINE n == Len(cmp.stack)
<1>1. OnlyFlags /\ \A r \in Made : ~rec[r].sep
  BY DEF Moves, PlainInv, Plain
<1>2. n \in Nat /\ \A i \in 1 .. n : ~cmp.stack[i].sep
  BY StackIs DEF PlainInv
<1>3. cmp.stack # <<>> => TopFrame.of.r1 \in Made /\ ~TopFrame.sep
  <2>1. cmp.stack # <<>> => TopFrame = cmp.stack[n] /\ n \in 1 .. n
    BY StackIs
  <2>2. QED
    BY <1>2, <2>1, StackIs
<1>4. \A r \in Made : ~rec'[r].sep
  <2>1. CASE Pushes \/ Meets \/ Returns \/ \E k \in Key : Passes(k)
    BY <1>1, <2>1 DEF Pushes, Meets, Returns, Passes
  <2>2. CASE \E k \in Key : Descends(k)
    BY <1>1, <1>3, <2>2 DEF Descends
  <2>3. CASE Resumes
    BY <1>1, <1>3, <2>3 DEF Resumes
  <2>4. QED
    BY <2>1, <2>2, <2>3 DEF Moves
<1>5. \A i \in 1 .. Len(cmp'.stack) : ~cmp'.stack[i].sep
  <2>1. CASE Pushes
    <3> DEFINE f == [of |-> cmp.of, todo |-> Keys(cmp.of.r1), sep |-> rec[cmp.of.r1].sep]
    <3>1. cmp'.stack = Append(cmp.stack, f)
      BY <2>1 DEF Pushes
    <3>2. ~f.sep
      BY <1>1, StackIs DEF Moves
    <3> HIDE DEF f
    <3>3. Len(cmp'.stack) = n + 1 /\ cmp'.stack[n + 1] = f
          /\ \A i \in 1 .. n : cmp'.stack[i] = cmp.stack[i]
      BY <3>1, PushedIs
    <3> HIDE DEF n
    <3>4. \A i \in 1 .. n + 1 : i \in 1 .. n \/ i = n + 1
      BY <1>2
    <3>5. QED
      BY <1>2, <3>2, <3>3, <3>4
  <2>2. CASE cmp'.stack = cmp.stack
    BY <1>2, <2>2
  <2>3. CASE cmp.stack # <<>> /\ cmp'.stack = Popped
    <3>1. Len(cmp'.stack) = n - 1 /\ \A i \in 1 .. n - 1 : cmp'.stack[i] = cmp.stack[i]
      BY <2>3, PoppedIs
    <3> HIDE DEF n
    <3>2. \A i \in 1 .. n - 1 : i \in 1 .. n
      BY <1>2
    <3>3. QED
      BY <1>2, <3>1, <3>2
  <2>4. ASSUME NEW k \in Key, cmp.stack # <<>>, cmp'.stack = Passed(k)
        PROVE  \A i \in 1 .. Len(cmp'.stack) : ~cmp'.stack[i].sep
    <3>1. Len(cmp'.stack) = n /\ \A i \in 1 .. n : cmp'.stack[i].sep = cmp.stack[i].sep
      BY <2>4, PassedIs
    <3> HIDE DEF n
    <3>2. QED
      BY <1>2, <3>1
  <2>5. QED
    BY <2>1, <2>2, <2>3, <2>4 DEF Moves, Meets, Returns, Passes, Descends, Resumes
<1>6. QED
  BY <1>1, <1>4, <1>5, FlagsPlain

\* The frames are gone, or there were none.
LEMMA EmptyPlain ==
  ASSUME Typed, PlainInv, OnlyFlags, rec' = rec, cmp'.stack = <<>> \/ cmp'.stack = cmp.stack
  PROVE  PlainInv'
<1>1. \A r \in Made : ~rec'[r].sep
  BY DEF PlainInv, Plain
<1>2. \A i \in 1 .. Len(cmp'.stack) : ~cmp'.stack[i].sep
  <2>1. cmp'.stack = <<>> => 1 .. Len(cmp'.stack) = {}
    OBVIOUS
  <2>2. QED
    BY <2>1 DEF PlainInv
<1>3. QED
  BY <1>1, <1>2, FlagsPlain

LEMMA FlagsContent ==
  ASSUME Typed, OnlyFlags
  PROVE  Content' = Content
<1>1. Made' = Made /\ \A r \in Made, k \in Key : Get(r, k)' = Get(r, k)
  BY SameGet DEF OnlyFlags
<1>2. QED
  BY <1>1, SameContent

LEMMA PlainNext ==
  ASSUME Typed, PlainInv, [Next]_vars, Seps = FALSE
  PROVE  PlainInv' /\ OneField
<1>1. CASE ProgramStep
  <2>1. PICK r \in Rec : \/ \E i \in Idx : MakeRec(r, i)
                 \/ RecSep(r) \/ RecDefOverruns(r)
                 \/ \E k \in Key : \/ RecDefFails(r, k)
                                   \/ \E v \in Val \union {Udf} : RecDef(r, k, v) \/ RecSet(r, k, v)
    BY <1>1 DEF ProgramStep
  <2>2. ~RecSep(r)
    BY DEF RecSep
  <2>3. ~RecDefOverruns(r)
    <3>1. SUFFICES ASSUME RecDefOverruns(r) PROVE FALSE
      OBVIOUS
    <3>2. r \in Made /\ \E x \in Prepared(rec[r]) : ~IsSound(x)
      BY <3>1, OverrunStores
    <3>3. Plain(rec[r], index)
      BY <3>2 DEF PlainInv
    <3>4. QED
      BY <3>2, <3>3 DEF Plain, Prepared
  <2>4. QED
    BY <2>1, <2>2, <2>3, MakePlain, DefPlain, DefFailPlain, SetPlainStep
<1>2. ASSUME NEW op, NEW r1, NEW r2, Compare(op, r1, r2) PROVE PlainInv' /\ OneField
  <2>1. OnlyFlags /\ rec' = rec /\ cmp'.stack = <<>>
    BY <1>2, BeginsTyped
  <2>2. QED
    BY <2>1, EmptyPlain, FlagsContent DEF OneField
<1>3. CASE Moves
  BY <1>3, MovesPlain, FlagsContent DEF OneField, Moves
<1>4. CASE ReturnToCaller
  <2>1. CmpType /\ OnlyFlags
    BY <1>4, BackToCallerTyped DEF Typed, CmpOK
  <2>2. cmp'.stack = cmp.stack /\ rec' = rec
    BY <1>4, <2>1, ReturnToCallerIs DEF Becomes
  <2>3. QED
    BY <2>1, <2>2, EmptyPlain, FlagsContent DEF OneField
<1>5. CASE EnterFails \/ Answer
  <2>1. OnlyFlags /\ rec' = rec /\ cmp'.stack = <<>>
    BY <1>5, EndsTyped
  <2>2. QED
    BY <2>1, EmptyPlain, FlagsContent DEF OneField
<1>6. CASE UNCHANGED vars
  <2>1. OnlyFlags /\ rec' = rec /\ cmp' = cmp
    BY <1>6, StutterTyped DEF vars
  <2>2. QED
    BY <2>1, EmptyPlain, FlagsContent DEF OneField
<1>7. QED
  BY <1>1, <1>2, <1>3, <1>4, <1>5, <1>6, NextIs, CompareMoves

LEMMA PlainInvariant == Seps = FALSE => (Spec => [](Typed /\ PlainInv))
<1>1. Init => PlainInv
  <2>1. SUFFICES ASSUME Init PROVE PlainInv
    OBVIOUS
  <2>2. Made = {} /\ 1 .. Len(cmp.stack) = {}
    BY <2>1 DEF Init, Made, Idle
  <2>3. QED
    BY <2>2 DEF PlainInv
<1>2. SUFFICES ASSUME Seps = FALSE PROVE Spec => [](Typed /\ PlainInv)
  OBVIOUS
<1>3. Typed /\ PlainInv /\ [Next]_vars => (Typed /\ PlainInv)'
  BY <1>2, NextTyped, PlainNext
<1>4. QED
  BY <1>1, <1>3, InitTyped, PTL DEF Spec

-------------------------------------------------------------------------------
(* Slots. *)

LEMMA CountIs ==
  ASSUME Typed, NEW r \in Made, Plain(rec[r], index)
  PROVE  /\ Count(r) = Cardinality(Keys(r)) /\ IsFiniteSet(Keys(r))
         /\ Cardinality(Keys(r)) \in Nat
<1> DEFINE x == rec[r]
           keys == index[x.idx]
           slots == {l \in DOMAIN x.vals : x.vals[l] # Udf}
           where == [k \in Keys(r) |-> Loc(keys, k)]
<1>1. /\ x \in RecType /\ IsSound(x) /\ x.idx \in Idx /\ Within(x, Len(keys))
      /\ DOMAIN x.vals \subseteq Nat
  BY Fields, ArrayIs DEF Plain
<1>2. Keyed(keys) /\ keys \in Seq(Key) /\ Len(keys) \in Nat
  BY <1>1, LocIs DEF Typed, IndexOK, Keyed
<1>3. ASSUME NEW k \in Keys(r)
      PROVE  where[k] \in slots /\ where[k] \in Nat /\ keys[where[k] + 1] = k
  <2>1. where[k] = Loc(keys, k) /\ FieldAt(x, Loc(keys, k)) # Udf
    BY DEF Keys, Get
  <2>2. Loc(keys, k) \in DOMAIN x.vals /\ FieldAt(x, Loc(keys, k)) = x.vals[Loc(keys, k)]
    BY <1>1, <2>1, FieldType
  <2>3. Loc(keys, k) \in Nat /\ (Loc(keys, k) # -1 => keys[Loc(keys, k) + 1] = k)
    BY <1>1, <1>2, <2>2, LocIs
  <2>4. QED
    BY <2>1, <2>2, <2>3
<1>4. ASSUME NEW l \in slots
      PROVE  \E k \in Keys(r) : where[k] = l
  <2>1. l \in Nat /\ l < Len(keys) /\ l \in DOMAIN x.vals /\ x.vals[l] # Udf
    BY <1>1 DEF Within
  <2>2. l + 1 \in 1 .. Len(keys)
    BY <1>2, <2>1
  <2>3. keys[l + 1] \in Key
    BY <1>2, <2>2
  <2>4. Loc(keys, keys[l + 1]) = (l + 1) - 1
    <3> DEFINE j == l + 1
               k == keys[j]
    <3>1. j \in 1 .. Len(keys)
      BY <2>2
    <3> HIDE DEF k, j, keys
    <3>2. Loc(keys, k) = j - 1
      BY <1>2, <3>1, LocIs DEF k
    <3>3. QED
      BY <3>2 DEF k, j, keys
  <2>5. Loc(keys, keys[l + 1]) = l
    BY <2>1, <2>4
  <2>6. Get(r, keys[l + 1]) = x.vals[l]
    BY <1>1, <2>1, <2>5, SoundSlots DEF Get
  <2>7. keys[l + 1] \in Keys(r)
    BY <2>1, <2>3, <2>6 DEF Keys
  <2>8. QED
    BY <2>5, <2>7
<1>5. where \in Bijection(Keys(r), slots)
  <2> HIDE DEF x, slots, keys
  <2>1. where \in [Keys(r) -> slots]
    BY <1>3
  <2>2. DOMAIN where = Keys(r)
    OBVIOUS
  <2> HIDE DEF where
  <2>3. IsInjective(where)
    BY <1>3, <2>2 DEF IsInjective
  <2>4. QED
    BY <1>4, <2>1, <2>3 DEF Bijection, Injection, Surjection
<1>6. IsFiniteSet(Keys(r))
  BY RecordAssumption, FS_Subset DEF Keys
<1>7. Cardinality(slots) = Cardinality(Keys(r))
  <2> HIDE DEF slots, where
  <2>1. ExistsBijection(Keys(r), slots)
    BY <1>5 DEF ExistsBijection
  <2>2. QED
    BY <1>6, <2>1, FS_Bijection
<1>8. Count(r) = Cardinality(slots)
  BY DEF Count
<1>9. QED
  BY <1>6, <1>7, <1>8, FS_CardinalityType

\* SlotsExist, of records that are not separated.
THEOREM SlotsExistHolds == Seps = FALSE => (Spec => []SlotsExist)
<1>1. Typed /\ PlainInv => SlotsExist
  BY CountIs DEF PlainInv, Plain, SlotsExist
<1>2. QED
  BY <1>1, PlainInvariant, PTL

-------------------------------------------------------------------------------
(* The refinement of Fields. *)

Where == Rec \X Key
Filled(c) == {<<p[1], p[2], c[p]>> : p \in {q \in Where : c[q] # Udf}}
Fld == {f \in Gets : f[3] # Udf}

LEMMA FilledIs ==
  ASSUME NEW c, NEW f
  PROVE  f \in Filled(c) <=> \E p \in Where : f = <<p[1], p[2], c[p]>> /\ c[p] # Udf
BY DEF Filled

LEMMA FieldsAre == Fld = Filled(Content)
<1>0. Made \subseteq Rec
  BY DEF Made
<1>1. ASSUME NEW f \in Fld PROVE f \in Filled(Content)
  <2>1. PICK r \in Made, k \in Key : f = <<r, k, Get(r, k)>>
    BY DEF Fld, Gets
  <2>2. f[3] = Get(r, k) /\ Get(r, k) # Udf
    BY <2>1 DEF Fld
  <2> DEFINE p == <<r, k>>
  <2>3. p \in Where /\ p[1] = r /\ p[2] = k
    BY <1>0 DEF Where
  <2> HIDE DEF p
  <2>4. Content[p] = Get(r, k)
    BY <2>3 DEF Content, Where
  <2>5. QED
    BY <2>1, <2>2, <2>3, <2>4, FilledIs
<1>2. ASSUME NEW f \in Filled(Content) PROVE f \in Fld
  <2>1. PICK p \in Where : f = <<p[1], p[2], Content[p]>> /\ Content[p] # Udf
    BY FilledIs
  <2>2. Content[p] = (IF p[1] \in Made THEN Get(p[1], p[2]) ELSE Udf) /\ p[2] \in Key
    BY DEF Content, Where
  <2>3. p[1] \in Made /\ Content[p] = Get(p[1], p[2])
    BY <2>1, <2>2
  <2> DEFINE r == p[1]
             k == p[2]
  <2>4. f = <<r, k, Get(r, k)>> /\ r \in Made /\ k \in Key /\ Get(r, k) # Udf
    BY <2>1, <2>2, <2>3
  <2> HIDE DEF r, k
  <2>5. f[3] # Udf
    BY <2>4
  <2>6. QED
    BY <2>4, <2>5 DEF Fld, Gets
<1>3. QED
  BY <1>1, <1>2

LEMMA FieldsThen == Fld' = Filled(Content')
<1>1. (Fld = Filled(Content))'
  BY FieldsAre, PTL
<1>2. QED
  BY <1>1 DEF Filled, Where

\* A record has one value for a key.
LEMMA OneValue ==
  ASSUME NEW c
  PROVE  Cardinality(Store!FieldsOf(Filled(c))) = Cardinality(Filled(c))
<1> DEFINE F == Filled(c)
           G == Store!FieldsOf(F)
           key == [f \in F |-> <<f[1], f[2]>>]
           S == {q \in Where : c[q] # Udf}
           make == [p \in S |-> <<p[1], p[2], c[p]>>]
<1>1. IsFiniteSet(S)
  <2>1. IsFiniteSet(Where)
    BY RecordAssumption, FS_Product DEF Where
  <2>2. QED
    BY <2>1, FS_Subset
<1>2. IsFiniteSet(F)
  <2>1. F = {make[p] : p \in S}
    BY DEF Filled
  <2>2. make \in Surjection(S, F)
    BY <2>1 DEF Surjection
  <2> HIDE DEF make, S, F
  <2>3. QED
    BY <1>1, <2>2, FS_Surjection
<1>3. \A f \in F : \E p \in Where : f = <<p[1], p[2], c[p]>>
  BY DEF Filled
<1>4. G = {<<f[1], f[2]>> : f \in F}
  BY DEF Store!FieldsOf
<1> HIDE DEF F, G
<1>5. key \in Surjection(F, G)
  BY <1>4 DEF Surjection
<1>6. IsInjective(key)
  <2>1. SUFFICES ASSUME NEW f \in F, NEW g \in F, <<f[1], f[2]>> = <<g[1], g[2]>>
                 PROVE  f = g
    BY DEF IsInjective
  <2>2. PICK p \in Where : f = <<p[1], p[2], c[p]>>
    BY <1>3
  <2>3. PICK q \in Where : g = <<q[1], q[2], c[q]>>
    BY <1>3
  <2>4. p[1] = q[1] /\ p[2] = q[2]
    BY <2>1, <2>2, <2>3
  <2>5. p = q
    BY <2>4 DEF Where
  <2>6. QED
    BY <2>2, <2>3, <2>5
<1>7. key \in Bijection(F, G)
  <2>1. key \in [F -> G]
    BY <1>5 DEF Surjection
  <2>2. QED
    BY <1>5, <1>6, <2>1 DEF Bijection, Injection
<1>8. ExistsBijection(F, G)
  BY <1>7 DEF ExistsBijection
<1>9. Cardinality(G) = Cardinality(F)
  BY <1>2, <1>8, FS_Bijection
<1>10. QED
  BY <1>9 DEF F, G

\* A change of one field is a write.
LEMMA OneWrite ==
  ASSUME NEW c, NEW d, NEW p \in Where, NEW v, c = [q \in Where |-> c[q]], d = [c EXCEPT ![p] = v],
         Filled(c) # Filled(d)
  PROVE  Cardinality(Store!FieldsOf((Filled(c) \ Filled(d)) \union (Filled(d) \ Filled(c)))) = 1
<1> DEFINE D == (Filled(c) \ Filled(d)) \union (Filled(d) \ Filled(c))
<1>1. \A q \in Where : q # p => d[q] = c[q]
  OBVIOUS
<1>2. \A f \in D : \E e \in {c, d} : f = <<p[1], p[2], e[p]>>
  <2>1. SUFFICES ASSUME NEW f \in D PROVE \E e \in {c, d} : f = <<p[1], p[2], e[p]>>
    OBVIOUS
  <2>2. CASE f \in Filled(c) /\ f \notin Filled(d)
    <3>1. PICK q \in Where : f = <<q[1], q[2], c[q]>> /\ c[q] # Udf
      BY <2>2, FilledIs
    <3>2. ~(f = <<q[1], q[2], d[q]>> /\ d[q] # Udf)
      BY <2>2, FilledIs
    <3>3. q = p
      BY <1>1, <3>1, <3>2
    <3>4. QED
      BY <3>1, <3>3
  <2>3. CASE f \in Filled(d) /\ f \notin Filled(c)
    <3>1. PICK q \in Where : f = <<q[1], q[2], d[q]>> /\ d[q] # Udf
      BY <2>3, FilledIs
    <3>2. ~(f = <<q[1], q[2], c[q]>> /\ c[q] # Udf)
      BY <2>3, FilledIs
    <3>3. q = p
      BY <1>1, <3>1, <3>2
    <3>4. QED
      BY <3>1, <3>3
  <2>4. QED
    BY <2>2, <2>3
<1>3. D # {}
  OBVIOUS
<1> HIDE DEF D
<1>4. \A f \in D : <<f[1], f[2]>> = <<p[1], p[2]>>
  BY <1>2
<1>5. Store!FieldsOf(D) = {<<p[1], p[2]>>}
  BY <1>3, <1>4 DEF Store!FieldsOf
<1>6. Cardinality(Store!FieldsOf(D)) = 1
  BY <1>5, FS_Singleton
<1>7. QED
  BY <1>6 DEF D

LEMMA SameCount == \A S : Store!Cardinality(S) = Cardinality(S)
BY DEF Store!Cardinality, Cardinality

LEMMA WriteStep ==
  ASSUME OneField
  PROVE  [Store!Write]_Fld
<1>1. Fld = Filled(Content) /\ Fld' = Filled(Content')
  BY FieldsAre, FieldsThen
<1>2. CASE Content' = Content
  BY <1>1, <1>2
<1>3. ASSUME NEW p \in Rec \X Key, NEW v, Content' = [Content EXCEPT ![p] = v],
             Filled(Content) # Filled(Content')
      PROVE  Store!Write
  <2> DEFINE c == Content
             d == Content'
  <2>1. c = [q \in Where |-> c[q]] /\ p \in Where
    BY DEF Content, Where
  <2>2. d = [c EXCEPT ![p] = v] /\ Filled(c) # Filled(d)
    BY <1>3
  <2> HIDE DEF c, d
  <2>3. Cardinality(Store!FieldsOf((Filled(c) \ Filled(d)) \union (Filled(d) \ Filled(c)))) = 1
    BY <2>1, <2>2, OneWrite
  <2>4. Cardinality(Store!FieldsOf(Filled(d))) = Cardinality(Filled(d))
    BY OneValue
  <2>5. Fld = Filled(c) /\ Fld' = Filled(d)
    BY <1>1 DEF c, d
  <2>6. /\ Cardinality(Store!FieldsOf((Fld \ Fld') \union (Fld' \ Fld))) = 1
        /\ Cardinality(Store!FieldsOf(Fld')) = Cardinality(Fld')
    BY <2>3, <2>4, <2>5
  <2>7. QED
    BY <2>6, SameCount DEF Store!Write, Fld
<1>4. QED
  BY <1>1, <1>2, <1>3 DEF OneField

\* IsolatesRecords, of records that are not separated: records that share an
\* index are independent, though a definition fails after it has added its key.
THEOREM IsolatesRecordsHolds == Seps = FALSE => (Spec => IsolatesRecords)
<1>1. SUFFICES ASSUME Seps = FALSE PROVE Spec => IsolatesRecords
  OBVIOUS
<1>2. Spec => [](Typed /\ PlainInv)
  BY <1>1, PlainInvariant
<1>3. Init => Store!Init
  BY DEF Init, Store!Init, Gets, Made
<1>4. Typed /\ PlainInv /\ [Next]_vars => [Store!Write]_Fld
  BY <1>1, PlainNext, WriteStep
<1>5. QED
  BY <1>2, <1>3, <1>4, PTL DEF Spec, IsolatesRecords, Store!Spec, Fld

-------------------------------------------------------------------------------
(* Answers: what tells two records apart tells apart those that lead there. *)

\* The keys of each record, the pairs of which the first agrees with the second,
\* and what the comparison of a pair compares in depth.
KeysOf == [r \in Made |-> Keys(r)]
Subs == {p \in Pairs(Made) : Agree(p.r1, p.r2, Same)}
Deeper == {s \in Pairs(Made) \X Pairs(Made) :
             \E k \in Keys(s[1].r1) : /\ s[2] = Pair(Get(s[1].r1, k), Get(s[1].r2, k))
                                      /\ s[2].r1 # s[2].r2}

LEMMA SameAgree ==
  ASSUME Typed, OnlyFlags, NEW r1 \in Made, NEW r2 \in Made, NEW same
  PROVE  Keys(r1)' = Keys(r1) /\ (Agree(r1, r2, same)' <=> Agree(r1, r2, same))
<1>1. \A k \in Key : Get(r1, k)' = Get(r1, k) /\ Get(r2, k)' = Get(r2, k)
  BY SameGet
<1>2. Keys(r1)' = Keys(r1) /\ Keys(r1) \subseteq Key
  BY <1>1 DEF Keys
<1>3. QED
  BY <1>1, <1>2 DEF Agree

LEMMA SameReads ==
  ASSUME Typed, OnlyFlags
  PROVE  Same' = Same /\ KeysOf' = KeysOf /\ Subs' = Subs /\ Deeper' = Deeper
<1>1. Made' = Made
  BY DEF OnlyFlags
<1>2. \A r \in Made : Keys(r)' = Keys(r)
  BY SameAgree
<1>3. ASSUME NEW S \in SUBSET (Made \X Made) PROVE Alike(S)' <=> Alike(S)
  <2>1. \A p \in S : p[1] \in Made /\ p[2] \in Made
    OBVIOUS
  <2>2. \A p \in S : /\ Keys(p[1])' = Keys(p[1]) /\ Keys(p[2])' = Keys(p[2])
                     /\ Agree(p[1], p[2], S)' <=> Agree(p[1], p[2], S)
    BY <2>1, SameAgree
  <2>3. QED
    BY <2>2 DEF Alike
<1>4. Same' = Same
  BY <1>1, <1>3 DEF Same
<1>5. KeysOf' = KeysOf
  BY <1>1, <1>2 DEF KeysOf
<1>6. Subs' = Subs
  <2>1. \A p \in Pairs(Made) : p.r1 \in Made /\ p.r2 \in Made
    BY DEF Pairs
  <2>2. \A p \in Pairs(Made) : Agree(p.r1, p.r2, Same)' <=> Agree(p.r1, p.r2, Same)
    <3>1. \A p \in Pairs(Made) : (Agree(p.r1, p.r2, Same))' <=> Agree(p.r1, p.r2, Same)
      BY <1>4, <2>1, SameAgree
    <3>2. QED
      BY <3>1
  <2>3. Pairs(Made)' = Pairs(Made)
    BY <1>1 DEF Pairs
  <2>4. QED
    BY <2>2, <2>3 DEF Subs
<1>7. Deeper' = Deeper
  <2>1. \A s \in Pairs(Made) \X Pairs(Made) : s[1].r1 \in Made /\ s[1].r2 \in Made
    BY DEF Pairs
  <2>2. \A s \in Pairs(Made) \X Pairs(Made) :
          /\ Keys(s[1].r1)' = Keys(s[1].r1)
          /\ \A k : /\ Get(s[1].r1, k)' = Get(s[1].r1, k)
                    /\ Get(s[1].r2, k)' = Get(s[1].r2, k)
    BY <1>2, <2>1, SameGet
  <2>3. Pairs(Made)' = Pairs(Made)
    BY <1>1 DEF Pairs
  <2>4. QED
    BY <2>2, <2>3 DEF Deeper
<1>8. QED
  BY <1>4, <1>5, <1>6, <1>7

LEMMA SameIs ==
  ASSUME NEW a, NEW b, <<a, b>> \in Same
  PROVE  /\ a \in Made /\ b \in Made /\ Keys(a) = Keys(b) /\ Agree(a, b, Same)
         /\ a \in Rec /\ b \in Rec
<1>1. PICK S \in SUBSET (Made \X Made) : Alike(S) /\ <<a, b>> \in S
  BY DEF Same
<1>2. a \in Made /\ b \in Made /\ Keys(a) = Keys(b) /\ Agree(a, b, S)
  BY <1>1 DEF Alike
<1>3. S \subseteq Same
  BY <1>1 DEF Same
<1>4. Agree(a, b, Same)
  BY <1>2, <1>3 DEF Agree
<1>5. QED
  BY <1>2, <1>4 DEF Made

\* A pair of which the first agrees with the second.
LEMMA SubIs ==
  ASSUME NEW p \in Subs
  PROVE  /\ p.r1 \in Made /\ p.r2 \in Made
         /\ Keys(p.r1) \subseteq Keys(p.r2)
         /\ \A k \in Keys(p.r1) : \/ Get(p.r1, k) = Get(p.r2, k)
                                  \/ <<Get(p.r1, k), Get(p.r2, k)>> \in Same
<1>1. p.r1 \in Made /\ p.r2 \in Made /\ Agree(p.r1, p.r2, Same)
  BY DEF Subs, Pairs
<1>2. \A k \in Keys(p.r1) : \/ Get(p.r1, k) = Get(p.r2, k)
                            \/ <<Get(p.r1, k), Get(p.r2, k)>> \in Same
  BY <1>1 DEF Agree
<1>3. ASSUME NEW k \in Keys(p.r1) PROVE k \in Keys(p.r2)
  <2>1. k \in Key /\ Get(p.r1, k) # Udf
    BY DEF Keys
  <2>2. <<Get(p.r1, k), Get(p.r2, k)>> \in Same => Get(p.r2, k) \in Rec
    BY SameIs
  <2>3. Get(p.r2, k) # Udf
    BY <1>2, <2>1, <2>2, RecordAssumption DEF Val
  <2>4. QED
    BY <2>1, <2>3 DEF Keys
<1>4. QED
  BY <1>1, <1>2, <1>3

\* A pair that is told apart tells apart the pair whose comparison led to it.
LEMMA DeeperIs ==
  ASSUME NEW p, NEW q, <<p, q>> \in Deeper, <<q.r1, q.r2>> \notin Same
  PROVE  p \notin Subs
<1>1. PICK k \in Keys(p.r1) : q = Pair(Get(p.r1, k), Get(p.r2, k)) /\ q.r1 # q.r2
  BY DEF Deeper
<1>2. q.r1 = Get(p.r1, k) /\ q.r2 = Get(p.r2, k)
  BY <1>1 DEF Pair
<1>3. QED
  BY <1>1, <1>2, SubIs

LEMMA DifferIs ==
  ASSUME NEW p, NEW k \in Keys(p.r1), Differ(Get(p.r1, k), Get(p.r2, k))
  PROVE  p \notin Subs
<1> DEFINE v == Get(p.r1, k)
           w == Get(p.r2, k)
<1> HIDE DEF v, w
<1>1. Differ(v, w)
  BY DEF v, w
<1>2. v # w
  BY <1>1 DEF Differ
<1>3. ~(v \in Rec /\ w \in Rec)
  BY <1>1, RecordAssumption DEF Differ, TypeName
<1>4. <<v, w>> \notin Same
  BY <1>3, SameIs
<1>5. QED
  BY <1>2, <1>4, SubIs DEF v, w

TodoKnown == \A i \in 1 .. Len(cmp.stack) : cmp.stack[i].todo \subseteq KeysOf[cmp.stack[i].of.r1]
Chained == \A i \in 1 .. Len(cmp.stack) - 1 : <<cmp.stack[i].of, cmp.stack[i + 1].of>> \in Deeper
CallChained == cmp.state = "on" /\ cmp.turn # "walk" /\ cmp.stack # <<>> =>
                 <<cmp.stack[Len(cmp.stack)].of, cmp.of>> \in Deeper
NoFound == cmp.state = "on" /\ cmp.turn = "return" /\ ~cmp.cyclic /\ ~cmp.isSub =>
             cmp.of \notin Subs
NoAnswered ==
  cmp.state = "done" /\ ~cmp.cyclic /\ ~cmp.isSub =>
    ~(/\ cmp.of \in Subs
      /\ cmp.op = "equal" => KeysOf[cmp.of.r1] = KeysOf[cmp.of.r2]
      /\ cmp.op = "less" => KeysOf[cmp.of.r1] # KeysOf[cmp.of.r2])
NoInv == TodoKnown /\ Chained /\ CallChained /\ NoFound /\ NoAnswered

LEMMA NoPush ==
  ASSUME Typed, Moves, NoInv, Pushes
  PROVE  NoInv'
<1> DEFINE n == Len(cmp.stack)
           f == [of |-> cmp.of, todo |-> Keys(cmp.of.r1), sep |-> rec[cmp.of.r1].sep]
<1>1. /\ Typed' /\ OnlyFlags /\ cmp.state = "on" /\ cmp'.state = "on"
      /\ cmp.turn = "call" /\ cmp'.turn = "walk"
      /\ cmp'.stack = Append(cmp.stack, f)
  BY DEF Moves, Pushes
<1>2. f.of = cmp.of /\ f.todo = KeysOf[f.of.r1]
  BY <1>1, StackIs DEF KeysOf
<1> HIDE DEF f
<1>3. n \in Nat /\ Len(cmp'.stack) = n + 1 /\ cmp'.stack[n + 1] = f
      /\ \A i \in 1 .. n : cmp'.stack[i] = cmp.stack[i]
  BY <1>1, PushedIs, StackIs
<1>4. KeysOf' = KeysOf /\ Deeper' = Deeper
  BY <1>1, SameReads
<1>5. cmp.stack # <<>> => <<cmp.stack[n].of, cmp.of>> \in Deeper
  BY <1>1 DEF NoInv, CallChained
<1>6. cmp.stack = <<>> => n = 0
  OBVIOUS
<1>7. \A i \in 1 .. n - 1 : <<cmp.stack[i].of, cmp.stack[i + 1].of>> \in Deeper
  BY DEF NoInv, Chained
<1>8. \A i \in 1 .. n : cmp.stack[i].todo \subseteq KeysOf[cmp.stack[i].of.r1]
  BY DEF NoInv, TodoKnown
<1> HIDE DEF n
<1>9. TodoKnown'
  <2>1. \A i \in 1 .. n + 1 : i \in 1 .. n \/ i = n + 1
    BY <1>3
  <2>2. QED
    BY <1>2, <1>3, <1>4, <1>8, <2>1 DEF TodoKnown
<1>10. Chained'
  <2>1. \A i \in 1 .. (n + 1) - 1 :
          i \in 1 .. n /\ (i = n \/ (i \in 1 .. n - 1 /\ i + 1 \in 1 .. n))
    BY <1>3
  <2>2. ASSUME NEW i \in 1 .. (n + 1) - 1
        PROVE  <<cmp'.stack[i].of, cmp'.stack[i + 1].of>> \in Deeper
    <3>1. CASE i = n
      BY <1>2, <1>3, <1>5, <1>6, <3>1
    <3>2. CASE i \in 1 .. n - 1 /\ i + 1 \in 1 .. n
      BY <1>3, <1>7, <2>1, <3>2
    <3>3. QED
      BY <2>1, <3>1, <3>2
  <2>3. QED
    BY <1>3, <1>4, <2>2 DEF Chained
<1>11. QED
  BY <1>1, <1>9, <1>10 DEF NoInv, CallChained, NoFound, NoAnswered

LEMMA NoMeet ==
  ASSUME Typed, Moves, NoInv, Meets
  PROVE  NoInv'
<1>1. /\ OnlyFlags /\ cmp.state = "on" /\ cmp'.state = "on"
      /\ cmp.turn = "call" /\ cmp'.turn = "return" /\ cmp'.cyclic
      /\ cmp'.stack = cmp.stack /\ cmp'.of = cmp.of
  BY DEF Moves, Meets
<1>2. KeysOf' = KeysOf /\ Deeper' = Deeper
  BY <1>1, SameReads
<1>3. TodoKnown' /\ Chained'
  BY <1>1, <1>2 DEF NoInv, TodoKnown, Chained
<1>4. CallChained'
  BY <1>1, <1>2 DEF NoInv, CallChained
<1>5. QED
  BY <1>1, <1>3, <1>4 DEF NoInv, NoFound, NoAnswered

LEMMA NoPassed ==
  ASSUME Typed, OnlyFlags, NoInv, cmp.stack # <<>>, NEW k, cmp'.stack = Passed(k)
  PROVE  TodoKnown' /\ Chained'
<1> DEFINE n == Len(cmp.stack)
<1>1. /\ Len(cmp'.stack) = n /\ n \in Nat
      /\ \A i \in 1 .. n : /\ cmp'.stack[i].of = cmp.stack[i].of
                           /\ cmp'.stack[i].todo \subseteq cmp.stack[i].todo
  BY PassedIs, StackIs
<1>2. KeysOf' = KeysOf /\ Deeper' = Deeper
  BY SameReads
<1>3. TodoKnown'
  BY <1>1, <1>2 DEF NoInv, TodoKnown
<1>4. \A i \in 1 .. n - 1 : <<cmp.stack[i].of, cmp.stack[i + 1].of>> \in Deeper
  BY DEF NoInv, Chained
<1> HIDE DEF n
<1>5. \A i \in 1 .. n - 1 : i \in 1 .. n /\ i + 1 \in 1 .. n
  BY <1>1
<1>6. Chained'
  BY <1>1, <1>2, <1>4, <1>5 DEF Chained
<1>7. QED
  BY <1>3, <1>6

LEMMA NoWalk ==
  ASSUME Typed, Moves, NoInv, NEW k \in Key, Passes(k) \/ Descends(k)
  PROVE  NoInv'
<1> DEFINE n == Len(cmp.stack)
<1>1. /\ Typed' /\ OnlyFlags /\ cmp.state = "on" /\ cmp'.state = "on"
      /\ cmp.turn = "walk" /\ cmp.stack # <<>> /\ cmp'.stack = Passed(k)
      /\ cmp'.turn # "return"
  BY DEF Moves, Passes, Descends
<1>2. KeysOf' = KeysOf /\ Deeper' = Deeper
  BY <1>1, SameReads
<1>3. TodoKnown' /\ Chained'
  BY <1>1, NoPassed
<1>4. CASE Passes(k)
  BY <1>1, <1>3, <1>4 DEF Passes, NoInv, CallChained, NoFound, NoAnswered
<1>5. CASE Descends(k)
  <2>1. /\ cmp'.of = Pair(Get(TopFrame.of.r1, k), Get(TopFrame.of.r2, k))
        /\ k \in TopFrame.todo
        /\ Get(TopFrame.of.r1, k) \in Rec /\ Get(TopFrame.of.r2, k) \in Rec
        /\ Get(TopFrame.of.r1, k) # Get(TopFrame.of.r2, k)
    BY <1>5 DEF Descends
  <2>2. /\ TopFrame = cmp.stack[n] /\ n \in 1 .. n
        /\ TopFrame.of.r1 \in Made /\ TopFrame.of.r2 \in Made /\ TopFrame.of \in Pairs(Made)
    BY <1>1, StackIs
  <2>3. k \in Keys(TopFrame.of.r1)
    BY <2>1, <2>2 DEF NoInv, TodoKnown, KeysOf
  <2>4. Get(TopFrame.of.r1, k) \in Made /\ Get(TopFrame.of.r2, k) \in Made
    BY <2>1, <2>2, GetMade
  <2>5. cmp'.of \in Pairs(Made) /\ cmp'.of.r1 # cmp'.of.r2
    BY <2>1, <2>4 DEF Pair, Pairs
  <2>6. <<TopFrame.of, cmp'.of>> \in Deeper
    BY <2>1, <2>2, <2>3, <2>5 DEF Deeper
  <2>7. Len(cmp'.stack) = n /\ cmp'.stack[n].of = TopFrame.of
    BY <1>1, <2>2, PassedIs
  <2>8. CallChained'
    BY <1>2, <2>6, <2>7 DEF CallChained
  <2>9. QED
    BY <1>1, <1>3, <2>8 DEF NoInv, NoFound, NoAnswered
<1>6. QED
  BY <1>4, <1>5

\* The top is popped, and its pair is what was called.
LEMMA NoPop ==
  ASSUME Typed, OnlyFlags, NoInv, cmp.stack # <<>>, cmp'.stack = Popped,
         cmp'.of = TopFrame.of
  PROVE  TodoKnown' /\ Chained' /\ CallChained'
<1> DEFINE n == Len(cmp.stack)
<1>1. KeysOf' = KeysOf /\ Deeper' = Deeper
  BY SameReads
<1>2. Len(cmp'.stack) = n - 1 /\ \A i \in 1 .. n - 1 : cmp'.stack[i] = cmp.stack[i]
  BY PoppedIs
<1>3. n \in Nat /\ TopFrame = cmp.stack[n] /\ n >= 1
  BY StackIs
<1>4. \A i \in 1 .. n - 1 : <<cmp.stack[i].of, cmp.stack[i + 1].of>> \in Deeper
  BY DEF NoInv, Chained
<1>5. \A i \in 1 .. n : cmp.stack[i].todo \subseteq KeysOf[cmp.stack[i].of.r1]
  BY DEF NoInv, TodoKnown
<1>6. n = 1 => cmp'.stack = <<>>
  BY <1>2, TopIs DEF Typed
<1> HIDE DEF n
<1>7. \A i \in 1 .. n - 1 : i \in 1 .. n
  BY <1>3
<1>8. TodoKnown'
  BY <1>1, <1>2, <1>5, <1>7 DEF TodoKnown
<1>9. \A i \in 1 .. (n - 1) - 1 : i \in 1 .. n - 1 /\ i + 1 \in 1 .. n - 1
  BY <1>3
<1>10. Chained'
  BY <1>1, <1>2, <1>4, <1>9 DEF Chained
<1>11. CallChained'
  <2>1. CASE n = 1
    BY <1>6, <2>1 DEF CallChained
  <2>2. CASE n # 1
    <3>1. n - 1 \in 1 .. n - 1 /\ (n - 1) + 1 = n
      BY <1>3, <2>2
    <3>2. <<cmp.stack[n - 1].of, cmp.stack[n].of>> \in Deeper
      BY <1>4, <3>1
    <3>3. QED
      BY <1>1, <1>2, <1>3, <3>1, <3>2 DEF CallChained
  <2>3. QED
    BY <2>1, <2>2
<1>12. QED
  BY <1>8, <1>10, <1>11

LEMMA NoReturn ==
  ASSUME Typed, Moves, NoInv, Returns
  PROVE  NoInv'
<1>1. /\ Typed' /\ OnlyFlags /\ cmp'.state = "on"
      /\ cmp.stack # <<>> /\ cmp'.stack = Popped /\ cmp'.of = TopFrame.of
      /\ \/ cmp'.isSub = TRUE
         \/ \E k \in TopFrame.todo : Differ(Get(TopFrame.of.r1, k), Get(TopFrame.of.r2, k))
  BY DEF Moves, Returns
<1>2. Subs' = Subs
  BY <1>1, SameReads
<1>3. ~cmp'.isSub => TopFrame.of \notin Subs
  <2>1. SUFFICES ASSUME NEW k \in TopFrame.todo,
                        Differ(Get(TopFrame.of.r1, k), Get(TopFrame.of.r2, k))
                 PROVE  TopFrame.of \notin Subs
    BY <1>1
  <2>2. /\ TopFrame = cmp.stack[Len(cmp.stack)] /\ Len(cmp.stack) \in 1 .. Len(cmp.stack)
        /\ TopFrame.of.r1 \in Made
    BY <1>1, StackIs
  <2>3. k \in Keys(TopFrame.of.r1)
    BY <2>2 DEF NoInv, TodoKnown, KeysOf
  <2>4. QED
    BY <2>1, <2>3, DifferIs
<1>4. TodoKnown' /\ Chained' /\ CallChained'
  BY <1>1, NoPop
<1>5. QED
  BY <1>1, <1>2, <1>3, <1>4 DEF NoInv, NoFound, NoAnswered

LEMMA NoResume ==
  ASSUME Typed, PlainInv, Moves, NoInv, Resumes
  PROVE  NoInv'
<1>1. /\ Typed' /\ OnlyFlags /\ cmp.state = "on" /\ cmp'.state = "on"
      /\ cmp.turn = "return" /\ cmp.stack # <<>> /\ cmp'.cyclic = cmp.cyclic
      /\ \/ cmp'.turn = "walk" /\ cmp'.stack = cmp.stack
         \/ /\ cmp'.turn = "return" /\ cmp'.stack = Popped /\ cmp'.of = TopFrame.of
            /\ ~EqualBelow
  BY DEF Moves, Resumes
<1>2. KeysOf' = KeysOf /\ Subs' = Subs /\ Deeper' = Deeper
  BY <1>1, SameReads
<1>3. CASE cmp'.turn = "walk" /\ cmp'.stack = cmp.stack
  <2>1. TodoKnown' /\ Chained'
    BY <1>2, <1>3 DEF NoInv, TodoKnown, Chained
  <2>2. QED
    BY <1>1, <1>3, <2>1 DEF NoInv, CallChained, NoFound, NoAnswered
<1>4. CASE /\ cmp'.turn = "return" /\ cmp'.stack = Popped /\ cmp'.of = TopFrame.of
           /\ ~EqualBelow
  <2>1. TodoKnown' /\ Chained' /\ CallChained'
    BY <1>1, <1>4, NoPop
  <2>2. <<TopFrame.of, cmp.of>> \in Deeper
    BY <1>1 DEF NoInv, CallChained, TopFrame
  <2>3. cmp.of.r1 \in Made /\ cmp.of.r2 \in Made /\ cmp.of \in Pairs(Made)
    BY <1>1, StackIs DEF Typed, CmpOK
  <2>4. ~cmp.cyclic => <<cmp.of.r1, cmp.of.r2>> \notin Same
    <3>1. SUFFICES ASSUME ~cmp.cyclic, <<cmp.of.r1, cmp.of.r2>> \in Same PROVE FALSE
      OBVIOUS
    <3>2. Keys(cmp.of.r1) = Keys(cmp.of.r2) /\ Agree(cmp.of.r1, cmp.of.r2, Same)
      BY <3>1, SameIs
    <3>3. CASE ~cmp.isSub
      BY <1>1, <2>3, <3>1, <3>2, <3>3 DEF NoInv, NoFound, Subs
    <3>4. CASE Count(cmp.of.r1) # Count(cmp.of.r2)
      BY <2>3, <3>2, <3>4, CountIs DEF PlainInv
    <3>5. QED
      BY <1>4, <3>1, <3>3, <3>4 DEF EqualBelow
  <2>5. ~cmp.cyclic => TopFrame.of \notin Subs
    BY <2>2, <2>4, DeeperIs
  <2>6. QED
    BY <1>1, <1>2, <1>4, <2>1, <2>5 DEF NoInv, NoFound, NoAnswered
<1>5. QED
  BY <1>1, <1>3, <1>4

LEMMA NoMove ==
  ASSUME Typed, PlainInv, Moves, NoInv
  PROVE  NoInv'
BY NoPush, NoMeet, NoWalk, NoReturn, NoResume DEF Moves

\* The caller counts the keys, when the first record is a subset of the second.
LEMMA NoCaller ==
  ASSUME Typed, PlainInv, NoInv, ReturnToCaller
  PROVE  NoInv'
<1>1. CmpType /\ OnlyFlags
  BY BackToCallerTyped DEF Typed, CmpOK
<1>2. /\ cmp.state = "on" /\ cmp.turn = "return" /\ cmp.stack = <<>>
      /\ cmp'.state = "done" /\ cmp'.of = cmp.of /\ cmp'.stack = cmp.stack
      /\ cmp'.op = cmp.op /\ cmp'.cyclic = cmp.cyclic
      /\ cmp'.isSub <=> cmp.isSub /\ CountsAgree(cmp.op, cmp.of.r1, cmp.of.r2)
  BY <1>1, ReturnToCallerIs DEF Becomes
<1>3. KeysOf' = KeysOf /\ Subs' = Subs /\ Deeper' = Deeper
  BY <1>1, SameReads
<1> DEFINE a == Keys(cmp.of.r1)
           b == Keys(cmp.of.r2)
<1>4. cmp.of.r1 \in Made /\ cmp.of.r2 \in Made
  BY <1>2, StackIs
<1>5. KeysOf[cmp.of.r1] = a /\ KeysOf[cmp.of.r2] = b
  BY <1>4 DEF KeysOf
<1>6. /\ Count(cmp.of.r1) = Cardinality(a) /\ Count(cmp.of.r2) = Cardinality(b)
      /\ IsFiniteSet(a) /\ IsFiniteSet(b)
      /\ Cardinality(a) \in Nat /\ Cardinality(b) \in Nat
  BY <1>4, CountIs DEF PlainInv
<1>7. cmp.of \in Subs => a \subseteq b
  BY SubIs
<1> HIDE DEF a, b
<1>8. a \subseteq b => Cardinality(a) <= Cardinality(b) /\ (a # b => Cardinality(a) < Cardinality(b))
  <2>1. a \subseteq b => /\ Cardinality(a) <= Cardinality(b)
                         /\ Cardinality(a) = Cardinality(b) => a = b
    BY <1>6, FS_Subset
  <2>2. QED
    BY <1>6, <2>1
<1>9. NoAnswered'
  <2>1. SUFFICES ASSUME ~cmp.cyclic, ~cmp'.isSub, cmp.of \in Subs,
                        cmp.op = "equal" => a = b, cmp.op = "less" => a # b
                 PROVE  FALSE
    BY <1>2, <1>3, <1>5 DEF NoAnswered
  <2>2. cmp.isSub
    BY <1>2, <2>1 DEF NoInv, NoFound
  <2>3. ~CountsAgree(cmp.op, cmp.of.r1, cmp.of.r2)
    BY <1>2, <2>1, <2>2
  <2>4. CASE cmp.op = "equal"
    BY <1>6, <2>1, <2>3, <2>4 DEF CountsAgree
  <2>5. CASE cmp.op = "less"
    BY <1>6, <1>7, <1>8, <2>1, <2>3, <2>5 DEF CountsAgree
  <2>6. CASE cmp.op # "equal" /\ cmp.op # "less"
    BY <1>6, <1>7, <1>8, <2>1, <2>3, <2>6 DEF CountsAgree
  <2>7. QED
    BY <2>4, <2>5, <2>6
<1>10. TodoKnown' /\ Chained'
  BY <1>2, <1>3 DEF NoInv, TodoKnown, Chained
<1>11. QED
  BY <1>2, <1>9, <1>10 DEF NoInv, CallChained, NoFound

\* Without frames, and without an answer.
Unasked == cmp.stack = <<>> /\ (cmp.state = "on" => cmp.turn = "call") /\ cmp.state # "done" => NoInv
LEMMA UnaskedIs == Unasked
<1>1. cmp.stack = <<>> => 1 .. Len(cmp.stack) = {} /\ 1 .. Len(cmp.stack) - 1 = {}
  OBVIOUS
<1>2. QED
  BY <1>1 DEF Unasked, NoInv, TodoKnown, Chained, CallChained, NoFound, NoAnswered
LEMMA UnaskedThen == Unasked'
BY UnaskedIs, PTL

LEMMA NoNext ==
  ASSUME Typed, PlainInv, NoInv, [Next]_vars
  PROVE  NoInv'
<1>1. CASE ProgramStep
  <2>1. cmp' = cmp /\ Ready
    BY <1>1, ProgramKeeps DEF Keeps, Stores
  <2>2. cmp'.stack = <<>> /\ cmp'.state = "idle"
    BY <2>1 DEF Typed, CmpOK, Ready, Idle
  <2>3. QED
    BY <2>2, UnaskedThen DEF Unasked
<1>2. ASSUME NEW op, NEW r1, NEW r2, Compare(op, r1, r2) PROVE NoInv'
  <2>1. cmp'.stack = <<>> /\ cmp'.state = "on" /\ cmp'.turn = "call"
    BY <1>2, BeginsTyped
  <2>2. QED
    BY <2>1, UnaskedThen DEF Unasked
<1>3. CASE Moves
  BY <1>3, NoMove
<1>4. CASE ReturnToCaller
  BY <1>4, NoCaller
<1>5. CASE EnterFails \/ Answer
  <2>1. /\ cmp'.stack = <<>>
        /\ cmp' = Idle \/ cmp' = [Idle EXCEPT !.state = "failed"]
    BY <1>5, EndsTyped DEF EnterFails
  <2>2. cmp'.state \in {"idle", "failed"}
    BY <2>1 DEF Idle
  <2>3. QED
    BY <2>1, <2>2, UnaskedThen DEF Unasked
<1>6. CASE UNCHANGED vars
  <2>1. cmp' = cmp /\ OnlyFlags
    BY <1>6, StutterTyped DEF vars
  <2>2. KeysOf' = KeysOf /\ Subs' = Subs /\ Deeper' = Deeper
    BY <2>1, SameReads
  <2>3. QED
    BY <2>1, <2>2 DEF NoInv, TodoKnown, Chained, CallChained, NoFound, NoAnswered
<1>7. QED
  BY <1>1, <1>2, <1>3, <1>4, <1>5, <1>6, NextIs, CompareMoves

\* NoIsRight, of records that are not separated: an answer "no" says that the
\* records are not equal, or not less, at any depth, whichever keys came first.
THEOREM NoIsRightHolds == Seps = FALSE => (Spec => []NoIsRight)
<1>1. SUFFICES ASSUME Seps = FALSE PROVE Spec => []NoIsRight
  OBVIOUS
<1>2. Spec => [](Typed /\ PlainInv)
  BY <1>1, PlainInvariant
<1>3. Init => NoInv
  <2>1. Init => cmp.stack = <<>> /\ cmp.state = "idle"
    BY DEF Init, Idle
  <2>2. QED
    BY <2>1, UnaskedIs DEF Unasked
<1>4. Typed /\ PlainInv /\ NoInv /\ [Next]_vars => NoInv'
  BY NoNext
<1>5. Typed /\ PlainInv /\ NoInv => NoIsRight
  <2>1. SUFFICES ASSUME Typed, NoInv, Answered, ~cmp.isSub, Holds(cmp.op, cmp.of.r1, cmp.of.r2)
                 PROVE  FALSE
    BY DEF NoIsRight
  <2>2. cmp.state = "done" /\ ~cmp.cyclic /\ cmp.of \in Pairs(Made)
        /\ cmp.of.r1 \in Made /\ cmp.of.r2 \in Made
    BY <2>1, StackIs DEF Answered, Typed, CmpOK
  <2>3. cmp.of \in Subs
    BY <2>1, <2>2 DEF Holds, Subs
  <2>4. KeysOf[cmp.of.r1] = Keys(cmp.of.r1) /\ KeysOf[cmp.of.r2] = Keys(cmp.of.r2)
    BY <2>2 DEF KeysOf
  <2>5. QED
    BY <2>1, <2>2, <2>3, <2>4 DEF NoInv, NoAnswered, Holds
<1>6. QED
  BY <1>2, <1>3, <1>4, <1>5, PTL DEF Spec
===============================================================================
