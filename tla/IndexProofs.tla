------------------------------ MODULE IndexProofs -----------------------------
(***************************************************************************)
(* Proofs about Index, for every set of keys, every hash function and      *)
(* every table of capacities: that what a lookup finds within its limit    *)
(* and by its filters is what was inserted, whatever grew in between.      *)
(***************************************************************************)
EXTENDS Index, FiniteSetTheorems, NaturalsInduction, TLAPS

-------------------------------------------------------------------------------
(* Numbers. *)

LEMMA MinIs ==
  ASSUME NEW S \in SUBSET Nat, S # {}
  PROVE  Min(S) \in S /\ \A n \in S : Min(S) <= n
<1>1. \E n \in S : \A m \in S : <<m, n>> \notin OpToRel(<, Nat)
  BY NatLessThanWellFounded, WFMin, Zenon
<1>2. PICK n \in S : \A m \in S : ~(m < n)
  BY <1>1 DEF OpToRel
<1>3. \A m \in S : n <= m
  BY <1>2
<1>4. QED
  BY <1>3 DEF Min

LEMMA ModIs ==
  ASSUME NEW c \in Nat \ {0}
  PROVE  /\ \A h \in Nat : h % c \in 0 .. c - 1
         /\ \A a \in 0 .. c - 1 : a % c = a /\ (a + c) % c = a
OBVIOUS

LEMMA RowIs ==
  /\ Row \subseteq Nat /\ 1 \in Row /\ 0 \notin Row
  /\ \A r \in Row : BufCap[r] \in Nat /\ BufCap[r] # 0
  /\ \A r \in Row : r + 1 \in Row => BufCap[r] < BufCap[r + 1]
<1>1. BufCap \in Seq(Nat \ {0}) /\ BufCap # <<>> /\ Row = 1 .. Len(BufCap)
  BY IndexAssumption DEF Row
<1>2. \A r \in Row : BufCap[r] \in Nat \ {0}
  BY <1>1
<1>3. Len(BufCap) \in Nat /\ Len(BufCap) # 0
  BY <1>1
<1>4. \A r \in Row : r + 1 \in Row => r < r + 1
  BY <1>1, <1>3
<1>5. QED
  BY <1>1, <1>2, <1>3, <1>4, IndexAssumption

\* The ideal step limit is a number, whatever the logarithm is.
LEMMA UlogIs == ASSUME NEW u \in Nat PROVE Ulog2(u) \in Nat
<1> DEFINE S == {n \in 0 .. u : 2 ^ n <= u}
<1>1. IsFiniteSet(0 .. u)
  BY FS_Interval
<1>2. IsFiniteSet(S)
  BY <1>1, FS_Subset
<1>3. Cardinality(S) \in Nat
  BY <1>2, FS_CardinalityType
<1>4. QED
  BY <1>3 DEF Ulog2

-------------------------------------------------------------------------------
(* Keys. *)

Kinds == Key \union {Zero}
Equal(k, l) == k.name = l.name

LEMMA KindsAre ==
  /\ Free \notin Kinds /\ STR \in 1 .. 15
  /\ \A k \in Kinds : /\ k.kind \in {"atom", "medium", "long"} /\ k.byte \in 1 .. 255
                      /\ (k.kind = "atom" <=> k.byte % 16 # STR) /\ k.name \in Names
  /\ \A k, l \in Kinds : Equal(k, l) => k.kind = l.kind /\ (k.kind = "atom" => k.byte = l.byte)
  /\ \A k \in Key : ~Equal(k, Zero)
<1>1. Zero.kind = "atom" /\ Zero.byte = 5 /\ 5 \in 1 .. 255 /\ 5 % 16 = 5
  BY DEF Zero
<1>2. 5 # STR /\ STR \in 1 .. 15
  BY <1>1, IndexAssumption
<1>3. QED
  BY <1>1, <1>2, IndexAssumption DEF Kinds, Equal, Names

-------------------------------------------------------------------------------
(* One index. *)

Modes == {"noStrings", "noLong", "hasLong"}
Full(x, i) == x.key[i] # Free

\* Its fields are of their types.
Typed(x) ==
  /\ x = [row |-> x.row, key |-> x.key, loc |-> x.loc, next |-> x.next,
          limit |-> x.limit, dev |-> x.dev, mode |-> x.mode]
  /\ x.row \in Row /\ x.key \in [Slots(x) -> Kinds \union {Free}]
  /\ x.loc \in [Slots(x) -> 0 .. Cap(x)] /\ x.next \in 0 .. Cap(x)
  /\ x.limit \in Nat /\ x.dev \in Nat /\ x.mode \in Modes

\* Equal keys are in one bucket.
Distinct(x) ==
  \A i, j \in Slots(x) : Full(x, i) /\ Full(x, j) /\ Equal(x.key[i], x.key[j]) => i = j

\* The slots that a lookup comes by.
SlotAt(h, x, k, p) == ((h[k.name] % Cap(x)) + p) % Cap(x)

\* Every key is within the steps of a lookup,
Within(h, x) ==
  /\ IdealStepLimit(x) <= x.limit
  /\ \A i \in Slots(x) : Full(x, i) => \E p \in 0 .. x.limit : SlotAt(h, x, x.key[i], p) = i

\* and of a kind that the functions of the index care for.
Admitted(x, k) ==
  /\ k.kind # "atom" => x.mode # "noStrings"
  /\ k.kind = "long" => x.mode = "hasLong"
Served(x) == \A i \in Slots(x) : Full(x, i) => Admitted(x, x.key[i])

Well(h, x) == Typed(x) /\ Distinct(x) /\ Within(h, x) /\ Served(x)

LEMMA CapIs ==
  ASSUME NEW x, x.row \in Row
  PROVE  /\ Cap(x) \in Nat /\ Cap(x) # 0 /\ Slots(x) = 0 .. Cap(x) - 1
         /\ Slots(x) \subseteq Nat /\ 0 \in Slots(x)
         /\ IdealStepLimit(x) \in Nat
<1>1. Cap(x) \in Nat /\ Cap(x) # 0
  BY RowIs DEF Cap
<1>2. QED
  BY <1>1, UlogIs DEF Slots, IdealStepLimit

LEMMA SlotIs ==
  ASSUME NEW h \in [Names -> Nat], NEW x, x.row \in Row, NEW k \in Kinds, NEW p \in Nat
  PROVE  SlotAt(h, x, k, p) \in Slots(x) /\ h[k.name] % Cap(x) \in Slots(x)
<1>1. h[k.name] \in Nat
  BY KindsAre
<1>2. Cap(x) \in Nat \ {0} /\ Slots(x) = 0 .. Cap(x) - 1
  BY CapIs
<1>3. h[k.name] % Cap(x) \in 0 .. Cap(x) - 1
  BY <1>1, <1>2, ModIs
<1>4. (h[k.name] % Cap(x)) + p \in Nat
  BY <1>2, <1>3
<1>5. QED
  BY <1>2, <1>3, <1>4, ModIs DEF SlotAt

\* The hits of a lookup.
Hits(x, k) == {p \in 0 .. x.limit : IsAt(x, k, SlotAt(hash, x, k, p))}
LEMMA LookupDef ==
  ASSUME NEW x, NEW k
  PROVE  LookupIn(x, k) = IF CutShort(x, k) \/ Hits(x, k) = {} THEN -1
                          ELSE x.loc[SlotAt(hash, x, k, Min(Hits(x, k)))]
BY DEF LookupIn, Hits, SlotAt

\* The filter passes every bucket with an equal key, and no free one.
LEMMA IsAtIs ==
  ASSUME NEW x, Typed(x), NEW k \in Kinds, NEW i \in Slots(x)
  PROVE  IsAt(x, k, i) <=> Full(x, i) /\ Equal(x.key[i], k)
<1>1. x.key[i] \in Kinds \union {Free}
  BY DEF Typed
<1>2. CASE x.key[i] = Free
  <2>1. ByteAt(x, i) = 0 /\ 0 % 16 = 0
    BY <1>2 DEF ByteAt
  <2>2. ~Qualifies(x, k, i)
    BY <2>1, KindsAre DEF Qualifies, IsStr
  <2>3. QED
    BY <1>2, <2>2 DEF IsAt, Full
<1>3. CASE x.key[i] # Free
  <2>1. ByteAt(x, i) = x.key[i].byte /\ x.key[i] \in Kinds
    BY <1>1, <1>3 DEF ByteAt
  <2>2. Equal(x.key[i], k) => Qualifies(x, k, i)
    BY <2>1, KindsAre DEF Qualifies, IsStr
  <2>3. QED
    BY <1>3, <2>2 DEF IsAt, Full, Equal
<1>4. QED
  BY <1>2, <1>3

\* A lookup finds the loc of the bucket with an equal key, and nothing without one.
LEMMA LookupIs ==
  ASSUME hash \in [Names -> Nat], NEW x, Well(hash, x), NEW k \in Kinds
  PROVE  /\ \A i \in Slots(x) : Full(x, i) /\ Equal(x.key[i], k) => LookupIn(x, k) = x.loc[i]
         /\ (\A i \in Slots(x) : ~(Full(x, i) /\ Equal(x.key[i], k))) => LookupIn(x, k) = -1
<1>1. Typed(x) /\ x.row \in Row /\ x.limit \in Nat
  BY DEF Well, Typed
<1>2. \A p \in 0 .. x.limit : SlotAt(hash, x, k, p) \in Slots(x)
  BY <1>1, SlotIs
<1>3. \A p \in Hits(x, k) : /\ p \in Nat /\ SlotAt(hash, x, k, p) \in Slots(x)
                            /\ Full(x, SlotAt(hash, x, k, p))
                            /\ Equal(x.key[SlotAt(hash, x, k, p)], k)
  BY <1>1, <1>2, IsAtIs DEF Hits
<1>4. ASSUME NEW i \in Slots(x), Full(x, i), Equal(x.key[i], k)
      PROVE  LookupIn(x, k) = x.loc[i]
  <2>1. x.key[i] \in Kinds
    BY <1>1, <1>4 DEF Typed, Full
  <2>2. ~CutShort(x, k)
    <3>1. x.key[i].kind = k.kind /\ k.kind \in {"atom", "medium", "long"}
      BY <1>4, <2>1, KindsAre
    <3>2. Admitted(x, x.key[i])
      BY <1>4 DEF Well, Served
    <3>3. QED
      BY <3>1, <3>2 DEF CutShort, Admitted, IsStr
  <2>3. PICK p \in 0 .. x.limit : SlotAt(hash, x, x.key[i], p) = i
    BY <1>4 DEF Well, Within
  <2>4. SlotAt(hash, x, k, p) = i
    BY <1>4, <2>3 DEF SlotAt, Equal
  <2>5. p \in Hits(x, k)
    BY <1>1, <1>4, <2>4, IsAtIs DEF Hits
  <2>6. Hits(x, k) \subseteq Nat
    BY <1>1 DEF Hits
  <2>7. Min(Hits(x, k)) \in Hits(x, k)
    BY <2>5, <2>6, MinIs
  <2>8. SlotAt(hash, x, k, Min(Hits(x, k))) = i
    BY <1>3, <1>4, <2>7 DEF Well, Distinct, Equal
  <2>9. QED
    BY <2>2, <2>5, <2>8, LookupDef
<1>5. ASSUME \A i \in Slots(x) : ~(Full(x, i) /\ Equal(x.key[i], k))
      PROVE  LookupIn(x, k) = -1
  BY <1>3, <1>5, LookupDef
<1>6. QED
  BY <1>4, <1>5

-------------------------------------------------------------------------------
(* Insertion. *)

LEMMA ByteIs ==
  ASSUME NEW x, Typed(x), NEW i \in Slots(x)
  PROVE  ByteAt(x, i) = 0 <=> ~Full(x, i)
<1>1. x.key[i] \in Kinds \union {Free}
  BY DEF Typed
<1>2. x.key[i] # Free => x.key[i].byte \in 1 .. 255
  BY <1>1, KindsAre
<1>3. QED
  BY <1>2 DEF ByteAt, Full

\* The places of an insertion go around once more than the slots.
LEMMA AroundIs ==
  ASSUME NEW c \in Nat \ {0}, NEW a \in 0 .. c - 1, NEW q \in 0 .. c
  PROVE  (a + q) % (c + 1) = IF a + q <= c THEN a + q ELSE a + q - (c + 1)
<1> DEFINE n == c + 1
<1>1. n \in Nat \ {0} /\ n = c + 1
  OBVIOUS
<1> HIDE DEF n
<1>2. CASE a + q <= c
  <2>1. a + q \in 0 .. n - 1
    BY <1>1, <1>2
  <2>2. (a + q) % n = a + q
    BY <1>1, <2>1, ModIs
  <2>3. QED
    BY <1>1, <1>2, <2>2
<1>3. CASE ~(a + q <= c)
  <2> DEFINE b == a + q - n
  <2>1. b \in 0 .. n - 1 /\ b + n = a + q
    BY <1>1, <1>3
  <2>2. (b + n) % n = b
    <3> HIDE DEF b
    <3>1. QED
      BY <1>1, <2>1, ModIs
  <2>3. QED
    BY <1>1, <1>3, <2>1, <2>2
<1>4. QED
  BY <1>2, <1>3

\* The first free place is a slot, and a lookup gets there in no more steps.
LEMMA StepsAre ==
  ASSUME hash \in [Names -> Nat], NEW x, Typed(x), NEW k \in Kinds,
         NEW f \in Slots(x), ~Full(x, f)
  PROVE  /\ StepsTo(x, k) \in Nat
         /\ PlaceAt(x, k, StepsTo(x, k)) \in Slots(x)
         /\ ~Full(x, PlaceAt(x, k, StepsTo(x, k)))
         /\ \E p \in 0 .. StepsTo(x, k) : SlotAt(hash, x, k, p) = PlaceAt(x, k, StepsTo(x, k))
<1> DEFINE c == Cap(x)
           a == hash[k.name] % c
           S == {q \in 0 .. c : PlaceAt(x, k, q) # c /\ ByteAt(x, PlaceAt(x, k, q)) = 0}
<1>1. c \in Nat \ {0} /\ Slots(x) = 0 .. c - 1 /\ a \in 0 .. c - 1
  <2>1. x.row \in Row
    BY DEF Typed
  <2>2. 0 \in Nat
    OBVIOUS
  <2>3. QED
    BY <2>1, <2>2, CapIs, SlotIs
<1>2. \A q \in 0 .. c : PlaceAt(x, k, q) = IF a + q <= c THEN a + q ELSE a + q - (c + 1)
  <2>1. \A q \in 0 .. c : PlaceAt(x, k, q) = (a + q) % (c + 1)
    BY DEF PlaceAt
  <2> HIDE DEF a, c
  <2>2. QED
    BY <1>1, <2>1, AroundIs
<1>3. \A p \in 0 .. c : SlotAt(hash, x, k, p) = (a + p) % c
  BY DEF SlotAt
<1>4. S # {} /\ S \subseteq Nat
  <2> DEFINE q == IF a <= f THEN f - a ELSE f - a + (c + 1)
  <2>1. q \in 0 .. c /\ PlaceAt(x, k, q) = f
    <3> HIDE DEF a, c
    <3>1. f \in 0 .. c - 1
      BY <1>1
    <3>2. q \in 0 .. c /\ (IF a + q <= c THEN a + q ELSE a + q - (c + 1)) = f
      BY <1>1, <3>1
    <3> HIDE DEF q
    <3>3. QED
      BY <1>2, <3>2
  <2>2. f # c
    <3> HIDE DEF c
    <3>1. QED
      BY <1>1
  <2>3. ByteAt(x, f) = 0
    BY ByteIs
  <2> HIDE DEF q, a, c
  <2>4. QED
    BY <1>1, <2>1, <2>2, <2>3
<1>5. StepsTo(x, k) = Min(S)
  BY DEF StepsTo
<1>6. StepsTo(x, k) \in S
  <2> HIDE DEF S
  <2>1. QED
    BY <1>4, <1>5, MinIs
<1> DEFINE s == StepsTo(x, k)
           i == PlaceAt(x, k, s)
<1>7. s \in 0 .. c /\ i # c /\ ByteAt(x, i) = 0
  BY <1>6
<1> HIDE DEF S, s
<1>8. i = IF a + s <= c THEN a + s ELSE a + s - (c + 1)
  BY <1>2, <1>7
<1> HIDE DEF i, a, c
<1>9. i \in 0 .. c - 1 /\ s \in Nat
  BY <1>1, <1>7, <1>8
<1>10. ~Full(x, i)
  BY <1>1, <1>7, <1>9, ByteIs
<1>11. \E p \in 0 .. s : SlotAt(hash, x, k, p) = i
  <2>1. CASE a + s <= c
    <3>1. a + s \in 0 .. c - 1 /\ i = a + s
      BY <1>1, <1>7, <1>8, <2>1
    <3>2. (a + s) % c = a + s
      BY <1>1, <3>1, ModIs
    <3>3. QED
      BY <1>3, <1>7, <1>9, <3>1, <3>2
  <2>2. CASE ~(a + s <= c)
    <3> DEFINE p == s - 1
    <3>1. p \in 0 .. s /\ p \in 0 .. c /\ a + p = i + c
      BY <1>1, <1>7, <1>8, <2>2
    <3>2. (i + c) % c = i
      BY <1>1, <1>9, ModIs
    <3>3. QED
      BY <1>3, <3>1, <3>2
  <2>3. QED
    BY <2>1, <2>2
<1>12. QED
  BY <1>1, <1>9, <1>10, <1>11 DEF i, s

LEMMA ModeIs ==
  ASSUME NEW x, x.mode \in Modes, NEW k \in Kinds
  PROVE  /\ ModeWith(x, k) \in Modes
         /\ \A y : y.mode = ModeWith(x, k) =>
              Admitted(y, k) /\ \A l \in Kinds : Admitted(x, l) => Admitted(y, l)
BY KindsAre DEF ModeWith, Modes, Admitted

\* What an insertion writes, at slot i after that many steps.
Written(x, y, k, i) ==
  /\ y.row = x.row /\ y.next = x.next + 1
  /\ y.key = [x.key EXCEPT ![i] = k] /\ y.loc = [x.loc EXCEPT ![i] = x.next]

LEMMA InsertFields ==
  ASSUME NEW x, NEW k, NEW s, s = StepsTo(x, k), NEW i, i = PlaceAt(x, k, s),
         NEW y, y = InsertInEmpty(x, k)
  PROVE  /\ y = [row |-> y.row, key |-> y.key, loc |-> y.loc, next |-> y.next,
                 limit |-> y.limit, dev |-> y.dev, mode |-> y.mode]
         /\ Written(x, y, k, i) /\ y.mode = ModeWith(x, k)
         /\ y.limit = (IF s > x.limit THEN s ELSE x.limit)
         /\ y.dev = (IF s > x.limit THEN x.dev + s - IdealStepLimit(x) ELSE x.dev)
BY DEF InsertInEmpty, Written

LEMMA InsertInEmptyIs ==
  ASSUME hash \in [Names -> Nat], NEW x, Well(hash, x), NEW k \in Kinds,
         NEW f \in Slots(x), ~Full(x, f), x.next < Cap(x),
         \A i \in Slots(x) : ~(Full(x, i) /\ Equal(x.key[i], k)),
         NEW y, y = InsertInEmpty(x, k)
  PROVE  Well(hash, y) /\ \E i \in Slots(x) : ~Full(x, i) /\ Written(x, y, k, i)
<1> DEFINE s == StepsTo(x, k)
           i == PlaceAt(x, k, s)
<1>1. Typed(x) /\ x.row \in Row /\ x.mode \in Modes /\ x.limit \in Nat /\ x.dev \in Nat
      /\ x.key \in [Slots(x) -> Kinds \union {Free}] /\ x.loc \in [Slots(x) -> 0 .. Cap(x)]
      /\ x.next \in 0 .. Cap(x)
  BY DEF Well, Typed
<1>2. /\ s \in Nat /\ i \in Slots(x) /\ ~Full(x, i)
      /\ \E p \in 0 .. s : SlotAt(hash, x, k, p) = i
  BY <1>1, StepsAre
<1>3. /\ y = [row |-> y.row, key |-> y.key, loc |-> y.loc, next |-> y.next,
              limit |-> y.limit, dev |-> y.dev, mode |-> y.mode]
      /\ Written(x, y, k, i) /\ y.mode = ModeWith(x, k)
      /\ y.limit = (IF s > x.limit THEN s ELSE x.limit)
      /\ y.dev = (IF s > x.limit THEN x.dev + s - IdealStepLimit(x) ELSE x.dev)
  BY <1>1, InsertFields
<1> HIDE DEF s, i
<1>4. /\ y.row = x.row /\ Cap(y) = Cap(x) /\ Slots(y) = Slots(x)
      /\ IdealStepLimit(y) = IdealStepLimit(x) /\ IdealStepLimit(x) \in Nat
      /\ Cap(x) \in Nat
  BY <1>1, <1>3, CapIs DEF Written, Cap, Slots, IdealStepLimit
<1>5. \A j \in Slots(x) : y.key[j] = IF j = i THEN k ELSE x.key[j]
  BY <1>1, <1>2, <1>3 DEF Written
<1>6. /\ IdealStepLimit(x) <= x.limit /\ y.limit \in Nat /\ y.dev \in Nat
      /\ x.limit <= y.limit /\ s <= y.limit
  <2>1. IdealStepLimit(x) <= x.limit
    BY DEF Well, Within
  <2>2. QED
    BY <1>1, <1>2, <1>3, <1>4, <2>1
<1>7. Typed(y)
  <2>1. y.mode \in Modes
    BY <1>1, <1>3, ModeIs
  <2>2. x.next \in 0 .. Cap(x) /\ x.next + 1 \in 0 .. Cap(x)
    BY <1>1, <1>4
  <2>3. y.key \in [Slots(x) -> Kinds \union {Free}] /\ y.loc \in [Slots(x) -> 0 .. Cap(x)]
    BY <1>1, <1>2, <1>3, <2>2 DEF Written
  <2>4. y.next \in 0 .. Cap(x) /\ y.row \in Row
    BY <1>1, <1>3, <2>2 DEF Written
  <2>5. QED
    BY <1>3, <1>4, <1>6, <2>1, <2>3, <2>4, Zenon DEF Typed
<1>8. \A j \in Slots(x) : Full(y, j) <=> j = i \/ Full(x, j)
  BY <1>5, KindsAre DEF Full
<1>9. Distinct(y)
  BY <1>2, <1>4, <1>5, <1>8 DEF Well, Distinct, Equal
<1>10. Within(hash, y)
  <2>1. \A l, p : SlotAt(hash, y, l, p) = SlotAt(hash, x, l, p)
    BY <1>4 DEF SlotAt
  <2>2. ASSUME NEW j \in Slots(x), Full(y, j)
        PROVE  \E p \in 0 .. y.limit : SlotAt(hash, y, y.key[j], p) = j
    <3>1. CASE j = i
      <4>1. PICK p \in 0 .. s : SlotAt(hash, x, k, p) = i
        BY <1>2
      <4>2. p \in 0 .. y.limit
        BY <1>2, <1>6
      <4>3. y.key[j] = k
        BY <1>5, <3>1
      <4>4. QED
        BY <2>1, <3>1, <4>1, <4>2, <4>3
    <3>2. CASE j # i
      <4>1. y.key[j] = x.key[j] /\ Full(x, j)
        BY <1>5, <1>8, <2>2, <3>2
      <4>2. PICK p \in 0 .. x.limit : SlotAt(hash, x, x.key[j], p) = j
        BY <4>1 DEF Well, Within
      <4>3. p \in 0 .. y.limit
        BY <1>1, <1>6
      <4>4. QED
        BY <2>1, <4>1, <4>2, <4>3
    <3>3. QED
      BY <3>1, <3>2
  <2>3. IdealStepLimit(y) <= y.limit
    BY <1>1, <1>4, <1>6
  <2>4. QED
    BY <1>4, <2>2, <2>3 DEF Within
<1>11. Served(y)
  <2>1. Admitted(y, k) /\ \A l \in Kinds : Admitted(x, l) => Admitted(y, l)
    BY <1>1, <1>3, ModeIs
  <2>2. ASSUME NEW j \in Slots(x), Full(y, j) PROVE Admitted(y, y.key[j])
    <3>1. CASE j = i
      BY <1>5, <2>1, <3>1
    <3>2. CASE j # i
      <4>1. y.key[j] = x.key[j] /\ Full(x, j)
        BY <1>5, <1>8, <2>2, <3>2
      <4>2. x.key[j] \in Kinds /\ Admitted(x, x.key[j])
        BY <1>1, <4>1 DEF Well, Served, Full
      <4>3. QED
        BY <2>1, <4>1, <4>2
    <3>3. QED
      BY <3>1, <3>2
  <2>3. QED
    BY <1>4, <2>2 DEF Served
<1>12. QED
  BY <1>2, <1>3, <1>7, <1>9, <1>10, <1>11 DEF Well

-------------------------------------------------------------------------------
(* Locs. *)

Taken(x) == {j \in Slots(x) : Full(x, j)}

\* Each key of the program has a loc of its own, below the next one, which is no more
\* than the buckets that are taken.
Numbered(x) ==
  /\ \A i \in Slots(x) : x.loc[i] <= x.next
  /\ \A i \in Slots(x) : x.key[i] \in Key => x.loc[i] < x.next
  /\ \A i, j \in Slots(x) : x.key[i] \in Key /\ x.key[j] \in Key /\ x.loc[i] = x.loc[j] => i = j
  /\ x.next <= Cardinality(Taken(x))

LEMMA TakenIs ==
  ASSUME NEW x, x.row \in Row
  PROVE  /\ IsFiniteSet(Slots(x)) /\ Cardinality(Slots(x)) = Cap(x)
         /\ IsFiniteSet(Taken(x)) /\ Cardinality(Taken(x)) \in Nat
<1> DEFINE c == Cap(x)
<1>1. c \in Nat /\ Slots(x) = 0 .. c - 1
  BY CapIs
<1> HIDE DEF c
<1>2. /\ IsFiniteSet(0 .. c - 1)
      /\ Cardinality(0 .. c - 1) = IF 0 > c - 1 THEN 0 ELSE (c - 1) - 0 + 1
  BY <1>1, FS_Interval
<1>3. IsFiniteSet(Slots(x)) /\ Cardinality(Slots(x)) = c
  BY <1>1, <1>2
<1>4. Taken(x) \subseteq Slots(x)
  BY DEF Taken
<1>5. IsFiniteSet(Taken(x))
  BY <1>3, <1>4, FS_Subset
<1>6. QED
  BY <1>3, <1>5, FS_CardinalityType DEF c

\* So an index with a free bucket has a loc left.
LEMMA LocLeft ==
  ASSUME NEW x, Typed(x), Numbered(x), NEW f \in Slots(x), ~Full(x, f)
  PROVE  x.next < Cap(x)
<1>1. Cap(x) \in Nat /\ x.next \in Nat /\ x.row \in Row
  BY CapIs DEF Typed
<1>2. /\ IsFiniteSet(Slots(x)) /\ Cardinality(Slots(x)) = Cap(x)
      /\ Cardinality(Taken(x)) \in Nat
  BY <1>1, TakenIs
<1>3. Taken(x) \subseteq Slots(x) /\ Taken(x) # Slots(x)
  BY DEF Taken
<1>4. Cardinality(Taken(x)) < Cardinality(Slots(x))
  <2>1. Cardinality(Taken(x)) <= Cardinality(Slots(x))
        /\ (Cardinality(Taken(x)) = Cardinality(Slots(x)) => Taken(x) = Slots(x))
    BY <1>2, <1>3, FS_Subset
  <2>2. QED
    BY <1>1, <1>2, <1>3, <2>1
<1>5. x.next <= Cardinality(Taken(x))
  BY DEF Numbered
<1>6. QED
  BY <1>1, <1>2, <1>4, <1>5

\* What an insertion does to an index, before it may grow.
Found(x, k) == \E i \in Slots(x) : Full(x, i) /\ Equal(x.key[i], k)

LEMMA FoundIs ==
  ASSUME hash \in [Names -> Nat], NEW x, Well(hash, x), NEW k \in Kinds
  PROVE  /\ LookupIn(x, k) \in Int /\ -1 <= LookupIn(x, k)
         /\ LookupIn(x, k) >= 0 <=> Found(x, k)
<1>1. \A i \in Slots(x) : x.loc[i] \in Nat
  <2>1. x.loc \in [Slots(x) -> 0 .. Cap(x)] /\ Cap(x) \in Nat
    BY CapIs DEF Well, Typed
  <2>2. QED
    BY <2>1
<1>2. CASE Found(x, k)
  <2>1. PICK i \in Slots(x) : Full(x, i) /\ Equal(x.key[i], k)
    BY <1>2 DEF Found
  <2>2. LookupIn(x, k) = x.loc[i]
    BY <2>1, LookupIs
  <2>3. QED
    BY <1>1, <1>2, <2>2
<1>3. CASE ~Found(x, k)
  <2>1. LookupIn(x, k) = -1
    BY <1>3, LookupIs DEF Found
  <2>2. QED
    BY <1>3, <2>1
<1>4. QED
  BY <1>2, <1>3

\* The buckets of an index into which a key was written.
LEMMA WrittenIs ==
  ASSUME NEW x, Typed(x), NEW k \in Kinds, NEW i \in Slots(x), ~Full(x, i), NEW y, Written(x, y, k, i)
  PROVE  /\ y.row = x.row /\ y.next = x.next + 1 /\ Slots(y) = Slots(x) /\ Cap(y) = Cap(x)
         /\ \A j \in Slots(x) : /\ y.key[j] = IF j = i THEN k ELSE x.key[j]
                                /\ y.loc[j] = IF j = i THEN x.next ELSE x.loc[j]
         /\ Taken(y) = Taken(x) \union {i} /\ i \notin Taken(x)
         /\ Cardinality(Taken(y)) = Cardinality(Taken(x)) + 1
<1>1. /\ y.row = x.row /\ y.next = x.next + 1 /\ Slots(y) = Slots(x) /\ Cap(y) = Cap(x)
      /\ \A j \in Slots(x) : /\ y.key[j] = IF j = i THEN k ELSE x.key[j]
                             /\ y.loc[j] = IF j = i THEN x.next ELSE x.loc[j]
  <2>1. x.key \in [Slots(x) -> Kinds \union {Free}] /\ x.loc \in [Slots(x) -> 0 .. Cap(x)]
    BY DEF Typed
  <2>2. QED
    BY <2>1 DEF Written, Slots, Cap
<1>2. Taken(y) = Taken(x) \union {i} /\ i \notin Taken(x)
  BY <1>1, KindsAre DEF Taken, Full
<1>3. IsFiniteSet(Taken(x))
  BY TakenIs DEF Typed
<1>4. Cardinality(Taken(y)) = Cardinality(Taken(x)) + 1
  BY <1>2, <1>3, FS_AddElement
<1>5. QED
  BY <1>1, <1>2, <1>4

LEMMA InsertInIs ==
  ASSUME hash \in [Names -> Nat], NEW x, Well(hash, x), Numbered(x), NEW k \in Kinds,
         LookupIn(x, k) >= 0 \/ ~IsFull(x), NEW y, y = InsertIn(x, k)
  PROVE  /\ Well(hash, y) /\ Numbered(y) /\ y.row = x.row
         /\ Found(x, k) => y = x
         /\ ~Found(x, k) => \E i \in Slots(x) : ~Full(x, i) /\ Written(x, y, k, i)
<1>1. Typed(x)
  BY DEF Well
<1>2. LookupIn(x, k) >= 0 <=> Found(x, k)
  BY FoundIs
<1>3. CASE Found(x, k)
  BY <1>2, <1>3 DEF InsertIn
<1>4. CASE ~Found(x, k)
  <2>1. y = InsertInEmpty(x, k)
    BY <1>2, <1>4 DEF InsertIn
  <2>2. PICK f \in Slots(x) : ~Full(x, f)
    BY <1>1, <1>2, <1>4, ByteIs DEF IsFull
  <2>3. x.next < Cap(x)
    BY <1>1, <2>2, LocLeft
  <2>4. Well(hash, y) /\ \E i \in Slots(x) : ~Full(x, i) /\ Written(x, y, k, i)
    BY <1>1, <1>4, <2>1, <2>2, <2>3, InsertInEmptyIs DEF Found
  <2>5. PICK i \in Slots(x) : ~Full(x, i) /\ Written(x, y, k, i)
    BY <2>4
  <2>6. /\ y.row = x.row /\ y.next = x.next + 1 /\ Slots(y) = Slots(x)
        /\ \A j \in Slots(x) : /\ y.key[j] = IF j = i THEN k ELSE x.key[j]
                               /\ y.loc[j] = IF j = i THEN x.next ELSE x.loc[j]
        /\ Cardinality(Taken(y)) = Cardinality(Taken(x)) + 1
    BY <1>1, <2>5, WrittenIs
  <2>7. /\ x.next \in Nat /\ Cardinality(Taken(x)) \in Nat
        /\ \A j \in Slots(x) : x.loc[j] \in Nat
    <3>1. x.loc \in [Slots(x) -> 0 .. Cap(x)] /\ Cap(x) \in Nat /\ x.row \in Row /\ x.next \in 0 .. Cap(x)
      BY <1>1, CapIs DEF Typed
    <3>2. QED
      BY <3>1, TakenIs
  <2>8. Numbered(y)
    <3>1. \A j \in Slots(x) : x.loc[j] <= x.next /\ (x.key[j] \in Key => x.loc[j] < x.next)
      BY DEF Numbered
    <3>2. \A j \in Slots(x) : y.loc[j] <= y.next /\ (y.key[j] \in Key => y.loc[j] < y.next)
      BY <2>6, <2>7, <3>1
    <3>3. \A j, l \in Slots(x) :
            y.key[j] \in Key /\ y.key[l] \in Key /\ y.loc[j] = y.loc[l] => j = l
      <4>1. \A j \in Slots(x) : j # i /\ y.key[j] \in Key => y.loc[j] # x.next
        BY <2>6, <2>7, <3>1
      <4>2. \A j, l \in Slots(x) : x.key[j] \in Key /\ x.key[l] \in Key /\ x.loc[j] = x.loc[l] => j = l
        BY DEF Numbered
      <4>3. QED
        BY <2>6, <4>1, <4>2
    <3>4. y.next <= Cardinality(Taken(y))
      BY <2>6, <2>7 DEF Numbered
    <3>5. QED
      BY <2>6, <3>2, <3>3, <3>4 DEF Numbered
  <2>9. QED
    BY <1>4, <2>4, <2>6, <2>8
<1>5. QED
  BY <1>3, <1>4

-------------------------------------------------------------------------------
(* Growth. *)

LEMMA EmptyIs ==
  ASSUME NEW r \in Row, NEW h
  PROVE  /\ Well(h, Empty(r)) /\ Empty(r).row = r /\ Empty(r).next = 0
         /\ Empty(r).mode = "noStrings"
         /\ \A i \in Slots(Empty(r)) : Empty(r).key[i] = Free /\ Empty(r).loc[i] = 0
<1> DEFINE y == Empty(r)
           c == BufCap[r]
           x == [row |-> r, key |-> [i \in 0 .. c - 1 |-> Free], loc |-> [i \in 0 .. c - 1 |-> 0],
                 next |-> 0, limit |-> 0, dev |-> 0, mode |-> "noStrings"]
<1>1. y = [x EXCEPT !.limit = IdealStepLimit(x)]
  BY DEF Empty
<1>2. IdealStepLimit(x) = Ulog2(c)
  BY DEF IdealStepLimit, Cap
<1>3. y = [row |-> r, key |-> [i \in 0 .. c - 1 |-> Free], loc |-> [i \in 0 .. c - 1 |-> 0],
           next |-> 0, limit |-> Ulog2(c), dev |-> 0, mode |-> "noStrings"]
  BY <1>1, <1>2
<1> HIDE DEF x, y
<1>4. /\ y.row = r /\ y.key = [i \in 0 .. c - 1 |-> Free] /\ y.loc = [i \in 0 .. c - 1 |-> 0]
      /\ y.next = 0 /\ y.limit = Ulog2(c) /\ y.dev = 0 /\ y.mode = "noStrings"
      /\ y = [row |-> y.row, key |-> y.key, loc |-> y.loc, next |-> y.next,
              limit |-> y.limit, dev |-> y.dev, mode |-> y.mode]
  BY <1>3
<1>5. c \in Nat /\ c # 0 /\ Ulog2(c) \in Nat
  BY RowIs, UlogIs
<1>6. Cap(y) = c /\ Slots(y) = 0 .. c - 1 /\ IdealStepLimit(y) = Ulog2(c)
  BY <1>4 DEF Cap, Slots, IdealStepLimit
<1>7. \A i \in Slots(y) : y.key[i] = Free /\ y.loc[i] = 0
  BY <1>4, <1>6
<1> HIDE DEF c
<1>8. Typed(y)
  <2>1. y.mode \in Modes /\ y.next \in 0 .. c
    BY <1>4, <1>5 DEF Modes
  <2>2. y.key \in [0 .. c - 1 -> Kinds \union {Free}] /\ y.loc \in [0 .. c - 1 -> 0 .. c]
    BY <1>4, <1>5
  <2>3. y.row \in Row /\ y.limit \in Nat /\ y.dev \in Nat
    BY <1>4, <1>5
  <2>4. QED
    BY <1>4, <1>6, <2>1, <2>2, <2>3, Zenon DEF Typed
<1>9. Distinct(y) /\ Within(h, y) /\ Served(y)
  BY <1>4, <1>5, <1>6, <1>7 DEF Distinct, Within, Served, Full
<1>10. QED
  BY <1>4, <1>7, <1>8, <1>9 DEF Well, y

\* The number of the next loc is nobody else's business.
LEMMA NextIs ==
  ASSUME NEW x, NEW h, Well(h, x), NEW n \in 0 .. Cap(x), NEW y, y = [x EXCEPT !.next = n]
  PROVE  /\ Well(h, y) /\ y.next = n /\ y.row = x.row /\ y.key = x.key /\ y.loc = x.loc
         /\ y.mode = x.mode
<1>1. /\ y = [row |-> y.row, key |-> y.key, loc |-> y.loc, next |-> y.next,
              limit |-> y.limit, dev |-> y.dev, mode |-> y.mode]
      /\ y.next = n /\ y.row = x.row /\ y.key = x.key /\ y.loc = x.loc /\ y.mode = x.mode
      /\ y.limit = x.limit /\ y.dev = x.dev
  <2>1. x = [row |-> x.row, key |-> x.key, loc |-> x.loc, next |-> x.next,
             limit |-> x.limit, dev |-> x.dev, mode |-> x.mode]
    BY DEF Well, Typed
  <2>2. y = [row |-> x.row, key |-> x.key, loc |-> x.loc, next |-> n,
             limit |-> x.limit, dev |-> x.dev, mode |-> x.mode]
    BY <2>1
  <2>3. QED
    BY <2>2
<1>2. Cap(y) = Cap(x) /\ Slots(y) = Slots(x) /\ IdealStepLimit(y) = IdealStepLimit(x)
  BY <1>1 DEF Cap, Slots, IdealStepLimit
<1>3. Typed(y)
  <2>1. /\ x.row \in Row /\ x.key \in [Slots(x) -> Kinds \union {Free}]
        /\ x.loc \in [Slots(x) -> 0 .. Cap(x)]
        /\ x.limit \in Nat /\ x.dev \in Nat /\ x.mode \in Modes
    BY DEF Well, Typed
  <2>2. QED
    BY <1>1, <1>2, <2>1, Zenon DEF Typed
<1>4. Distinct(y)
  BY <1>1, <1>2 DEF Well, Distinct, Full
<1>5. Within(h, y)
  BY <1>1, <1>2 DEF Well, Within, Full, SlotAt
<1>6. Served(y)
  BY <1>1, <1>2 DEF Well, Served, Full, Admitted
<1>7. QED
  BY <1>1, <1>3, <1>4, <1>5, <1>6 DEF Well

\* What growIdx has after n buckets of x.
After(x, m, g) ==
  g = [n \in 0 .. m |-> IF n = 0 THEN Empty(x.row + 1) ELSE Moved(g[n - 1], x, n - 1)]

LEMMA AfterExists ==
  ASSUME NEW x, NEW c \in Nat
  PROVE  \E g : After(x, c, g)
<1> DEFINE Bad == {m \in Nat : ~\E g : After(x, m, g)}
<1>1. SUFFICES ASSUME Bad # {} PROVE FALSE
  OBVIOUS
<1> DEFINE m == Min(Bad)
<1>2. m \in Bad /\ \A n \in Bad : m <= n
  <2>1. Bad \in SUBSET Nat
    OBVIOUS
  <2> HIDE DEF Bad
  <2>2. QED
    BY <1>1, <2>1, MinIs
<1>3. m \in Nat
  BY <1>2
<1> HIDE DEF m
<1>4. CASE m = 0
  <2> DEFINE g == [n \in 0 .. 0 |-> Empty(x.row + 1)]
  <2>1. \A n \in 0 .. 0 : n = 0
    OBVIOUS
  <2>2. g = [n \in 0 .. 0 |-> IF n = 0 THEN Empty(x.row + 1) ELSE Moved(g[n - 1], x, n - 1)]
    BY <2>1
  <2>3. After(x, 0, g)
    BY <2>2 DEF After
  <2>4. QED
    BY <1>2, <1>4, <2>3
<1>5. CASE m # 0
  <2>1. m - 1 \in Nat /\ ~(m <= m - 1)
    BY <1>3, <1>5
  <2>2. m - 1 \notin Bad
    BY <1>2, <2>1
  <2>3. PICK g : After(x, m - 1, g)
    BY <2>1, <2>2
  <2> DEFINE E == Empty(x.row + 1)
             f == [n \in 0 .. m |-> IF n = 0 THEN E ELSE Moved(g[n - 1], x, n - 1)]
  <2> HIDE DEF E
  <2>4. \A n \in 0 .. m - 1 : g[n] = IF n = 0 THEN E ELSE Moved(g[n - 1], x, n - 1)
    <3>1. g = [n \in 0 .. m - 1 |-> IF n = 0 THEN E ELSE Moved(g[n - 1], x, n - 1)]
      BY <2>3 DEF After, E
    <3>2. \A n \in 0 .. m - 1 :
            [i \in 0 .. m - 1 |-> IF i = 0 THEN E ELSE Moved(g[i - 1], x, i - 1)][n]
              = IF n = 0 THEN E ELSE Moved(g[n - 1], x, n - 1)
      OBVIOUS
    <3>3. QED
      BY <3>1, <3>2, Zenon
  <2>5. \A n \in 0 .. m - 1 : n \in 0 .. m
    BY <1>3
  <2>6. \A n \in 0 .. m - 1 : f[n] = g[n]
    BY <2>4, <2>5
  <2>7. \A n \in 0 .. m : n # 0 => n - 1 \in 0 .. m - 1
    BY <1>3
  <2>8. \A n \in 0 .. m : n # 0 => f[n - 1] = g[n - 1]
    <3> HIDE DEF f
    <3>1. QED
      BY <2>6, <2>7
  <2>9. f = [n \in 0 .. m |-> IF n = 0 THEN E ELSE Moved(f[n - 1], x, n - 1)]
    BY <2>8
  <2>10. After(x, m, f)
    BY <2>9 DEF After, E
  <2>11. QED
    BY <1>2, <2>10
<1>6. QED
  BY <1>4, <1>5

LEMMA AfterIs ==
  ASSUME NEW x, NEW c \in Nat, NEW g, After(x, c, g)
  PROVE  /\ g[0] = Empty(x.row + 1)
         /\ \A n \in 0 .. c : n + 1 \in 0 .. c => g[n + 1] = Moved(g[n], x, n)
<1> DEFINE E == Empty(x.row + 1)
           M(n) == Moved(g[n - 1], x, n - 1)
<1>1. g = [n \in 0 .. c |-> IF n = 0 THEN E ELSE M(n)]
  BY DEF After
<1> HIDE DEF E, M
<1>2. \A n \in 0 .. c : g[n] = IF n = 0 THEN E ELSE M(n)
  <2>1. \A n \in 0 .. c : [i \in 0 .. c |-> IF i = 0 THEN E ELSE M(i)][n] = IF n = 0 THEN E ELSE M(n)
    OBVIOUS
  <2>2. QED
    BY <1>1, <2>1, Zenon
<1>3. g[0] = E
  BY <1>2
<1>4. ASSUME NEW n \in 0 .. c, n + 1 \in 0 .. c PROVE g[n + 1] = Moved(g[n], x, n)
  <2>1. n + 1 # 0 /\ (n + 1) - 1 = n
    BY <1>4
  <2>2. g[n + 1] = M(n + 1)
    BY <1>2, <1>4, <2>1
  <2>3. M(n + 1) = Moved(g[(n + 1) - 1], x, (n + 1) - 1)
    BY DEF M
  <2>4. QED
    BY <2>1, <2>2, <2>3
<1>5. QED
  BY <1>3, <1>4 DEF E

\* The buckets of the one that have a key of the program are buckets of the other.
Kept(x, y) ==
  \A i \in Slots(x) : x.key[i] \in Key =>
    \E j \in Slots(y) : y.key[j] = x.key[i] /\ y.loc[j] = x.loc[i]

\* The same of the first n buckets of x.
KeptUpTo(x, y, n) ==
  \A i \in Slots(x) : i < n /\ x.key[i] \in Key =>
    \E j \in Slots(y) : y.key[j] = x.key[i] /\ y.loc[j] = x.loc[i]
From(x, y, n) ==
  \A j \in Slots(y) : y.key[j] \in Key =>
    \E i \in Slots(x) : i < n /\ x.key[i] = y.key[j] /\ x.loc[i] = y.loc[j]

\* No key is forgotten, of the program or not.
Carried(x, y, n) == \A i \in Slots(x) : i < n /\ Full(x, i) => Found(y, x.key[i])

\* The copy half way.
Copied(x, n, y) ==
  /\ Well(hash, y) /\ y.row = x.row + 1
  /\ KeptUpTo(x, y, n) /\ From(x, y, n) /\ Carried(x, y, n)
  /\ \A j \in Slots(y) : y.loc[j] <= x.next
  /\ Cardinality(Taken(y)) <= n

LEMMA RoomIs ==
  ASSUME NEW y, Typed(y), NEW n \in Nat, n < Cap(y), Cardinality(Taken(y)) <= n
  PROVE  \E f \in Slots(y) : ~Full(y, f)
<1>1. /\ Cardinality(Slots(y)) = Cap(y) /\ Cap(y) \in Nat
      /\ Cardinality(Taken(y)) \in Nat
  BY CapIs, TakenIs DEF Typed
<1>2. Taken(y) # Slots(y)
  BY <1>1
<1>3. QED
  BY <1>2 DEF Taken

LEMMA CopyBegins ==
  ASSUME NEW x, Typed(x), x.row + 1 \in Row
  PROVE  Copied(x, 0, Empty(x.row + 1))
<1> DEFINE y == Empty(x.row + 1)
<1>1. /\ Well(hash, y) /\ y.row = x.row + 1 /\ \A i \in Slots(y) : y.key[i] = Free
      /\ \A i \in Slots(y) : y.loc[i] = 0
  BY EmptyIs
<1> HIDE DEF y
<1>2. Taken(y) = {}
  BY <1>1 DEF Taken, Full
<1>3. Cardinality(Taken(y)) = 0 /\ x.next \in Nat
  BY <1>2, FS_EmptySet, CapIs DEF Typed
<1>4. \A i \in Slots(x) : i \in Nat /\ ~(i < 0)
  BY CapIs DEF Typed
<1>5. From(x, y, 0)
  BY <1>1, KindsAre DEF From, Kinds
<1>6. KeptUpTo(x, y, 0) /\ Carried(x, y, 0)
  BY <1>4 DEF KeptUpTo, Carried
<1>7. QED
  BY <1>1, <1>3, <1>5, <1>6 DEF Copied, y

LEMMA CopyGoesOn ==
  ASSUME hash \in [Names -> Nat], NEW x, Well(hash, x), Numbered(x), x.row + 1 \in Row,
         NEW n \in Slots(x), NEW y, Copied(x, n, y)
  PROVE  Copied(x, n + 1, Moved(y, x, n))
<1> DEFINE k == KeyAt(x, n)
           z == [y EXCEPT !.next = x.loc[n]]
           w == InsertInEmpty(z, k)
<1>1. /\ Typed(x) /\ x.row \in Row /\ x.key \in [Slots(x) -> Kinds \union {Free}]
      /\ x.loc \in [Slots(x) -> 0 .. Cap(x)] /\ x.loc[n] <= x.next
  BY DEF Well, Typed, Numbered
<1>2. Well(hash, y) /\ y.row = x.row + 1 /\ Typed(y)
  BY DEF Copied, Well
<1>3. /\ Cap(x) \in Nat /\ Cap(y) \in Nat /\ Cap(x) < Cap(y)
      /\ \A i \in Slots(x) : i \in Nat /\ i < Cap(x)
  <2>1. Cap(x) < Cap(y)
    BY <1>1, <1>2, RowIs DEF Cap
  <2>2. QED
    BY <1>1, <1>2, <2>1, CapIs
<1>4. n \in Nat /\ n < Cap(x) /\ n < Cap(y) /\ x.loc[n] \in 0 .. Cap(y) /\ x.loc[n] < Cap(y)
  BY <1>1, <1>3
<1>5. /\ k \in Kinds
      /\ x.key[n] \in Key => k = x.key[n]
      /\ k \in Key => k = x.key[n]
      /\ Full(x, n) => k = x.key[n]
  <2>1. x.key[n] \in Kinds \union {Free} /\ Zero \notin Key /\ Zero \in Kinds /\ Free \notin Key
    BY <1>1, KindsAre DEF Kinds, Equal
  <2>2. QED
    BY <2>1 DEF KeyAt, Kinds, Full
<1>6. /\ Well(hash, z) /\ z.next = x.loc[n] /\ z.row = y.row /\ z.key = y.key /\ z.loc = y.loc
      /\ Slots(z) = Slots(y) /\ Cap(z) = Cap(y)
  <2>1. /\ Well(hash, z) /\ z.next = x.loc[n] /\ z.row = y.row /\ z.key = y.key /\ z.loc = y.loc
    BY <1>2, <1>4, NextIs
  <2>2. QED
    BY <2>1 DEF Slots, Cap
<1>7. Moved(y, x, n) = IF LookupIn(z, k) >= 0 THEN z ELSE w
  BY DEF Moved, InsertIn
<1> HIDE DEF k, z
<1>8. /\ Cardinality(Taken(y)) \in Nat
      /\ Cardinality(Taken(y)) <= n /\ Cardinality(Taken(y)) <= n + 1
  <2>1. Cardinality(Taken(y)) <= n
    BY DEF Copied
  <2>2. Cardinality(Taken(y)) \in Nat
    BY <1>2, TakenIs DEF Typed
  <2>3. QED
    BY <1>4, <2>1, <2>2
<1>9. \A i \in Slots(x) : (i < n + 1) <=> (i < n \/ i = n)
  <2>1. n \in Nat /\ \A i \in Slots(x) : i \in Nat
    BY <1>3, <1>4
  <2>2. \A i \in Nat : (i < n + 1) <=> (i < n \/ i = n)
    BY <2>1
  <2>3. QED
    BY <2>1, <2>2
<1>10. Typed(z) /\ \A i \in Slots(z) : z.loc[i] \in 0 .. Cap(z) /\ z.loc[i] >= 0
  <2>1. Typed(z) /\ Cap(z) \in Nat
    BY <1>3, <1>6 DEF Well
  <2>2. \A i \in Slots(z) : z.loc[i] \in 0 .. Cap(z)
    BY <2>1 DEF Typed
  <2>3. QED
    BY <2>1, <2>2
<1>11. CASE LookupIn(z, k) >= 0
  <2>1. PICK i \in Slots(z) : Full(z, i) /\ Equal(z.key[i], k)
    <3>1. LookupIn(z, k) # -1
      BY <1>11
    <3>2. QED
      BY <1>5, <1>6, <3>1, LookupIs
  <2>2. x.key[n] \notin Key
    <3>1. SUFFICES ASSUME x.key[n] \in Key PROVE FALSE
      OBVIOUS
    <3>2. k = x.key[n] /\ k \in Key
      BY <1>5, <3>1
    <3>3. z.key[i] \in Kinds
      BY <1>10, <2>1 DEF Typed, Full
    <3>4. y.key[i] \in Key
      BY <1>6, <2>1, <3>2, <3>3, KindsAre DEF Equal, Kinds
    <3>5. PICK j \in Slots(x) : j < n /\ x.key[j] = y.key[i]
      BY <1>6, <2>1, <3>4 DEF Copied, From
    <3>6. Full(x, j) /\ Full(x, n) /\ Equal(x.key[j], x.key[n])
      BY <1>6, <2>1, <3>1, <3>2, <3>4, <3>5, KindsAre DEF Full, Kinds
    <3>7. j = n
      BY <3>6 DEF Well, Distinct
    <3>8. QED
      BY <1>4, <3>5, <3>7
  <2>3. KeptUpTo(x, z, n + 1)
    BY <1>6, <1>9, <2>2 DEF Copied, KeptUpTo
  <2>4. From(x, z, n + 1)
    BY <1>6, <1>9 DEF Copied, From
  <2>5. Taken(z) = Taken(y)
    BY <1>6 DEF Taken, Full
  <2>6. Carried(x, z, n + 1)
    <3>1. \A l : Found(y, l) <=> Found(z, l)
      BY <1>6 DEF Found, Full
    <3>2. Full(x, n) => Found(z, x.key[n])
      BY <1>5, <2>1 DEF Found
    <3>3. QED
      BY <1>9, <3>1, <3>2 DEF Copied, Carried
  <2>7. \A j \in Slots(z) : z.loc[j] <= x.next
    BY <1>6 DEF Copied
  <2>8. QED
    BY <1>2, <1>6, <1>7, <1>8, <1>11, <2>3, <2>4, <2>5, <2>6, <2>7 DEF Copied
<1>12. CASE ~(LookupIn(z, k) >= 0)
  <2>1. \A i \in Slots(z) : ~(Full(z, i) /\ Equal(z.key[i], k))
    BY <1>5, <1>6, <1>10, <1>12, LookupIs
  <2>2. PICK f \in Slots(z) : ~Full(z, f)
    <3>1. \E f \in Slots(y) : ~Full(y, f)
      BY <1>2, <1>4, <1>8, RoomIs
    <3>2. QED
      BY <1>6, <3>1 DEF Full
  <2>3. /\ Well(hash, w)
        /\ \E i \in Slots(z) : ~Full(z, i) /\ Written(z, w, k, i)
    <3>1. z.next < Cap(z)
      BY <1>4, <1>6
    <3>2. w = InsertInEmpty(z, k)
      OBVIOUS
    <3> HIDE DEF w
    <3>3. QED
      BY <1>5, <1>6, <2>1, <2>2, <3>1, <3>2, InsertInEmptyIs
  <2>4. PICK i \in Slots(z) : ~Full(z, i) /\ Written(z, w, k, i)
    BY <2>3
  <2> HIDE DEF w
  <2>5. /\ w.row = y.row /\ Slots(w) = Slots(y)
        /\ \A j \in Slots(y) : /\ w.key[j] = IF j = i THEN k ELSE y.key[j]
                               /\ w.loc[j] = IF j = i THEN x.loc[n] ELSE y.loc[j]
        /\ Cardinality(Taken(w)) = Cardinality(Taken(y)) + 1
    <3>1. Taken(z) = Taken(y)
      BY <1>6 DEF Taken, Full
    <3>2. QED
      BY <1>5, <1>6, <1>10, <2>4, <3>1, WrittenIs
  <2>6. i \in Slots(y) /\ ~Full(y, i) /\ y.key[i] = Free
    BY <1>6, <2>4 DEF Full
  <2>7. KeptUpTo(x, w, n + 1)
    <3>1. SUFFICES ASSUME NEW a \in Slots(x), a < n + 1, x.key[a] \in Key
                   PROVE  \E j \in Slots(y) : w.key[j] = x.key[a] /\ w.loc[j] = x.loc[a]
      BY <2>5 DEF KeptUpTo
    <3>2. CASE a = n
      BY <1>5, <2>5, <2>6, <3>1, <3>2
    <3>3. CASE a # n
      <4>1. a < n
        BY <1>9, <3>1, <3>3
      <4>2. PICK j \in Slots(y) : y.key[j] = x.key[a] /\ y.loc[j] = x.loc[a]
        BY <3>1, <4>1 DEF Copied, KeptUpTo
      <4>3. j # i
        BY <2>6, <3>1, <4>2, KindsAre DEF Kinds
      <4>4. QED
        BY <2>5, <4>2, <4>3
    <3>4. QED
      BY <3>2, <3>3
  <2>8. From(x, w, n + 1)
    <3>1. SUFFICES ASSUME NEW j \in Slots(y), w.key[j] \in Key
                   PROVE  \E a \in Slots(x) : a < n + 1 /\ x.key[a] = w.key[j] /\ x.loc[a] = w.loc[j]
      BY <2>5 DEF From
    <3>2. CASE j = i
      BY <1>5, <1>9, <2>5, <3>1, <3>2
    <3>3. CASE j # i
      <4>1. w.key[j] = y.key[j] /\ w.loc[j] = y.loc[j]
        BY <2>5, <3>3
      <4>2. PICK a \in Slots(x) : a < n /\ x.key[a] = y.key[j] /\ x.loc[a] = y.loc[j]
        BY <3>1, <4>1 DEF Copied, From
      <4>3. QED
        BY <1>9, <4>1, <4>2
    <3>4. QED
      BY <3>2, <3>3
  <2>9. Carried(x, w, n + 1)
    <3>1. SUFFICES ASSUME NEW a \in Slots(x), a < n + 1, Full(x, a)
                   PROVE  Found(w, x.key[a])
      BY DEF Carried
    <3>2. Found(w, k)
      BY <1>5, <2>5, <2>6, KindsAre DEF Found, Full, Equal
    <3>3. CASE a = n
      BY <1>5, <3>1, <3>2, <3>3
    <3>4. CASE a # n
      <4>1. a < n
        BY <1>9, <3>1, <3>4
      <4>2. PICK j \in Slots(y) : Full(y, j) /\ Equal(y.key[j], x.key[a])
        BY <3>1, <4>1 DEF Copied, Carried, Found
      <4>3. QED
        BY <2>5, <2>6, <4>2 DEF Found, Full
    <3>5. QED
      BY <3>3, <3>4
  <2>10. \A j \in Slots(w) : w.loc[j] <= x.next
    BY <1>1, <2>5 DEF Copied
  <2>11. Cardinality(Taken(w)) <= n + 1
    BY <1>4, <1>8, <2>5
  <2>12. QED
    BY <1>2, <1>7, <1>12, <2>3, <2>5, <2>7, <2>8, <2>9, <2>10, <2>11 DEF Copied, w
<1>13. QED
  BY <1>11, <1>12

LEMMA CopyIs ==
  ASSUME hash \in [Names -> Nat], NEW x, Well(hash, x), Numbered(x), x.row + 1 \in Row,
         NEW g, After(x, Cap(x), g)
  PROVE  Copied(x, Cap(x), g[Cap(x)])
<1> DEFINE c == Cap(x)
           Bad == {n \in 0 .. c : ~Copied(x, n, g[n])}
<1>1. c \in Nat /\ Slots(x) = 0 .. c - 1 /\ Typed(x)
  BY CapIs DEF Well, Typed
<1>2. /\ g[0] = Empty(x.row + 1)
      /\ \A n \in 0 .. c : n + 1 \in 0 .. c => g[n + 1] = Moved(g[n], x, n)
  BY <1>1, AfterIs
<1> HIDE DEF c
<1>3. Bad = {}
  <2>1. SUFFICES ASSUME Bad # {} PROVE FALSE
    OBVIOUS
  <2> DEFINE m == Min(Bad)
  <2>2. m \in Bad /\ \A n \in Bad : m <= n
    <3>1. Bad \in SUBSET Nat
      BY <1>1
    <3> HIDE DEF Bad
    <3>2. QED
      BY <2>1, <3>1, MinIs
  <2>3. m \in 0 .. c /\ ~Copied(x, m, g[m])
    BY <2>2
  <2> HIDE DEF m
  <2>4. m # 0
    <3>1. Copied(x, 0, g[0])
      BY <1>1, <1>2, CopyBegins
    <3>2. QED
      BY <2>3, <3>1
  <2>5. /\ m - 1 \in 0 .. c /\ m - 1 \in Slots(x) /\ ~(m <= m - 1)
        /\ (m - 1) + 1 = m
    BY <1>1, <2>3, <2>4
  <2>6. Copied(x, m - 1, g[m - 1])
    BY <2>2, <2>5
  <2> DEFINE n == m - 1
  <2>7. n \in Slots(x) /\ Copied(x, n, g[n]) /\ n + 1 = m /\ n \in 0 .. c
    BY <2>5, <2>6
  <2> HIDE DEF n
  <2>8. Copied(x, n + 1, Moved(g[n], x, n))
    BY <2>7, CopyGoesOn
  <2>9. g[m] = Moved(g[n], x, n)
    BY <1>2, <2>3, <2>7
  <2>10. QED
    BY <2>3, <2>7, <2>8, <2>9
<1>4. c \in 0 .. c
  BY <1>1
<1>5. QED
  BY <1>3, <1>4 DEF c

\* An index that carries the keys of another has no fewer buckets taken.
LEMMA CarriedIs ==
  ASSUME NEW x, Typed(x), Distinct(x), NEW y, Typed(y),
         \A i \in Slots(x) : Full(x, i) => Found(y, x.key[i])
  PROVE  Cardinality(Taken(x)) <= Cardinality(Taken(y))
<1> DEFINE S == Taken(x)
           T == Taken(y)
           to == [i \in S |-> CHOOSE j \in T : Equal(y.key[j], x.key[i])]
<1>1. \A i \in S : \E j \in T : Equal(y.key[j], x.key[i])
  BY DEF Taken, Found
<1>2. \A i, j \in S : Equal(x.key[i], x.key[j]) => i = j
  BY DEF Taken, Distinct
<1>3. IsFiniteSet(T)
  BY TakenIs DEF Typed
<1> HIDE DEF S, T
<1>4. \A i \in S : to[i] \in T /\ Equal(y.key[to[i]], x.key[i])
  <2>1. \A i \in S : to[i] = CHOOSE j \in T : Equal(y.key[j], x.key[i])
    OBVIOUS
  <2> HIDE DEF to
  <2>2. QED
    BY <1>1, <2>1
<1>5. to \in [S -> T]
  <2>1. to = [i \in S |-> to[i]]
    OBVIOUS
  <2> HIDE DEF to
  <2>2. QED
    BY <1>4, <2>1
<1> HIDE DEF to
<1>6. IsInjective(to)
  BY <1>2, <1>4, <1>5 DEF IsInjective, Equal
<1>7. to \in Injection(S, T)
  BY <1>5, <1>6 DEF Injection
<1>8. Cardinality(S) <= Cardinality(T)
  BY <1>3, <1>7, FS_Injection
<1>9. QED
  BY <1>8 DEF S, T

\* A growth keeps every key of the program with its loc, and adds none of those.
LEMMA GrownIs ==
  ASSUME hash \in [Names -> Nat], NEW x, Well(hash, x), Numbered(x), x.row + 1 \in Row
  PROVE  /\ Well(hash, Grown(x)) /\ Numbered(Grown(x))
         /\ Grown(x).next = x.next /\ Grown(x).row = x.row + 1
         /\ Kept(x, Grown(x)) /\ Kept(Grown(x), x)
         /\ \A i \in Slots(x) : Full(x, i) => Found(Grown(x), x.key[i])
<1> DEFINE g == CHOOSE f : After(x, Cap(x), f)
           y == g[Cap(x)]
           z == [y EXCEPT !.next = x.next]
<1>1. Typed(x) /\ Cap(x) \in Nat /\ \A i \in Slots(x) : i \in Nat /\ i < Cap(x)
  BY CapIs DEF Well, Typed
<1>2. After(x, Cap(x), g)
  BY <1>1, AfterExists
<1>3. Grown(x) = z
  BY DEF Grown, After
<1>4. Copied(x, Cap(x), y)
  <2> HIDE DEF g
  <2>1. QED
    BY <1>2, CopyIs
<1> HIDE DEF y
<1>5. Well(hash, y) /\ y.row = x.row + 1
  BY <1>4 DEF Copied
<1>6. x.next \in 0 .. Cap(y)
  <2>1. Cap(x) < Cap(y) /\ Cap(y) \in Nat
    BY <1>1, <1>5, RowIs DEF Cap, Well, Typed
  <2>2. QED
    BY <1>1, <2>1 DEF Typed
<1>7. /\ Well(hash, z) /\ z.next = x.next /\ z.row = y.row /\ z.key = y.key /\ z.loc = y.loc
  BY <1>5, <1>6, NextIs
<1> HIDE DEF z
<1>8. Slots(z) = Slots(y)
  BY <1>7 DEF Slots, Cap
<1>9. Kept(x, z)
  BY <1>1, <1>4, <1>7, <1>8 DEF Copied, KeptUpTo, Kept
<1>10. Kept(z, x)
  BY <1>4, <1>7, <1>8 DEF Copied, From, Kept
<1>11. \A i \in Slots(x) : Full(x, i) => Found(z, x.key[i])
  BY <1>1, <1>4, <1>7, <1>8 DEF Copied, Carried, Found, Full
<1>12. Numbered(z)
  <2>1. \A i \in Slots(z) : z.loc[i] <= z.next
    BY <1>4, <1>7, <1>8 DEF Copied
  <2>2. \A i \in Slots(z) : z.key[i] \in Key => z.loc[i] < z.next
    BY <1>7, <1>10 DEF Kept, Numbered
  <2>3. \A i, j \in Slots(z) : z.key[i] \in Key /\ z.key[j] \in Key /\ z.loc[i] = z.loc[j] => i = j
    <3>1. SUFFICES ASSUME NEW i \in Slots(z), NEW j \in Slots(z),
                          z.key[i] \in Key, z.key[j] \in Key, z.loc[i] = z.loc[j]
                   PROVE  i = j
      OBVIOUS
    <3>2. PICK a \in Slots(x) : x.key[a] = z.key[i] /\ x.loc[a] = z.loc[i]
      BY <1>10, <3>1 DEF Kept
    <3>3. PICK b \in Slots(x) : x.key[b] = z.key[j] /\ x.loc[b] = z.loc[j]
      BY <1>10, <3>1 DEF Kept
    <3>4. a = b
      BY <3>1, <3>2, <3>3 DEF Numbered
    <3>5. Full(z, i) /\ Full(z, j) /\ Equal(z.key[i], z.key[j])
      BY <3>1, <3>2, <3>3, <3>4, KindsAre DEF Full, Kinds, Equal
    <3>6. QED
      BY <1>7, <3>5 DEF Well, Distinct
  <2>4. z.next <= Cardinality(Taken(z))
    <3>1. Cardinality(Taken(x)) <= Cardinality(Taken(z))
      BY <1>1, <1>7, <1>11, CarriedIs DEF Well
    <3>2. x.next <= Cardinality(Taken(x)) /\ z.next = x.next
      BY <1>7 DEF Numbered
    <3>3. /\ Cardinality(Taken(x)) \in Nat /\ Cardinality(Taken(z)) \in Nat
          /\ x.next \in Nat
      BY <1>1, <1>7, TakenIs, CapIs DEF Well, Typed
    <3>4. QED
      BY <3>1, <3>2, <3>3
  <2>5. QED
    BY <2>1, <2>2, <2>3, <2>4 DEF Numbered
<1>13. QED
  BY <1>3, <1>5, <1>7, <1>9, <1>10, <1>11, <1>12

-------------------------------------------------------------------------------
(* The index of the program. *)

IdxInv ==
  /\ hash \in Hashings /\ Well(hash, idx) /\ Numbered(idx)
  /\ pc \in {"old", "buf"} => idx.row + 1 \in Row

LEMMA HashIs == hash \in Hashings => hash \in [Names -> Nat]
BY IndexAssumption

\* A growth that has the memory.
LEMMA GrowthIs ==
  ASSUME IdxInv, pc = "buf"
  PROVE  /\ Well(hash, Grown(idx)) /\ Numbered(Grown(idx)) /\ Grown(idx).next = idx.next
         /\ Kept(idx, Grown(idx)) /\ Kept(Grown(idx), idx)
         /\ \A i \in Slots(idx) : Full(idx, i) => Found(Grown(idx), idx.key[i])
<1>1. hash \in [Names -> Nat] /\ Well(hash, idx) /\ Numbered(idx) /\ idx.row + 1 \in Row
  BY HashIs DEF IdxInv
<1>2. QED
  BY <1>1, GrownIs

LEMMA EmptyNumbered == \A r \in Row : Numbered(Empty(r))
<1> SUFFICES ASSUME NEW r \in Row PROVE Numbered(Empty(r))
  OBVIOUS
<1> DEFINE y == Empty(r)
<1>1. /\ y.row = r /\ y.next = 0 /\ \A i \in Slots(y) : y.key[i] = Free /\ y.loc[i] = 0
  BY EmptyIs
<1> HIDE DEF y
<1>2. Cardinality(Taken(y)) \in Nat
  BY <1>1, TakenIs
<1>3. Free \notin Key
  BY KindsAre DEF Kinds
<1>4. Numbered(y)
  BY <1>1, <1>2, <1>3 DEF Numbered
<1>5. QED
  BY <1>4 DEF y

LEMMA InitIdx == Init => IdxInv /\ TypeOK
<1>1. SUFFICES ASSUME Init PROVE IdxInv /\ TypeOK
  OBVIOUS
<1>2. 1 \in Row
  BY RowIs
<1>3. Well(hash, idx) /\ Typed(idx) /\ idx.next = 0
  BY <1>1, <1>2, EmptyIs DEF Init, Well
<1>4. Numbered(idx)
  BY <1>1, <1>2, EmptyNumbered DEF Init
<1>5. IdxInv
  BY <1>1, <1>3, <1>4 DEF Init, IdxInv
<1>6. /\ idx.row \in Row /\ idx.next \in 0 .. Cap(idx)
      /\ idx.key \in [Slots(idx) -> Key \union {Zero, Free}]
      /\ idx.loc \in [Slots(idx) -> 0 .. Cap(idx)]
      /\ idx.limit \in Nat /\ idx.dev \in Nat
      /\ idx.mode \in {"noStrings", "noLong", "hasLong"}
  <2>1. Kinds \union {Free} = Key \union {Zero, Free}
    BY DEF Kinds
  <2>2. QED
    BY <1>3, <2>1 DEF Typed, Modes
<1>7. blk \in Blk
  BY <1>1, IndexAssumption DEF Init
<1>8. iter \in [state : {"none", "on", "done"}, i : Nat, due : SUBSET Names,
                seen : SUBSET Names, twice : BOOLEAN, grown : BOOLEAN]
  BY <1>1 DEF Init, NoIter
<1>9. QED
  BY <1>1, <1>5, <1>6, <1>7, <1>8 DEF Init, TypeOK

\* What TypeOK says of the index is a part of Well.
LEMMA IdxTyped ==
  ASSUME Well(hash, idx)
  PROVE  /\ idx.row \in Row /\ idx.next \in 0 .. Cap(idx)
         /\ idx.key \in [Slots(idx) -> Key \union {Zero, Free}]
         /\ idx.loc \in [Slots(idx) -> 0 .. Cap(idx)]
         /\ idx.limit \in Nat /\ idx.dev \in Nat
         /\ idx.mode \in {"noStrings", "noLong", "hasLong"}
<1>1. Kinds \union {Free} = Key \union {Zero, Free}
  BY DEF Kinds
<1>2. QED
  BY <1>1 DEF Well, Typed, Modes

-------------------------------------------------------------------------------
(* Sub-indices. *)

\* The keys of the program in one index come from another, but for one of them.
LEMMA InsertedIs ==
  ASSUME hash \in [Names -> Nat], NEW x, Well(hash, x), Numbered(x), NEW k \in Kinds,
         Returns(x, k), NEW y, y = Inserted(x, k)
  PROVE  /\ Well(hash, y) /\ Numbered(y)
         /\ x.next \in Nat /\ y.next \in Nat /\ x.next <= y.next /\ y.next <= x.next + 1
         /\ Kept(x, y)
         /\ \A l \in Kinds : Found(x, l) \/ Equal(l, k) => Found(y, l)
         /\ \A j \in Slots(y) : y.key[j] \in Key =>
              y.key[j] = k \/ \E i \in Slots(x) : x.key[i] = y.key[j]
         /\ ~Found(x, k) /\ k \in Key => \E j \in Slots(y) : y.key[j] = k
<1> DEFINE w == InsertIn(x, k)
<1>1. Typed(x) /\ x.next \in Nat
  BY CapIs DEF Well, Typed
<1>2. /\ Well(hash, w) /\ Numbered(w) /\ w.row = x.row
      /\ Found(x, k) => w = x
      /\ ~Found(x, k) => \E i \in Slots(x) : ~Full(x, i) /\ Written(x, w, k, i)
  BY InsertInIs DEF Returns
<1>3. y = IF NeedsGrowth(w) THEN Grown(w) ELSE w
  BY DEF Inserted
<1>4. NeedsGrowth(w) => w.row + 1 \in Row
  BY <1>2 DEF Returns
<1> HIDE DEF w
<1>5. /\ x.next <= w.next /\ w.next <= x.next + 1 /\ w.next \in Nat
      /\ Kept(x, w)
      /\ \A l \in Kinds : Found(x, l) \/ Equal(l, k) => Found(w, l)
      /\ \A j \in Slots(w) : w.key[j] \in Key =>
           w.key[j] = k \/ \E i \in Slots(x) : x.key[i] = w.key[j]
      /\ ~Found(x, k) /\ k \in Key => \E j \in Slots(w) : w.key[j] = k
  <2>1. CASE Found(x, k)
    BY <1>1, <1>2, <2>1 DEF Kept, Found, Equal
  <2>2. CASE ~Found(x, k)
    <3>1. PICK i \in Slots(x) : ~Full(x, i) /\ Written(x, w, k, i)
      BY <1>2, <2>2
    <3>2. /\ w.next = x.next + 1 /\ Slots(w) = Slots(x)
          /\ \A j \in Slots(x) : /\ w.key[j] = IF j = i THEN k ELSE x.key[j]
                                 /\ w.loc[j] = IF j = i THEN x.next ELSE x.loc[j]
      BY <1>1, <3>1, WrittenIs
    <3>3. x.key[i] = Free /\ Free \notin Kinds /\ Free \notin Key
      BY <3>1, KindsAre DEF Full, Kinds
    <3>4. Kept(x, w)
      BY <3>2, <3>3 DEF Kept
    <3>5. \A l \in Kinds : Found(x, l) \/ Equal(l, k) => Found(w, l)
      BY <3>2, <3>3 DEF Found, Full, Equal
    <3>6. QED
      BY <1>1, <3>2, <3>4, <3>5
  <2>3. QED
    BY <2>1, <2>2
<1>6. CASE ~NeedsGrowth(w)
  BY <1>1, <1>2, <1>3, <1>5, <1>6
<1>7. CASE NeedsGrowth(w)
  <2>1. /\ Well(hash, y) /\ Numbered(y) /\ y.next = w.next /\ Kept(w, y) /\ Kept(y, w)
        /\ \A i \in Slots(w) : Full(w, i) => Found(y, w.key[i])
    BY <1>2, <1>3, <1>4, <1>7, GrownIs
  <2>2. Kept(x, y)
    BY <1>5, <2>1 DEF Kept
  <2>3. \A l \in Kinds : Found(w, l) => Found(y, l)
    BY <2>1 DEF Found, Equal
  <2>4. \A j \in Slots(y) : y.key[j] \in Key =>
           y.key[j] = k \/ \E i \in Slots(x) : x.key[i] = y.key[j]
    BY <1>5, <2>1 DEF Kept
  <2>5. (\E j \in Slots(w) : w.key[j] = k /\ k \in Key) => \E j \in Slots(y) : y.key[j] = k
    BY <2>1 DEF Kept
  <2>6. QED
    BY <1>1, <1>5, <2>1, <2>2, <2>3, <2>4, <2>5
<1>8. QED
  BY <1>6, <1>7

\* What tazR_subIdx has after n buckets of x.
Picking(x, S, m, g) ==
  g = [n \in 0 .. m |->
        IF n = 0 THEN [sub |-> Empty(1), locs |-> [l \in S |-> -1]]
        ELSE IF n - 1 \in Selected(x, S) THEN Pick(g[n - 1], x, n - 1) ELSE g[n - 1]]

LEMMA PickingExists ==
  ASSUME NEW x, NEW S, NEW c \in Nat
  PROVE  \E g : Picking(x, S, c, g)
<1> DEFINE Bad == {m \in Nat : ~\E g : Picking(x, S, m, g)}
           E == [sub |-> Empty(1), locs |-> [l \in S |-> -1]]
           P == Selected(x, S)
<1> HIDE DEF E, P
<1>1. SUFFICES ASSUME Bad # {} PROVE FALSE
  OBVIOUS
<1> DEFINE m == Min(Bad)
<1>2. m \in Bad /\ \A n \in Bad : m <= n
  <2>1. Bad \in SUBSET Nat
    OBVIOUS
  <2> HIDE DEF Bad
  <2>2. QED
    BY <1>1, <2>1, MinIs
<1>3. m \in Nat
  BY <1>2
<1> HIDE DEF m
<1>4. CASE m = 0
  <2> DEFINE g == [n \in 0 .. 0 |-> E]
  <2>1. \A n \in 0 .. 0 : n = 0
    OBVIOUS
  <2>2. g = [n \in 0 .. 0 |-> IF n = 0 THEN E
                              ELSE IF n - 1 \in P THEN Pick(g[n - 1], x, n - 1) ELSE g[n - 1]]
    BY <2>1
  <2>3. Picking(x, S, 0, g)
    BY <2>2 DEF Picking, E, P
  <2>4. QED
    BY <1>2, <1>4, <2>3
<1>5. CASE m # 0
  <2>1. m - 1 \in Nat /\ ~(m <= m - 1)
    BY <1>3, <1>5
  <2>2. m - 1 \notin Bad
    BY <1>2, <2>1
  <2>3. PICK g : Picking(x, S, m - 1, g)
    BY <2>1, <2>2
  <2> DEFINE f == [n \in 0 .. m |-> IF n = 0 THEN E
                                    ELSE IF n - 1 \in P THEN Pick(g[n - 1], x, n - 1) ELSE g[n - 1]]
  <2>4. \A n \in 0 .. m - 1 : g[n] = IF n = 0 THEN E
                                    ELSE IF n - 1 \in P THEN Pick(g[n - 1], x, n - 1) ELSE g[n - 1]
    <3>1. g = [n \in 0 .. m - 1 |-> IF n = 0 THEN E
                                    ELSE IF n - 1 \in P THEN Pick(g[n - 1], x, n - 1) ELSE g[n - 1]]
      BY <2>3 DEF Picking, E, P
    <3>2. \A n \in 0 .. m - 1 :
            [i \in 0 .. m - 1 |-> IF i = 0 THEN E
               ELSE IF i - 1 \in P THEN Pick(g[i - 1], x, i - 1) ELSE g[i - 1]][n]
              = IF n = 0 THEN E ELSE IF n - 1 \in P THEN Pick(g[n - 1], x, n - 1) ELSE g[n - 1]
      OBVIOUS
    <3>3. QED
      BY <3>1, <3>2, Zenon
  <2>5. \A n \in 0 .. m - 1 : n \in 0 .. m
    BY <1>3
  <2>6. \A n \in 0 .. m - 1 : f[n] = g[n]
    BY <2>4, <2>5
  <2>7. \A n \in 0 .. m : n # 0 => n - 1 \in 0 .. m - 1
    BY <1>3
  <2>8. \A n \in 0 .. m : n # 0 => f[n - 1] = g[n - 1]
    <3> HIDE DEF f
    <3>1. QED
      BY <2>6, <2>7
  <2>9. f = [n \in 0 .. m |-> IF n = 0 THEN E
                              ELSE IF n - 1 \in P THEN Pick(f[n - 1], x, n - 1) ELSE f[n - 1]]
    BY <2>8
  <2>10. Picking(x, S, m, f)
    BY <2>9 DEF Picking, E, P
  <2>11. QED
    BY <1>2, <2>10
<1>6. QED
  BY <1>4, <1>5

PickedNone(S) == [sub |-> Empty(1), locs |-> [l \in S |-> -1]]

LEMMA PickingIs ==
  ASSUME NEW x, NEW S, NEW c \in Nat, NEW g, Picking(x, S, c, g)
  PROVE  /\ g[0] = PickedNone(S)
         /\ \A n \in 0 .. c : n + 1 \in 0 .. c =>
              g[n + 1] = IF n \in Selected(x, S) THEN Pick(g[n], x, n) ELSE g[n]
<1> DEFINE E == PickedNone(S)
           M(n) == IF n - 1 \in Selected(x, S) THEN Pick(g[n - 1], x, n - 1) ELSE g[n - 1]
<1>1. g = [n \in 0 .. c |-> IF n = 0 THEN E ELSE M(n)]
  BY DEF Picking, PickedNone
<1> HIDE DEF E, M
<1>2. \A n \in 0 .. c : g[n] = IF n = 0 THEN E ELSE M(n)
  <2>1. \A n \in 0 .. c : [i \in 0 .. c |-> IF i = 0 THEN E ELSE M(i)][n] = IF n = 0 THEN E ELSE M(n)
    OBVIOUS
  <2>2. QED
    BY <1>1, <2>1, Zenon
<1>3. g[0] = E
  BY <1>2
<1>4. ASSUME NEW n \in 0 .. c, n + 1 \in 0 .. c
      PROVE  g[n + 1] = IF n \in Selected(x, S) THEN Pick(g[n], x, n) ELSE g[n]
  <2>1. n + 1 # 0 /\ (n + 1) - 1 = n
    BY <1>4
  <2>2. g[n + 1] = M(n + 1)
    BY <1>2, <1>4, <2>1
  <2>3. M(n + 1) = IF (n + 1) - 1 \in Selected(x, S) THEN Pick(g[(n + 1) - 1], x, (n + 1) - 1)
                   ELSE g[(n + 1) - 1]
    BY DEF M
  <2>4. QED
    BY <2>1, <2>2, <2>3
<1>5. QED
  BY <1>3, <1>4 DEF E

\* A sub-index half way, and the locs that are to be reported.
Picked(x, S, n, a) ==
  /\ Well(hash, a.sub) /\ Numbered(a.sub)
  /\ a.locs \in [S -> -1 .. a.sub.next]
  /\ \A j \in Slots(a.sub) : a.sub.key[j] \in Key => \E i \in Slots(x) : x.key[i] = a.sub.key[j]
  /\ \A i \in Selected(x, S) : i < n => Found(a.sub, x.key[i])
  /\ (\A i \in Selected(x, S) : x.key[i] \in Key) =>
       \A i \in Selected(x, S) : i < n =>
         \E j \in Slots(a.sub) : a.sub.key[j] = x.key[i] /\ a.sub.loc[j] = a.locs[x.loc[i]]

LEMMA PickBegins ==
  ASSUME NEW x, Typed(x), NEW S
  PROVE  Picked(x, S, 0, PickedNone(S))
<1> DEFINE y == Empty(1)
           a == PickedNone(S)
<1>1. 1 \in Row /\ Free \notin Key
  BY RowIs, KindsAre DEF Kinds
<1>2. Well(hash, y) /\ y.next = 0 /\ \A i \in Slots(y) : y.key[i] = Free
  BY <1>1, EmptyIs
<1>3. Numbered(y)
  BY <1>1, EmptyNumbered
<1> HIDE DEF y
<1>4. a.sub = y /\ a.locs = [l \in S |-> -1]
  BY DEF PickedNone, y
<1> HIDE DEF a
<1>5. a.locs \in [S -> -1 .. a.sub.next]
  BY <1>2, <1>4
<1>6. \A i \in Selected(x, S) : ~(i < 0)
  BY CapIs DEF Selected, Typed
<1>7. QED
  BY <1>1, <1>2, <1>3, <1>4, <1>5, <1>6 DEF Picked, a, y

LEMMA PickGoesOn ==
  ASSUME hash \in [Names -> Nat], NEW x, Well(hash, x), Numbered(x), NEW S,
         NEW n \in Selected(x, S), NEW a, Picked(x, S, n, a), Returns(a.sub, x.key[n]),
         NEW b, b = Pick(a, x, n)
  PROVE  Picked(x, S, n + 1, b)
<1> DEFINE k == x.key[n]
           y == Inserted(a.sub, k)
           l == LookupIn(y, k)
<1>1. /\ Typed(x) /\ n \in Slots(x) /\ n \in Nat /\ Slots(x) \subseteq Nat
      /\ k \in Kinds /\ Full(x, n) /\ x.loc[n] \in S
  <2>1. Typed(x) /\ n \in Slots(x) /\ ByteAt(x, n) # 0 /\ x.loc[n] \in S
    BY DEF Selected, Well
  <2>2. Slots(x) \subseteq Nat /\ x.key[n] \in Kinds \union {Free}
    BY <2>1, CapIs DEF Typed
  <2>3. Full(x, n)
    BY <2>1, ByteIs
  <2>4. QED
    BY <2>1, <2>2, <2>3 DEF Full
<1>2. /\ b.sub = y /\ b.locs = [a.locs EXCEPT ![x.loc[n]] = l]
  BY DEF Pick
<1>3. Well(hash, a.sub) /\ Numbered(a.sub) /\ a.locs \in [S -> -1 .. a.sub.next]
  BY DEF Picked
<1> HIDE DEF k
<1>4. /\ Well(hash, y) /\ Numbered(y)
      /\ a.sub.next \in Nat /\ y.next \in Nat /\ a.sub.next <= y.next
      /\ Kept(a.sub, y)
      /\ \A m \in Kinds : Found(a.sub, m) \/ Equal(m, k) => Found(y, m)
      /\ \A j \in Slots(y) : y.key[j] \in Key =>
           y.key[j] = k \/ \E i \in Slots(a.sub) : a.sub.key[i] = y.key[j]
  <2>1. Returns(a.sub, k)
    BY DEF k
  <2>2. QED
    BY <1>1, <1>3, <2>1, InsertedIs
<1> HIDE DEF y
<1>5. PICK f \in Slots(y) : Full(y, f) /\ Equal(y.key[f], k)
  BY <1>1, <1>4 DEF Found, Equal
<1>6. l = y.loc[f]
  BY <1>1, <1>4, <1>5, LookupIs
<1> HIDE DEF l
<1>7. l \in -1 .. y.next
  <2>1. y.loc[f] <= y.next
    BY <1>4, <1>5 DEF Numbered
  <2>2. y.loc \in [Slots(y) -> 0 .. Cap(y)] /\ Cap(y) \in Nat
    BY <1>4, CapIs DEF Well, Typed
  <2>3. y.loc[f] \in Nat
    BY <2>2
  <2>4. QED
    BY <1>4, <1>6, <2>1, <2>3
<1>8. b.locs \in [S -> -1 .. b.sub.next]
  <2>1. \A m \in -1 .. a.sub.next : m \in -1 .. y.next
    BY <1>4
  <2>2. a.locs \in [S -> -1 .. y.next]
    BY <1>3, <2>1
  <2>3. QED
    BY <1>1, <1>2, <1>7, <2>2
<1>9. \A j \in Slots(y) : y.key[j] \in Key => \E i \in Slots(x) : x.key[i] = y.key[j]
  <2>1. \A j \in Slots(a.sub) : a.sub.key[j] \in Key => \E i \in Slots(x) : x.key[i] = a.sub.key[j]
    BY DEF Picked
  <2>2. k = x.key[n]
    BY DEF k
  <2>3. QED
    BY <1>1, <1>4, <2>1, <2>2
<1>10. \A i \in Selected(x, S) : i < n + 1 => i < n \/ i = n
  BY <1>1 DEF Selected
<1>11. \A i \in Selected(x, S) : x.key[i] \in Kinds
  <2>1. \A i \in Slots(x) : ByteAt(x, i) # 0 => x.key[i] # Free
    BY <1>1, ByteIs DEF Full
  <2>2. QED
    BY <1>1, <2>1 DEF Selected, Typed
<1>12. \A i \in Selected(x, S) : i < n + 1 => Found(y, x.key[i])
  BY <1>4, <1>10, <1>11 DEF Picked, k, Equal
<1>13. ASSUME \A i \in Selected(x, S) : x.key[i] \in Key, NEW i \in Selected(x, S), i < n + 1
       PROVE  \E j \in Slots(y) : y.key[j] = x.key[i] /\ y.loc[j] = b.locs[x.loc[i]]
  <2>1. i \in Slots(x) /\ x.loc[i] \in S /\ x.key[i] \in Key /\ x.key[n] \in Key
    BY <1>13 DEF Selected
  <2>2. CASE i = n
    <3>1. y.key[f] \in Key
      <4>1. y.key[f] \in Kinds
        BY <1>4, <1>5 DEF Well, Typed, Full
      <4>2. QED
        BY <1>5, <2>1, <4>1, KindsAre DEF Kinds, Equal, k
    <3>2. PICK m \in Slots(x) : x.key[m] = y.key[f]
      BY <1>9, <3>1
    <3>3. Full(x, m) /\ Equal(x.key[m], x.key[n])
      BY <1>5, <3>1, <3>2, KindsAre DEF Full, Kinds, k
    <3>4. m = n
      BY <1>1, <3>3 DEF Well, Distinct
    <3>5. b.locs[x.loc[n]] = l
      BY <1>1, <1>2, <1>3
    <3>6. QED
      BY <1>5, <1>6, <2>2, <3>2, <3>4, <3>5
  <2>3. CASE i # n
    <3>1. i < n
      BY <1>10, <1>13, <2>3
    <3>2. PICK j \in Slots(a.sub) : a.sub.key[j] = x.key[i] /\ a.sub.loc[j] = a.locs[x.loc[i]]
      BY <1>13, <3>1 DEF Picked
    <3>3. x.loc[i] # x.loc[n]
      BY <1>1, <2>1, <2>3 DEF Numbered
    <3>4. b.locs[x.loc[i]] = a.locs[x.loc[i]]
      BY <1>2, <1>3, <2>1, <3>3
    <3>5. QED
      BY <1>4, <2>1, <3>2, <3>4 DEF Kept
  <2>4. QED
    BY <2>2, <2>3
<1>14. QED
  BY <1>2, <1>4, <1>8, <1>9, <1>12, <1>13 DEF Picked

LEMMA PickSkips ==
  ASSUME NEW x, Typed(x), NEW S, NEW n \in Slots(x), n \notin Selected(x, S),
         NEW a, Picked(x, S, n, a)
  PROVE  Picked(x, S, n + 1, a)
<1>1. \A i \in Selected(x, S) : i < n + 1 => i < n
  <2>1. Slots(x) \subseteq Nat /\ n \in Nat
    BY CapIs DEF Typed
  <2>2. Selected(x, S) \subseteq Nat
    BY <2>1 DEF Selected
  <2>3. QED
    BY <2>1, <2>2
<1>2. QED
  BY <1>1 DEF Picked

LEMMA PickedAlong ==
  ASSUME hash \in [Names -> Nat], NEW x, Well(hash, x), Numbered(x), NEW S,
         NEW g, Picking(x, S, Cap(x), g), \A i \in Selected(x, S) : Returns(g[i].sub, x.key[i])
  PROVE  Picked(x, S, Cap(x), g[Cap(x)])
<1> DEFINE c == Cap(x)
           Bad == {n \in 0 .. c : ~Picked(x, S, n, g[n])}
<1>1. c \in Nat /\ Slots(x) = 0 .. c - 1 /\ Typed(x)
  BY CapIs DEF Well, Typed
<1>2. /\ g[0] = PickedNone(S)
      /\ \A n \in 0 .. c : n + 1 \in 0 .. c =>
           g[n + 1] = IF n \in Selected(x, S) THEN Pick(g[n], x, n) ELSE g[n]
  BY <1>1, PickingIs
<1>3. \A i \in Selected(x, S) : Returns(g[i].sub, x.key[i])
  OBVIOUS
<1> HIDE DEF c
<1>4. Bad = {}
  <2>1. SUFFICES ASSUME Bad # {} PROVE FALSE
    OBVIOUS
  <2> DEFINE m == Min(Bad)
  <2>2. m \in Bad /\ \A n \in Bad : m <= n
    <3>1. Bad \in SUBSET Nat
      BY <1>1
    <3> HIDE DEF Bad
    <3>2. QED
      BY <2>1, <3>1, MinIs
  <2>3. m \in 0 .. c /\ ~Picked(x, S, m, g[m])
    BY <2>2
  <2> HIDE DEF m
  <2>4. m # 0
    <3>1. Picked(x, S, 0, g[0])
      BY <1>1, <1>2, PickBegins
    <3>2. QED
      BY <2>3, <3>1
  <2>5. /\ m - 1 \in 0 .. c /\ m - 1 \in Slots(x) /\ ~(m <= m - 1)
        /\ (m - 1) + 1 = m
    BY <1>1, <2>3, <2>4
  <2>6. Picked(x, S, m - 1, g[m - 1])
    BY <2>2, <2>5
  <2> DEFINE n == m - 1
  <2>7. n \in Slots(x) /\ Picked(x, S, n, g[n]) /\ n + 1 = m /\ n \in 0 .. c
    BY <2>5, <2>6
  <2> HIDE DEF n
  <2>8. g[m] = IF n \in Selected(x, S) THEN Pick(g[n], x, n) ELSE g[n]
    BY <1>2, <2>3, <2>7
  <2>9. CASE n \in Selected(x, S)
    <3>1. Picked(x, S, n + 1, g[m])
      BY <1>3, <2>7, <2>8, <2>9, PickGoesOn
    <3>2. QED
      BY <2>3, <2>7, <3>1
  <2>10. CASE n \notin Selected(x, S)
    <3>1. Picked(x, S, n + 1, g[n])
      BY <1>1, <2>7, <2>10, PickSkips
    <3>2. QED
      BY <2>3, <2>7, <2>8, <2>10, <3>1
  <2>11. QED
    BY <2>9, <2>10
<1>5. c \in 0 .. c
  BY <1>1
<1>6. QED
  BY <1>4, <1>5 DEF c

\* What tazR_subIdx has in the end, if every insertion returns.
LEMMA PickedAll ==
  ASSUME hash \in [Names -> Nat], NEW x, Well(hash, x), Numbered(x), NEW S,
         \A i \in Selected(x, S) : Returns(Picks(x, S)[i].sub, x.key[i])
  PROVE  Picked(x, S, Cap(x), Picks(x, S)[Cap(x)])
<1> DEFINE g == Picks(x, S)
<1>1. Cap(x) \in Nat
  BY CapIs DEF Well, Typed
<1>2. g = CHOOSE f : Picking(x, S, Cap(x), f)
  BY DEF Picks, Picking
<1> HIDE DEF g
<1>3. Picking(x, S, Cap(x), g)
  <2>1. \E f : Picking(x, S, Cap(x), f)
    BY <1>1, PickingExists
  <2>2. QED
    BY <1>2, <2>1
<1>4. \A i \in Selected(x, S) : Returns(g[i].sub, x.key[i])
  BY DEF g
<1>5. Picked(x, S, Cap(x), g[Cap(x)])
  BY <1>3, <1>4, PickedAlong
<1>6. QED
  BY <1>5 DEF g

\* An index whose keys come from another has at most one loc more: the bucket of zeroes.
LEMMA NoMoreLocs ==
  ASSUME NEW x, Typed(x), Numbered(x), NEW y, Typed(y), Distinct(y), Numbered(y),
         \A j \in Slots(y) : y.key[j] \in Key => \E i \in Slots(x) : x.key[i] = y.key[j]
  PROVE  y.next \in 0 .. x.next + 1
<1> DEFINE T == Taken(y)
           N == 0 .. x.next
           at(j) == CHOOSE i \in Slots(x) : x.key[i] = y.key[j]
           to == [j \in T |-> IF y.key[j] \in Key THEN x.loc[at(j)] ELSE x.next]
<1>1. x.next \in Nat /\ y.next \in Nat
  BY CapIs DEF Typed
<1>2. \A j \in T : y.key[j] \in Key => at(j) \in Slots(x) /\ x.key[at(j)] = y.key[j]
  BY DEF Taken
<1>3. \A i \in Slots(x) : x.loc[i] \in Nat /\ (x.key[i] \in Key => x.loc[i] < x.next)
  <2>1. x.loc \in [Slots(x) -> 0 .. Cap(x)] /\ Cap(x) \in Nat
    BY CapIs DEF Typed
  <2>2. QED
    BY <2>1 DEF Numbered
<1>4. \A j \in T : y.key[j] \notin Key => y.key[j] = Zero
  BY DEF Taken, Full, Typed, Kinds
<1>5. \A i, j \in T : Equal(y.key[i], y.key[j]) => i = j
  BY DEF Taken, Distinct
<1>6. \A i, j \in Slots(x) : x.key[i] \in Key /\ x.key[j] \in Key /\ x.loc[i] = x.loc[j] => i = j
  BY DEF Numbered
<1> HIDE DEF T, at
<1>7. \A j \in T : to[j] = IF y.key[j] \in Key THEN x.loc[at(j)] ELSE x.next
  OBVIOUS
<1>8. to \in [T -> N]
  BY <1>1, <1>2, <1>3
<1> HIDE DEF to
<1>9. ASSUME NEW i \in T, NEW j \in T, to[i] = to[j] PROVE i = j
  <2>1. CASE y.key[i] \in Key /\ y.key[j] \in Key
    <3>1. at(i) = at(j)
      BY <1>2, <1>6, <1>7, <1>9, <2>1
    <3>2. Equal(y.key[i], y.key[j])
      BY <1>2, <2>1, <3>1 DEF Equal
    <3>3. QED
      BY <1>5, <3>2
  <2>2. CASE y.key[i] \notin Key /\ y.key[j] \notin Key
    BY <1>4, <1>5, <2>2 DEF Equal
  <2>3. CASE y.key[i] \in Key /\ y.key[j] \notin Key
    BY <1>1, <1>2, <1>3, <1>7, <1>9, <2>3
  <2>4. CASE y.key[i] \notin Key /\ y.key[j] \in Key
    BY <1>1, <1>2, <1>3, <1>7, <1>9, <2>4
  <2>5. QED
    BY <2>1, <2>2, <2>3, <2>4
<1>10. to \in Injection(T, N)
  BY <1>8, <1>9 DEF Injection, IsInjective
<1>11. IsFiniteSet(N) /\ Cardinality(N) = x.next + 1
  <2>1. /\ IsFiniteSet(0 .. x.next)
        /\ Cardinality(0 .. x.next) = IF 0 > x.next THEN 0 ELSE x.next - 0 + 1
    BY <1>1, FS_Interval
  <2>2. QED
    BY <1>1, <2>1
<1>12. Cardinality(T) <= Cardinality(N)
  BY <1>10, <1>11, FS_Injection
<1>13. Cardinality(T) \in Nat
  BY TakenIs DEF T, Typed
<1>14. y.next <= Cardinality(T)
  BY DEF Numbered, T
<1>15. QED
  BY <1>1, <1>11, <1>12, <1>13, <1>14

\* What tazR_subIdx makes of the index of the program, and what it reports.
LEMMA SubIs ==
  ASSUME IdxInv, NEW S, SubIdx(S)
  PROVE  /\ idx'.next \in 0 .. idx.next + 1 /\ Well(hash, idx') /\ Numbered(idx')
         /\ \A j \in Slots(idx') : idx'.key[j] \in Key => \E i \in Slots(idx) : idx.key[i] = idx'.key[j]
         /\ picked' \subseteq Kinds \X (-1 .. idx'.next)
         /\ \A p \in picked' : Found(idx', p[1])
         /\ (\A p \in picked' : p[1] \in Key) =>
              \A p \in picked' : \E j \in Slots(idx') : idx'.key[j] = p[1] /\ idx'.loc[j] = p[2]
<1> DEFINE P == Selected(idx, S)
           a == Picks(idx, S)[Cap(idx)]
<1>1. /\ hash \in [Names -> Nat] /\ Well(hash, idx) /\ Numbered(idx) /\ Typed(idx)
      /\ \A i \in P : i \in Slots(idx) /\ i < Cap(idx) /\ idx.loc[i] \in S /\ idx.key[i] \in Kinds
  <2>1. hash \in [Names -> Nat] /\ Well(hash, idx) /\ Numbered(idx) /\ Typed(idx)
    BY HashIs DEF IdxInv, Well
  <2>2. \A i \in Slots(idx) : ByteAt(idx, i) # 0 => idx.key[i] \in Kinds
    BY <2>1, ByteIs DEF Full, Typed
  <2>3. \A i \in Slots(idx) : i < Cap(idx)
    BY <2>1, CapIs DEF Typed
  <2>4. QED
    BY <2>1, <2>2, <2>3 DEF Selected
<1>2. \A i \in P : Returns(Picks(idx, S)[i].sub, idx.key[i])
  BY DEF SubIdx
<1>3. idx' = a.sub /\ picked' = {<<idx.key[i], a.locs[idx.loc[i]]>> : i \in P}
  BY DEF SubIdx
<1>4. Picked(idx, S, Cap(idx), a)
  BY <1>1, <1>2, PickedAll
<1> HIDE DEF a, P
<1> DEFINE y == a.sub
<1>5. /\ Well(hash, y) /\ Numbered(y) /\ a.locs \in [S -> -1 .. y.next]
      /\ \A j \in Slots(y) : y.key[j] \in Key => \E i \in Slots(idx) : idx.key[i] = y.key[j]
  BY <1>4 DEF Picked
<1>6. y.next \in 0 .. idx.next + 1
  BY <1>1, <1>5, NoMoreLocs DEF Well
<1>7. \A i \in P : Found(y, idx.key[i])
  BY <1>1, <1>4 DEF Picked, P
<1>8. (\A i \in P : idx.key[i] \in Key) =>
        \A i \in P : \E j \in Slots(y) : y.key[j] = idx.key[i] /\ y.loc[j] = a.locs[idx.loc[i]]
  BY <1>1, <1>4 DEF Picked, P
<1> HIDE DEF y
<1>9. \A i \in P : a.locs[idx.loc[i]] \in -1 .. y.next
  BY <1>1, <1>5
<1>10. \A p \in picked' : \E i \in P : p = <<idx.key[i], a.locs[idx.loc[i]]>> /\ p[1] = idx.key[i]
                                       /\ p[2] = a.locs[idx.loc[i]]
  BY <1>3
<1>11. \A i \in P : \E p \in picked' : p[1] = idx.key[i]
  <2>1. \A i \in P : <<idx.key[i], a.locs[idx.loc[i]]>> \in picked'
    BY <1>3
  <2>2. \A u, v : <<u, v>>[1] = u
    OBVIOUS
  <2>3. QED
    BY <2>1, <2>2
<1>12. picked' \subseteq Kinds \X (-1 .. y.next)
  BY <1>1, <1>9, <1>10
<1>13. \A p \in picked' : Found(y, p[1])
  BY <1>7, <1>10
<1>14. (\A p \in picked' : p[1] \in Key) =>
         \A p \in picked' : \E j \in Slots(y) : y.key[j] = p[1] /\ y.loc[j] = p[2]
  BY <1>8, <1>10, <1>11
<1>15. idx' = y
  BY <1>3 DEF y
<1>16. QED
  BY <1>5, <1>6, <1>12, <1>13, <1>14, <1>15
-------------------------------------------------------------------------------
(* The index of the program at every step. *)

\* The next index, if it is well formed.
LEMMA ThenWell ==
  ASSUME hash' = hash, NEW y, idx' = y, Well(hash, y), Numbered(y)
  PROVE  Well(hash, idx)' /\ Numbered(idx)' /\ Well(hash, idx') /\ Numbered(idx')
OBVIOUS

LEMMA NextIdx == IdxInv /\ [Next]_vars => IdxInv'
<1>1. SUFFICES ASSUME IdxInv, [Next]_vars PROVE IdxInv'
  OBVIOUS
<1> USE DEF memory, taken
<1>2. ASSUME NEW k \in Key, Insert(k) PROVE IdxInv'
  <2>1. /\ Usable /\ (LookupIn(idx, k) >= 0 \/ ~IsFull(idx))
        /\ idx' = InsertIn(idx, k)
        /\ NeedsGrowth(InsertIn(idx, k)) => idx.row + 1 \in Row
        /\ pc' = IF NeedsGrowth(idx') THEN "old" ELSE "ready"
        /\ hash' = hash
    BY <1>2 DEF Insert, Returns
  <2> DEFINE y == InsertIn(idx, k)
  <2>2. Well(hash, y) /\ Numbered(y) /\ y.row = idx.row
    BY <1>1, <2>1, HashIs, InsertInIs DEF IdxInv, Kinds
  <2> HIDE DEF y
  <2>3. Well(hash, idx)' /\ Numbered(idx)' /\ idx'.row = idx.row
    BY <2>1, <2>2, ThenWell DEF y
  <2>4. pc' \in {"old", "buf"} => idx'.row + 1 \in Row
    BY <2>1, <2>3
  <2>5. QED
    BY <1>1, <2>1, <2>3, <2>4 DEF IdxInv
<1>3. CASE GrowBuf
  <2>1. pc = "buf" /\ pc' = "ready" /\ idx' = Grown(idx) /\ hash' = hash
    BY <1>3 DEF GrowBuf
  <2> DEFINE y == Grown(idx)
  <2>2. Well(hash, y) /\ Numbered(y)
    BY <1>1, <2>1, GrowthIs
  <2> HIDE DEF y
  <2>3. Well(hash, idx)' /\ Numbered(idx)'
    BY <2>1, <2>2, ThenWell DEF y
  <2>4. QED
    BY <1>1, <2>1, <2>3 DEF IdxInv
<1>4. ASSUME hash' = hash, idx' = idx, pc' \in {"old", "buf"} => pc \in {"old", "buf"}
      PROVE  IdxInv'
  <2>1. Well(hash, idx)' /\ Numbered(idx)'
    BY <1>1, <1>4, ThenWell DEF IdxInv
  <2>2. QED
    BY <1>1, <1>4, <2>1 DEF IdxInv
<1>5. ASSUME NEW k \in Key, InsertForever(k) PROVE IdxInv'
  BY <1>4, <1>5 DEF InsertForever
<1>6. CASE GrowOld
  BY <1>4, <1>6 DEF GrowOld
<1>7. CASE GrowOldFails
  BY <1>4, <1>7 DEF GrowOldFails
<1>8. CASE GrowBufFails
  BY <1>4, <1>8 DEF GrowBufFails
<1>9. CASE Collect
  BY <1>4, <1>9 DEF Collect
<1>10. ASSUME NEW S, SubIdx(S) PROVE IdxInv'
  <2>1. Well(hash, idx') /\ Numbered(idx')
    BY <1>1, <1>10, SubIs
  <2>2. hash' = hash /\ pc' = pc /\ pc = "ready"
    BY <1>10 DEF SubIdx, Usable
  <2>3. Well(hash, idx)' /\ Numbered(idx)'
    BY <2>1, <2>2, ThenWell
  <2>4. QED
    BY <1>1, <2>2, <2>3 DEF IdxInv
<1>11. CASE MakeIter
  BY <1>4, <1>11 DEF MakeIter
<1>12. CASE IterNext
  BY <1>4, <1>12 DEF IterNext
<1>13. CASE UNCHANGED vars
  BY <1>4, <1>13 DEF vars
<1>14. QED
  BY <1>1, <1>2, <1>3, <1>5, <1>6, <1>7, <1>8, <1>9, <1>10, <1>11, <1>12, <1>13 DEF Next

THEOREM WellFormed == Spec => []IdxInv
BY InitIdx, NextIdx, PTL DEF Spec

\* An insertion of the program: a key that is new has the next loc.
LEMMA InsertStep ==
  ASSUME IdxInv, NEW k \in Key, Insert(k)
  PROVE  /\ hash' = hash /\ sub' = sub /\ iter' = iter /\ picked' = picked
         /\ Well(hash, idx') /\ Numbered(idx')
         /\ Found(idx, k) => idx' = idx
         /\ ~Found(idx, k) => /\ idx'.next = idx.next + 1
                              /\ \E i \in Slots(idx) : ~Full(idx, i) /\ Written(idx, idx', k, i)
<1>1. /\ LookupIn(idx, k) >= 0 \/ ~IsFull(idx)
      /\ idx' = InsertIn(idx, k)
      /\ hash' = hash /\ sub' = sub /\ iter' = iter /\ picked' = picked
  BY DEF Insert, Returns, taken
<1> DEFINE y == InsertIn(idx, k)
<1>2. /\ Well(hash, y) /\ Numbered(y)
      /\ Found(idx, k) => y = idx
      /\ ~Found(idx, k) => \E i \in Slots(idx) : ~Full(idx, i) /\ Written(idx, y, k, i)
  BY <1>1, HashIs, InsertInIs DEF IdxInv, Kinds
<1> HIDE DEF y
<1>3. idx' = y
  BY <1>1 DEF y
<1>4. QED
  BY <1>1, <1>2, <1>3 DEF Written

-------------------------------------------------------------------------------
(* Types, and what a collection scans. *)

IterType == [state : {"none", "on", "done"}, i : Nat, due : SUBSET Names,
             seen : SUBSET Names, twice : BOOLEAN, grown : BOOLEAN]

Rest ==
  /\ blk \in Blk /\ live \subseteq Blk /\ dead \in [Blk -> Nat]
  /\ pc \in {"ready", "old", "buf", "searching"}
  /\ sub \in BOOLEAN /\ picked \subseteq Kinds \X (-1 .. idx.next) /\ iter \in IterType

LEMMA BlksAre ==
  ASSUME NEW b \in Blk, dead \in [Blk -> Nat]
  PROVE  /\ [dead EXCEPT ![b] = @ + 1] \in [Blk -> Nat] /\ [c \in Blk |-> 0] \in [Blk -> Nat]
         /\ \A c \in Blk : [dead EXCEPT ![b] = @ + 1][c] = IF c = b THEN dead[b] + 1 ELSE dead[c]
<1>1. dead[b] + 1 \in Nat
  OBVIOUS
<1>2. QED
  BY <1>1

LEMMA NewBlkIs == Blk \ live # {} => NewBlk \in Blk \ live
BY DEF NewBlk

LEMMA PresentAre ==
  ASSUME Well(hash, idx)
  PROVE  Present(idx) \subseteq Names /\ \A i \in Slots(idx) : Full(idx, i) => idx.key[i].name \in Names
<1>1. idx.key \in [Slots(idx) -> Kinds \union {Free}]
  BY DEF Well, Typed
<1>2. \A i \in Slots(idx) : Full(idx, i) => idx.key[i] \in Kinds
  BY <1>1 DEF Full
<1>3. QED
  BY <1>2, KindsAre DEF Present, Full

LEMMA IterBegins ==
  ASSUME NEW S, NEW z, z = [NoIter EXCEPT !.state = "on", !.due = S]
  PROVE  z = [state |-> "on", i |-> 0, due |-> S, seen |-> {}, twice |-> FALSE,
              grown |-> FALSE]
BY DEF NoIter

\* The slots that an iterator has still to look at.
Left == {i \in Slots(idx) : i >= iter.i /\ ByteAt(idx, i) # 0}

LEMMA IterGoesOn ==
  ASSUME iter \in IterType, IdxInv, IterNext
  PROVE  /\ iter.state # "none" /\ iter'.due = iter.due /\ iter'.grown = iter.grown
         /\ Left = {} => /\ iter'.state = "done" /\ iter'.seen = iter.seen
                         /\ iter'.twice = iter.twice /\ iter'.i >= Cap(idx)
         /\ Left # {} => /\ iter'.state = "on" /\ iter'.i = Min(Left) + 1
                         /\ ~iter.grown =>
                              iter'.seen = iter.seen \union {idx.key[Min(Left)].name}
                         /\ iter'.twice = (iter.twice \/ idx.key[Min(Left)].name \in iter.seen)
         /\ iter' \in IterType
<1>1. Well(hash, idx) /\ Typed(idx)
  BY DEF IdxInv, Well
<1>2. Left \subseteq Nat
  BY <1>1, CapIs DEF Left, Typed
<1>3. iter \in IterType /\ iter.i \in Nat /\ iter.state # "none"
  BY DEF IterType, IterNext
<1>4. CASE Left = {}
  <2> DEFINE n == IF iter.i >= Cap(idx) THEN iter.i ELSE BitCap(idx) * WordSize
  <2>1. iter' = [iter EXCEPT !.state = "done", !.i = n]
    BY <1>4 DEF IterNext, Left
  <2>2. n \in Nat /\ n >= Cap(idx)
    <3>1. Cap(idx) \in Nat /\ WordSize \in Nat \ {0}
      BY <1>1, CapIs, IndexAssumption DEF Typed
    <3>2. BitCap(idx) \in Nat
      BY <3>1 DEF BitCap
    <3>3. BitCap(idx) * WordSize \in Nat /\ BitCap(idx) * WordSize >= Cap(idx)
      <4>1. PICK c \in Nat, w \in Nat \ {0} : c = Cap(idx) /\ w = WordSize
        BY <3>1
      <4>2. PICK d \in Nat : d = c + w
        BY <4>1
      <4>3. PICK q \in Nat, r \in 0 .. w - 1 : q = d \div w /\ d = q * w + r
        <5>1. d \div w \in Nat /\ d % w \in 0 .. w - 1
          BY <4>1
        <5>2. d = (d \div w) * w + (d % w)
          BY <4>1
        <5>3. QED
          BY <5>1, <5>2
      <4>4. q * w \in Nat /\ q * w >= c
        <5>1. PICK t \in Nat : t = q * w
          BY <4>1
        <5>2. c + w = t + r
          BY <4>2, <4>3, <5>1
        <5>3. QED
          BY <4>1, <5>1, <5>2
      <4>5. QED
        BY <4>1, <4>2, <4>3, <4>4 DEF BitCap
    <3>4. QED
      BY <1>3, <3>1, <3>3
  <2> HIDE DEF n
  <2>3. /\ iter'.state = "done" /\ iter'.due = iter.due /\ iter'.seen = iter.seen
        /\ iter'.twice = iter.twice /\ iter' \in IterType /\ iter'.i = n
        /\ iter'.grown = iter.grown
    BY <1>3, <2>1, <2>2 DEF IterType
  <2>4. QED
    BY <1>3, <1>4, <2>2, <2>3
<1>5. CASE Left # {}
  <2> DEFINE m == Min(Left)
             name == idx.key[m].name
             n == m + 1
             se == IF iter.grown THEN {} ELSE iter.seen \union {name}
             tw == (iter.twice \/ name \in iter.seen)
  <2>1. iter' = [iter EXCEPT !.state = "on", !.i = n, !.seen = se, !.twice = tw]
    BY <1>5 DEF IterNext, Left, AfterSlot
  <2>2. m \in Left
    BY <1>2, <1>5, MinIs
  <2>3. n \in Nat /\ name \in Names
    <3>1. m \in Nat /\ m \in Slots(idx) /\ Full(idx, m)
      BY <1>1, <1>2, <2>2, ByteIs DEF Left
    <3>2. QED
      BY <1>1, <3>1, PresentAre
  <2>4. tw \in BOOLEAN
    BY Zenon
  <2>5. se \in SUBSET Names /\ (~iter.grown => se = iter.seen \union {name})
    BY <1>3, <2>3 DEF IterType
  <2> HIDE DEF m, name, n, tw, se
  <2>6. /\ iter'.state = "on" /\ iter'.due = iter.due /\ iter'.i = n
        /\ iter'.seen = se /\ iter'.twice = tw /\ iter'.grown = iter.grown
    BY <1>3, <2>1 DEF IterType
  <2>7. iter' \in IterType
    BY <1>3, <2>1, <2>3, <2>4, <2>5 DEF IterType
  <2>8. QED
    BY <1>3, <1>5, <2>5, <2>6, <2>7 DEF m, name, n, tw
<1>6. QED
  BY <1>4, <1>5

\* An iterator in an index that grows.
LEMMA IterGrows ==
  ASSUME iter \in IterType, GrowBuf
  PROVE  /\ iter' \in IterType /\ iter'.state = iter.state /\ iter'.twice = iter.twice
         /\ iter'.grown = (iter.state # "none")
         /\ iter'.due = {} /\ iter'.seen = {}
<1> DEFINE gr == (iter.state # "none")
<1>1. iter' = [iter EXCEPT !.grown = gr, !.due = {}, !.seen = {}]
  BY DEF GrowBuf
<1>2. gr \in BOOLEAN
  OBVIOUS
<1> HIDE DEF gr
<1>3. /\ iter' \in IterType /\ iter'.state = iter.state /\ iter'.twice = iter.twice
      /\ iter'.grown = gr /\ iter'.due = {} /\ iter'.seen = {}
  BY <1>1, <1>2 DEF IterType
<1>4. QED
  BY <1>3 DEF gr

\* The locs that were reported are below the next one, which does not fall.
LEMMA RestGrows ==
  ASSUME IdxInv, IdxInv', Rest, idx'.next \in Nat, idx.next <= idx'.next, picked' = picked
  PROVE  picked' \subseteq Kinds \X (-1 .. idx'.next)
<1>1. idx.next \in Nat
  BY CapIs DEF IdxInv, Well, Typed
<1>2. \A m \in -1 .. idx.next : m \in -1 .. idx'.next
  BY <1>1
<1>3. QED
  BY <1>2 DEF Rest

LEMMA NextRest == IdxInv /\ Rest /\ [Next]_vars => Rest'
<1> SUFFICES ASSUME IdxInv, Rest, [Next]_vars PROVE Rest'
  OBVIOUS
<1> USE DEF memory, taken
<1>1. NoIter \in IterType
  BY DEF NoIter, IterType
<1>2. ASSUME NEW k \in Key, Insert(k) PROVE Rest'
  <2>1. idx'.next \in Nat /\ idx.next <= idx'.next
    <3>1. idx.next \in Nat
      BY CapIs DEF IdxInv, Well, Typed
    <3>2. idx' = idx \/ idx'.next = idx.next + 1
      BY <1>2, InsertStep
    <3>3. QED
      BY <3>1, <3>2
  <2>2. picked' \subseteq Kinds \X (-1 .. idx'.next)
    BY <1>2, <2>1, RestGrows, NextIdx DEF Insert
  <2>3. QED
    BY <1>2, <2>2 DEF Insert, Rest
<1>3. CASE GrowBuf
  <2>1. idx'.next = idx.next
    BY <1>3, GrowthIs DEF GrowBuf
  <2>2. QED
    <3>1. iter' \in IterType
      BY <1>3, IterGrows DEF Rest
    <3>2. QED
      BY <1>3, <2>1, <3>1, NewBlkIs, BlksAre DEF GrowBuf, Rest
<1>4. ASSUME NEW k \in Key, InsertForever(k) PROVE Rest'
  BY <1>4 DEF InsertForever, Rest
<1>5. CASE GrowOld
  BY <1>5 DEF GrowOld, Rest
<1>6. CASE GrowOldFails
  BY <1>6 DEF GrowOldFails, Rest
<1>7. CASE GrowBufFails
  BY <1>7, BlksAre DEF GrowBufFails, Rest
<1>8. CASE Collect
  BY <1>8, BlksAre DEF Collect, Rest
<1>9. ASSUME NEW S, SubIdx(S) PROVE Rest'
  <2>1. picked' \subseteq Kinds \X (-1 .. idx'.next)
    BY <1>9, SubIs
  <2>2. /\ Blk \ live # {} /\ blk' = NewBlk /\ live' = live \union {NewBlk}
        /\ dead' = [dead EXCEPT ![blk] = @ + 1] /\ iter' = NoIter /\ sub' = TRUE /\ pc' = pc
    BY <1>9 DEF SubIdx
  <2>3. QED
    BY <1>1, <2>1, <2>2, NewBlkIs, BlksAre DEF Rest
<1>10. CASE MakeIter
  <2>1. Present(idx) \subseteq Names
    BY PresentAre DEF IdxInv
  <2>2. iter' = [state |-> "on", i |-> 0, due |-> Present(idx), seen |-> {}, twice |-> FALSE,
                 grown |-> FALSE]
    BY <1>10, IterBegins DEF MakeIter
  <2>3. iter' \in IterType
    BY <2>1, <2>2 DEF IterType
  <2>4. QED
    BY <1>10, <2>3 DEF MakeIter, Rest
<1>11. CASE IterNext
  <2>1. iter' \in IterType
    BY <1>11, IterGoesOn DEF Rest
  <2>2. QED
    BY <1>11, <2>1 DEF IterNext, Rest
<1>12. CASE UNCHANGED vars
  BY <1>12 DEF vars, Rest
<1>13. QED
  BY <1>2, <1>3, <1>4, <1>5, <1>6, <1>7, <1>8, <1>9, <1>10, <1>11, <1>12 DEF Next

LEMMA InitRest == Init => Rest
<1>1. SUFFICES ASSUME Init PROVE Rest
  OBVIOUS
<1>2. blk \in Blk
  BY <1>1, IndexAssumption DEF Init
<1>3. iter \in IterType
  BY <1>1 DEF Init, NoIter, IterType
<1>4. QED
  BY <1>1, <1>2, <1>3 DEF Init, Rest

LEMMA RestInvariant == Spec => [](IdxInv /\ Rest)
<1>1. IdxInv /\ Rest /\ [Next]_vars => Rest'
  BY NextRest
<1>2. QED
  BY <1>1, InitRest, WellFormed, PTL DEF Spec

\* Every variable has its type: in particular no insertion or growth runs past the
\* buckets of the index, and the step limit never falls below the ideal one.
THEOREM TypeCorrect == Spec => []TypeOK
<1>1. IdxInv /\ Rest => TypeOK
  BY IdxTyped DEF IdxInv, Rest, TypeOK, IterType, Kinds
<1>2. QED
  BY <1>1, RestInvariant, PTL

\* An index with a string among its keys has the function that scans them, whatever
\* kinds of keys came in what order and wherever the index grew.
THEOREM ScanCompleteHolds == Spec => []ScanComplete
<1>1. IdxInv => ScanComplete
  <2>1. SUFFICES ASSUME IdxInv, NEW i \in Slots(idx), ByteAt(idx, i) % 16 = STR
                 PROVE  idx.mode # "noStrings"
    BY DEF ScanComplete
  <2>2. Typed(idx) /\ Served(idx)
    BY <2>1 DEF IdxInv, Well
  <2>3. Full(idx, i)
    <3>1. SUFFICES ASSUME idx.key[i] = Free PROVE FALSE
      BY DEF Full
    <3>2. ByteAt(idx, i) = 0 /\ 0 % 16 = 0
      BY <3>1 DEF ByteAt
    <3>3. QED
      BY <2>1, <3>2, KindsAre
  <2>4. idx.key[i] \in Kinds /\ ByteAt(idx, i) = idx.key[i].byte
    BY <2>2, <2>3 DEF Typed, Full, ByteAt
  <2>5. idx.key[i].kind # "atom"
    BY <2>1, <2>4, KindsAre
  <2>6. QED
    BY <2>2, <2>3, <2>5 DEF Served, Admitted
<1>2. QED
  BY <1>1, WellFormed, PTL

-------------------------------------------------------------------------------
(* Iterators. *)

\* The names at the slots that an iterator has looked at, and those it has not.
Before(x, i) == {x.key[j].name : j \in {l \in Slots(x) : l < i /\ Full(x, l)}}
Ahead(x, i) == {x.key[j].name : j \in {l \in Slots(x) : l >= i /\ Full(x, l)}}

\* What is due was returned or is ahead, and what was returned is behind.
Visiting ==
  /\ iter.state = "none" => ~iter.twice
  /\ ~iter.grown =>
       /\ ~iter.twice
       /\ iter.state = "on" => /\ iter.due \subseteq iter.seen \union Ahead(idx, iter.i)
                               /\ iter.seen \subseteq Before(idx, iter.i)
       /\ iter.state = "done" => iter.due \subseteq iter.seen /\ iter.i >= Cap(idx)

\* The slots that were full keep their keys.
LEMMA MoreKeys ==
  ASSUME NEW x, NEW y, Slots(y) = Slots(x),
         \A j \in Slots(x) : Full(x, j) => Full(y, j) /\ y.key[j] = x.key[j], NEW i
  PROVE  Before(x, i) \subseteq Before(y, i) /\ Ahead(x, i) \subseteq Ahead(y, i)
BY DEF Before, Ahead

\* An iterator, which skips the padding and whatever was inserted behind it, returns every
\* key that was there when it was made, and none twice, as long as the index does not grow.
THEOREM VisitsOnceHolds == Spec => []VisitsOnce
<1>1. Init => Visiting
  BY DEF Init, NoIter, Visiting
<1>2. IdxInv /\ Rest /\ Visiting /\ [Next]_vars => Visiting'
  <2> SUFFICES ASSUME IdxInv, Rest, Visiting, [Next]_vars PROVE Visiting'
    OBVIOUS
  <2> USE DEF memory, taken
  <2>1. ASSUME idx' = idx, iter' = iter PROVE Visiting'
    BY <2>1 DEF Visiting, Before, Ahead
  <2>2. ASSUME iter' = NoIter PROVE Visiting'
    BY <2>2 DEF Visiting, NoIter
  <2>3. ASSUME NEW k \in Key, Insert(k) PROVE Visiting'
    <3>1. /\ LookupIn(idx, k) >= 0 \/ ~IsFull(idx)
          /\ idx' = InsertIn(idx, k) /\ iter' = iter
      BY <2>3 DEF Insert, Returns
    <3> DEFINE y == InsertIn(idx, k)
    <3>2. /\ Found(idx, k) => y = idx
          /\ ~Found(idx, k) => \E i \in Slots(idx) : ~Full(idx, i) /\ Written(idx, y, k, i)
      BY <3>1, HashIs, InsertInIs DEF IdxInv, Kinds
    <3> HIDE DEF y
    <3>3. CASE Found(idx, k)
      BY <2>1, <3>1, <3>2, <3>3 DEF y
    <3>4. CASE ~Found(idx, k)
      <4>1. PICK i \in Slots(idx) : ~Full(idx, i) /\ Written(idx, y, k, i)
        BY <3>2, <3>4
      <4>2. idx.key \in [Slots(idx) -> Kinds \union {Free}]
        BY DEF IdxInv, Well, Typed
      <4>3. Slots(y) = Slots(idx) /\ \A j \in Slots(idx) : j # i => y.key[j] = idx.key[j]
        BY <4>1, <4>2 DEF Written, Slots, Cap
      <4>4. \A j \in Slots(idx) : Full(idx, j) => Full(y, j) /\ y.key[j] = idx.key[j]
        BY <4>1, <4>3 DEF Full
      <4>5. \A n : Before(idx, n) \subseteq Before(y, n) /\ Ahead(idx, n) \subseteq Ahead(y, n)
        BY <4>3, <4>4, MoreKeys
      <4>6. Before(idx, iter.i) \subseteq Before(y, iter.i) /\ Ahead(idx, iter.i) \subseteq Ahead(y, iter.i)
        BY <4>5
      <4>7. idx' = y
        BY <3>1 DEF y
      <4>8. Cap(y) = Cap(idx)
        BY <4>1 DEF Written, Cap
      <4>9. QED
        BY <3>1, <4>6, <4>7, <4>8 DEF Visiting
    <3>5. QED
      BY <3>3, <3>4
  <2>4. ASSUME NEW k \in Key, InsertForever(k) PROVE Visiting'
    BY <2>1, <2>4 DEF InsertForever
  <2>5. CASE GrowOld \/ GrowOldFails \/ GrowBufFails \/ Collect \/ UNCHANGED vars
    BY <2>1, <2>5 DEF GrowOld, GrowOldFails, GrowBufFails, Collect, vars
  <2>6. CASE GrowBuf
    BY <2>6, IterGrows DEF Rest, Visiting
  <2>7. ASSUME NEW S, SubIdx(S) PROVE Visiting'
    BY <2>2, <2>7 DEF SubIdx
  <2>8. CASE MakeIter
    <3>1. iter' = [state |-> "on", i |-> 0, due |-> Present(idx), seen |-> {}, twice |-> FALSE,
                   grown |-> FALSE]
          /\ idx' = idx
      BY <2>8, IterBegins DEF MakeIter
    <3>2. Present(idx) \subseteq Ahead(idx, 0)
      <4>1. \A j \in Slots(idx) : j >= 0
        BY CapIs DEF IdxInv, Well, Typed
      <4>2. QED
        BY <4>1 DEF Present, Ahead, Full
    <3>3. QED
      BY <3>1, <3>2 DEF Visiting
  <2>9. CASE IterNext
    <3>1. /\ iter.state # "none" /\ iter'.due = iter.due /\ iter'.grown = iter.grown
          /\ Left = {} => /\ iter'.state = "done" /\ iter'.seen = iter.seen
                          /\ iter'.twice = iter.twice /\ iter'.i >= Cap(idx)
          /\ Left # {} => /\ iter'.state = "on" /\ iter'.i = Min(Left) + 1
                          /\ ~iter.grown =>
                               iter'.seen = iter.seen \union {idx.key[Min(Left)].name}
                          /\ iter'.twice = (iter.twice \/ idx.key[Min(Left)].name \in iter.seen)
      BY <2>9, IterGoesOn DEF Rest
    <3>2. idx' = idx /\ Typed(idx) /\ Distinct(idx) /\ Slots(idx) \subseteq Nat /\ iter.i \in Nat
      BY <2>9, CapIs DEF IterNext, IdxInv, Well, Typed, Rest, IterType
    <3>3. Left = {j \in Slots(idx) : j >= iter.i /\ Full(idx, j)}
      BY <3>2, ByteIs DEF Left
    <3>7. CASE iter.grown
      BY <3>1, <3>7 DEF Visiting
    <3>8. iter.state = "on" \/ iter.state = "done"
      BY <3>1 DEF Rest, IterType
    <3>4. CASE ~iter.grown /\ Left = {}
      <4>1. Ahead(idx, iter.i) = {}
        BY <3>3, <3>4 DEF Ahead
      <4>2. QED
        BY <3>1, <3>2, <3>4, <3>8, <4>1 DEF Visiting, Cap
    <3>5. CASE ~iter.grown /\ Left # {}
      <4> DEFINE m == Min(Left)
                 name == idx.key[m].name
      <4>1. m \in Left /\ \A j \in Left : m <= j
        BY <3>2, <3>3, <3>5, MinIs
      <4> HIDE DEF m
      <4>2. m \in Slots(idx) /\ m \in Nat /\ m >= iter.i /\ Full(idx, m)
        BY <3>2, <3>3, <4>1
      <4>3. name \notin Before(idx, iter.i)
        <5>1. SUFFICES ASSUME NEW j \in Slots(idx), j < iter.i, Full(idx, j), idx.key[j].name = name
                       PROVE  FALSE
          BY DEF Before
        <5>2. j = m
          BY <3>2, <4>2, <5>1 DEF Distinct, Equal
        <5>3. QED
          BY <3>2, <4>2, <5>1, <5>2
      <4>4. Ahead(idx, iter.i) \subseteq {name} \union Ahead(idx, m + 1)
        <5>1. SUFFICES ASSUME NEW j \in Slots(idx), j >= iter.i, Full(idx, j), j # m
                       PROVE  j >= m + 1
          BY DEF Ahead
        <5>2. j \in Left /\ j \in Nat
          BY <3>2, <3>3, <5>1
        <5>3. m <= j
          BY <4>1, <5>2
        <5>4. QED
          BY <4>2, <5>1, <5>2, <5>3
      <4>5. Before(idx, iter.i) \union {name} \subseteq Before(idx, m + 1)
        <5>1. m < m + 1
          BY <4>2
        <5>2. \A j \in Slots(idx) : j < iter.i => j < m + 1
          BY <3>2, <4>2
        <5>3. QED
          BY <4>2, <5>1, <5>2 DEF Before
      <4>6. /\ iter'.state = "on" /\ iter'.i = m + 1 /\ iter'.due = iter.due
            /\ iter'.seen = iter.seen \union {name}
            /\ iter'.twice = (iter.twice \/ name \in iter.seen)
        BY <3>1, <3>5 DEF m
      <4> HIDE DEF name
      <4>11. iter.state = "on"
        <5>1. iter.i < Cap(idx)
          BY <3>2, <4>2, CapIs DEF Typed
        <5>2. Cap(idx) \in Nat
          BY <3>2, CapIs DEF Typed
        <5>3. QED
          BY <3>2, <3>5, <3>8, <5>1, <5>2 DEF Visiting
      <4>7. /\ ~iter.twice /\ iter.due \subseteq iter.seen \union Ahead(idx, iter.i)
            /\ iter.seen \subseteq Before(idx, iter.i)
        BY <3>5, <4>11 DEF Visiting
      <4>8. ~iter'.twice
        BY <4>3, <4>6, <4>7
      <4>9. /\ iter'.due \subseteq iter'.seen \union Ahead(idx, m + 1)
            /\ iter'.seen \subseteq Before(idx, m + 1)
        BY <4>4, <4>5, <4>6, <4>7
      <4>10. QED
        BY <3>2, <4>6, <4>8, <4>9 DEF Visiting
    <3>6. QED
      BY <3>4, <3>5, <3>7
  <2>10. QED
    BY <2>3, <2>4, <2>5, <2>6, <2>7, <2>8, <2>9 DEF Next
<1>3. Visiting => VisitsOnce
  BY DEF Visiting, VisitsOnce
<1>4. QED
  BY <1>1, <1>2, <1>3, RestInvariant, PTL DEF Spec

-------------------------------------------------------------------------------
(* The locs that tazR_subIdx reported. *)

\* As long as no bucket of zeroes is taken for a key, what was reported is in the buckets.
Reported ==
  ~Found(idx, Zero) =>
    \A p \in picked : /\ p[1] \in Key
                       /\ \E i \in Slots(idx) : idx.key[i] = p[1] /\ idx.loc[i] = p[2]

LEMMA ZeroIs ==
  ASSUME Typed(idx)
  PROVE  Zero.name \in Present(idx) <=> Found(idx, Zero)
BY DEF Present, Found, Full, Equal

LEMMA StaysReported ==
  ASSUME Reported, Kept(idx, idx'), Found(idx, Zero) => Found(idx', Zero), picked' = picked
  PROVE  Reported'
<1>1. SUFFICES ASSUME ~Found(idx', Zero), NEW p \in picked
               PROVE  p[1] \in Key /\ \E i \in Slots(idx') : idx'.key[i] = p[1] /\ idx'.loc[i] = p[2]
  BY DEF Reported, Found, Full, Slots, Cap
<1>2. PICK i \in Slots(idx) : p[1] \in Key /\ idx.key[i] = p[1] /\ idx.loc[i] = p[2]
  BY <1>1 DEF Reported
<1>3. QED
  BY <1>2 DEF Kept

\* The locs that tazR_subIdx reports are those of the sub-index and stay so, whatever is
\* inserted afterwards and wherever the sub-index grew while it was made or later.
THEOREM SubExactHolds == Spec => []SubExact
<1>1. Init => Reported
  BY DEF Init, Reported
<1>2. IdxInv /\ Rest /\ Reported /\ [Next]_vars => Reported'
  <2> SUFFICES ASSUME IdxInv, Rest, Reported, [Next]_vars PROVE Reported'
    OBVIOUS
  <2>1. ASSUME idx' = idx, picked' = picked PROVE Reported'
    BY <2>1, StaysReported DEF Kept
  <2>2. ASSUME NEW k \in Key, Insert(k) PROVE Reported'
    <3>1. /\ picked' = picked
          /\ Found(idx, k) => idx' = idx
          /\ ~Found(idx, k) => \E i \in Slots(idx) : ~Full(idx, i) /\ Written(idx, idx', k, i)
      BY <2>2, InsertStep
    <3>2. CASE Found(idx, k)
      BY <2>1, <3>1, <3>2
    <3>3. CASE ~Found(idx, k)
      <4>1. PICK i \in Slots(idx) : ~Full(idx, i) /\ Written(idx, idx', k, i)
        BY <3>1, <3>3
      <4> DEFINE y == idx'
      <4>2. /\ Slots(y) = Slots(idx) /\ idx.key[i] = Free /\ Free \notin Kinds
            /\ \A j \in Slots(idx) : /\ y.key[j] = IF j = i THEN k ELSE idx.key[j]
                                     /\ y.loc[j] = IF j = i THEN idx.next ELSE idx.loc[j]
        <5> HIDE DEF y
        <5>1. Written(idx, y, k, i) /\ k \in Kinds
          BY <4>1 DEF y, Kinds
        <5>2. QED
          BY <4>1, <5>1, WrittenIs, KindsAre DEF IdxInv, Well, Full
      <4> HIDE DEF y
      <4>3. Kept(idx, y) /\ (Found(idx, Zero) => Found(y, Zero))
        BY <4>2 DEF Kept, Kinds, Found, Full
      <4>4. QED
        BY <3>1, <4>3, StaysReported DEF y
    <3>4. QED
      BY <3>2, <3>3
  <2>3. CASE GrowBuf
    <3>1. pc = "buf" /\ idx' = Grown(idx) /\ picked' = picked
      BY <2>3 DEF GrowBuf, taken
    <3> DEFINE y == Grown(idx)
    <3>2. Kept(idx, y) /\ \A i \in Slots(idx) : Full(idx, i) => Found(y, idx.key[i])
      BY <3>1, GrowthIs
    <3> HIDE DEF y
    <3>3. Found(idx, Zero) => Found(y, Zero)
      BY <3>2 DEF Found, Equal
    <3>4. QED
      BY <3>1, <3>2, <3>3, StaysReported DEF y
  <2>4. ASSUME NEW S, SubIdx(S) PROVE Reported'
    <3> DEFINE y == idx'
    <3>1. /\ picked' \subseteq Kinds \X (-1 .. y.next)
          /\ \A p \in picked' : Found(y, p[1])
          /\ (\A p \in picked' : p[1] \in Key) =>
               \A p \in picked' : \E j \in Slots(y) : y.key[j] = p[1] /\ y.loc[j] = p[2]
      BY <2>4, SubIs
    <3>2. ~Found(y, Zero) => \A p \in picked' : p[1] \in Key
      BY <3>1 DEF Kinds
    <3> HIDE DEF y
    <3>3. ~Found(y, Zero) =>
            \A p \in picked' : p[1] \in Key /\ \E j \in Slots(y) : y.key[j] = p[1] /\ y.loc[j] = p[2]
      BY <3>1, <3>2
    <3>4. QED
      BY <3>3 DEF Reported, Found, Full, Slots, Cap, y
  <2>5. ASSUME NEW k \in Key, InsertForever(k) PROVE Reported'
    BY <2>1, <2>5 DEF InsertForever, taken
  <2>6. CASE GrowOld \/ GrowOldFails \/ GrowBufFails \/ Collect \/ MakeIter \/ IterNext \/ UNCHANGED vars
    BY <2>1, <2>6 DEF GrowOld, GrowOldFails, GrowBufFails, Collect, MakeIter, IterNext, vars, taken
  <2>7. QED
    BY <2>2, <2>3, <2>4, <2>5, <2>6 DEF Next
<1>3. IdxInv /\ Rest /\ Reported => SubExact
  <2>1. SUFFICES ASSUME IdxInv, Rest, Reported, Zero.name \notin Present(idx), NEW p \in picked
                 PROVE  LookupIn(idx, p[1]) = p[2] /\ \A q \in picked : q[2] = p[2] => q = p
    BY DEF SubExact
  <2>2. hash \in [Names -> Nat] /\ Well(hash, idx) /\ Typed(idx) /\ ~Found(idx, Zero)
    BY <2>1, HashIs, ZeroIs DEF IdxInv, Well
  <2>3. \A q \in picked : q[1] \in Key /\ \E i \in Slots(idx) : idx.key[i] = q[1] /\ idx.loc[i] = q[2]
    BY <2>1, <2>2 DEF Reported
  <2>4. PICK i \in Slots(idx) : idx.key[i] = p[1] /\ idx.loc[i] = p[2] /\ p[1] \in Key
    BY <2>1, <2>3
  <2>5. LookupIn(idx, p[1]) = p[2]
    <3>1. p[1] \in Kinds /\ Full(idx, i) /\ Equal(idx.key[i], p[1])
      BY <2>4, KindsAre DEF Kinds, Full, Equal
    <3>2. QED
      BY <2>2, <2>4, <3>1, LookupIs
  <2>6. ASSUME NEW q \in picked, q[2] = p[2] PROVE q = p
    <3>1. PICK j \in Slots(idx) : idx.key[j] = q[1] /\ idx.loc[j] = q[2] /\ q[1] \in Key
      BY <2>3
    <3>2. i = j
      BY <2>1, <2>4, <2>6, <3>1 DEF IdxInv, Numbered
    <3>3. p = <<p[1], p[2]>> /\ q = <<q[1], q[2]>>
      BY <2>1 DEF Rest
    <3>4. QED
      BY <2>4, <2>6, <3>1, <3>2, <3>3
  <2>7. QED
    BY <2>5, <2>6
<1>4. QED
  BY <1>1, <1>2, <1>3, RestInvariant, PTL DEF Spec

-------------------------------------------------------------------------------
(* The index is the map that KeyMap promises. *)

\* LookupIn for any hash function, and Lookups for any index.
Look(h, x, k) ==
  LET cap == Cap(x)
      first == h[k.name] % cap
      seen(p) == (first + p) % cap
      hits == {p \in 0 .. x.limit : IsAt(x, k, seen(p))}
  IN IF CutShort(x, k) \/ hits = {} THEN -1 ELSE x.loc[seen(Min(hits))]
Looks(h, x) == {l \in {<<k.name, Look(h, x, k)>> : k \in Key} : l[2] >= 0}

\* The keys of the program with their locs, as they are in the buckets.
Pairs(x) == {<<x.key[i].name, x.loc[i]>> : i \in {j \in Slots(x) : x.key[j] \in Key}}

LEMMA LookIs == \A x, k : LookupIn(x, k) = Look(hash, x, k)
BY DEF LookupIn, Look

LEMMA LookupsAre == Lookups = Looks(hash, idx) /\ Lookups' = Looks(hash', idx')
BY DEF Lookups, Looks, LookupIn, Look

\* All that is in the buckets is found, and nothing else.
LEMMA LooksAre ==
  ASSUME hash \in [Names -> Nat], NEW x, Well(hash, x)
  PROVE  Looks(hash, x) = Pairs(x)
<1>1. x.key \in [Slots(x) -> Kinds \union {Free}] /\ \A i \in Slots(x) : x.loc[i] \in Nat
  <2>1. /\ x.key \in [Slots(x) -> Kinds \union {Free}]
        /\ x.loc \in [Slots(x) -> 0 .. Cap(x)] /\ Cap(x) \in Nat
    BY CapIs DEF Well, Typed
  <2>2. QED
    BY <2>1
<1>2. ASSUME NEW k \in Key, Look(hash, x, k) >= 0
      PROVE  <<k.name, Look(hash, x, k)>> \in Pairs(x)
  <2>1. k \in Kinds /\ LookupIn(x, k) = Look(hash, x, k)
    BY LookIs DEF Kinds
  <2>2. PICK i \in Slots(x) : Full(x, i) /\ Equal(x.key[i], k)
    BY <1>2, <2>1, FoundIs DEF Found
  <2>3. LookupIn(x, k) = x.loc[i]
    BY <2>1, <2>2, LookupIs
  <2>4. x.key[i] \in Key /\ x.key[i].name = k.name
    <3>1. x.key[i] \in Kinds
      BY <1>1, <2>2 DEF Full
    <3>2. QED
      BY <2>2, <3>1, KindsAre DEF Equal, Kinds
  <2>5. QED
    BY <2>1, <2>3, <2>4 DEF Pairs
<1>3. ASSUME NEW i \in Slots(x), x.key[i] \in Key
      PROVE  <<x.key[i].name, x.loc[i]>> \in Looks(hash, x)
  <2> DEFINE k == x.key[i]
  <2>1. k \in Kinds /\ Full(x, i) /\ Equal(x.key[i], k)
    BY <1>3, KindsAre DEF Kinds, Full, Equal
  <2>2. Look(hash, x, k) = x.loc[i]
    BY <2>1, LookupIs, LookIs
  <2>3. x.loc[i] >= 0
    BY <1>1
  <2>4. QED
    BY <1>3, <2>2, <2>3 DEF Looks
<1>4. \A l \in Looks(hash, x) : l \in Pairs(x)
  BY <1>2 DEF Looks
<1>5. \A l \in Pairs(x) : l \in Looks(hash, x)
  BY <1>3 DEF Pairs
<1>6. QED
  BY <1>4, <1>5

LEMMA KeptPairs == ASSUME NEW x, NEW y, Kept(x, y) PROVE Pairs(x) \subseteq Pairs(y)
BY DEF Kept, Pairs

LEMMA WrittenPairs ==
  ASSUME NEW x, Typed(x), NEW k \in Key, NEW i \in Slots(x), ~Full(x, i), NEW y, Written(x, y, k, i)
  PROVE  Pairs(y) = Pairs(x) \union {<<k.name, x.next>>}
<1>1. /\ Slots(y) = Slots(x)
      /\ \A j \in Slots(x) : /\ y.key[j] = IF j = i THEN k ELSE x.key[j]
                             /\ y.loc[j] = IF j = i THEN x.next ELSE x.loc[j]
  <2>1. x.key \in [Slots(x) -> Kinds \union {Free}] /\ x.loc \in [Slots(x) -> 0 .. Cap(x)]
    BY DEF Typed
  <2>2. QED
    BY <2>1 DEF Written, Slots, Cap
<1>2. x.key[i] \notin Key
  BY KindsAre DEF Full, Kinds
<1>3. QED
  BY <1>1, <1>2 DEF Pairs

\* The names, and the locs, are as many as the pairs.
LEMMA PairsCount ==
  ASSUME NEW x, NEW h, Well(h, x), Numbered(x)
  PROVE  /\ Cardinality({p[1] : p \in Pairs(x)}) = Cardinality(Pairs(x))
         /\ Cardinality({p[2] : p \in Pairs(x)}) = Cardinality(Pairs(x))
<1> DEFINE F == {j \in Slots(x) : x.key[j] \in Key}
           P == Pairs(x)
           pair == [i \in F |-> <<x.key[i].name, x.loc[i]>>]
           name == [p \in P |-> p[1]]
           loc == [p \in P |-> p[2]]
<1>1. /\ \A i, j \in F : x.key[i].name = x.key[j].name => i = j
      /\ \A i, j \in F : x.loc[i] = x.loc[j] => i = j
  <2>1. \A i \in F : Full(x, i)
    BY KindsAre DEF Full, Kinds
  <2>2. QED
    BY <2>1 DEF Well, Distinct, Equal, Numbered
<1>2. IsFiniteSet(F)
  <2>1. IsFiniteSet(Slots(x))
    BY TakenIs DEF Well, Typed
  <2>2. QED
    BY <2>1, FS_Subset
<1>3. P = {<<x.key[i].name, x.loc[i]>> : i \in F}
  BY DEF Pairs
<1> HIDE DEF F, P
<1>4. IsFiniteSet(P)
  <2>1. pair \in Surjection(F, P)
    BY <1>3 DEF Surjection
  <2>2. QED
    BY <1>2, <2>1, FS_Surjection
<1>5. \A p \in P : \E i \in F : p = <<x.key[i].name, x.loc[i]>> /\ p[1] = x.key[i].name /\ p[2] = x.loc[i]
  BY <1>3
<1>6. \A p, q \in P : (p[1] = q[1] => p = q) /\ (p[2] = q[2] => p = q)
  BY <1>1, <1>5
<1>7. ASSUME NEW S, NEW f, f \in Bijection(P, S) PROVE Cardinality(S) = Cardinality(P)
  BY <1>4, <1>7, FS_Bijection DEF ExistsBijection
<1>8. name \in Bijection(P, {p[1] : p \in P})
  BY <1>6 DEF Bijection, Injection, Surjection, IsInjective
<1>9. loc \in Bijection(P, {p[2] : p \in P})
  BY <1>6 DEF Bijection, Injection, Surjection, IsInjective
<1> HIDE DEF name, loc
<1>10. QED
  BY <1>7, <1>8, <1>9 DEF P

LEMMA SameCount == \A S : Map!Cardinality(S) = Cardinality(S)
BY DEF Map!Cardinality, Cardinality

\* What lookups find is a map from names to locs that only grows, each new key with the
\* next loc: through every insertion, growth and failure to grow, whatever collides.
THEOREM Refinement == Spec => ImplementsKeyMap
<1> DEFINE Simulates == [Map!Next]_(Map!vars)
<1>1. Init => Map!Init
  <2>1. SUFFICES ASSUME Init PROVE Map!Init
    OBVIOUS
  <2>2. 1 \in Row /\ hash \in [Names -> Nat] /\ idx = Empty(1) /\ sub = FALSE
    BY <2>1, RowIs, HashIs DEF Init
  <2>3. Well(hash, idx) /\ idx.next = 0 /\ \A i \in Slots(idx) : idx.key[i] = Free
    BY <2>2, EmptyIs
  <2>4. Pairs(idx) = {}
    BY <2>3, KindsAre DEF Pairs, Kinds
  <2>5. Lookups = {}
    BY <2>2, <2>3, <2>4, LooksAre, LookupsAre
  <2>6. QED
    BY <2>2, <2>3, <2>5 DEF Map!Init
<1>2. IdxInv /\ IdxInv' /\ [Next]_vars => Simulates
  <2> SUFFICES ASSUME IdxInv, IdxInv', [Next]_vars PROVE Simulates
    OBVIOUS
  <2> USE DEF memory, taken
  <2>1. /\ hash \in [Names -> Nat] /\ Well(hash, idx) /\ Typed(idx)
        /\ Lookups = Pairs(idx)
    <3>1. hash \in [Names -> Nat] /\ Well(hash, idx)
      BY HashIs DEF IdxInv
    <3>2. QED
      BY <3>1, LooksAre, LookupsAre DEF Well
  <2>2. ASSUME hash' = hash, sub' = sub, idx' = idx PROVE Simulates
    <3>1. Lookups' = Lookups
      BY <2>2, LookupsAre
    <3>2. QED
      BY <2>2, <3>1 DEF Map!vars
  <2>3. ASSUME NEW k \in Key, Insert(k) PROVE Simulates
    <3> DEFINE y == idx'
    <3>1. idx' = y /\ hash' = hash /\ sub' = sub
      BY <2>3 DEF Insert
    <3>2. /\ Well(hash, y)
          /\ Found(idx, k) => y = idx
          /\ ~Found(idx, k) => \E i \in Slots(idx) : ~Full(idx, i) /\ Written(idx, y, k, i)
      BY <2>3, InsertStep
    <3> HIDE DEF y
    <3>3. CASE Found(idx, k)
      BY <2>2, <3>1, <3>2, <3>3 DEF y
    <3>4. CASE ~Found(idx, k)
      <4>1. PICK i \in Slots(idx) : ~Full(idx, i) /\ Written(idx, y, k, i)
        BY <3>2, <3>4
      <4>2. Pairs(y) = Pairs(idx) \union {<<k.name, idx.next>>} /\ y.next = idx.next + 1
        BY <2>1, <4>1, WrittenPairs DEF Written
      <4>3. Lookups' = Lookups \union {<<k.name, idx.next>>} /\ idx'.next = idx.next + 1
        BY <2>1, <3>1, <3>2, <4>2, LooksAre, LookupsAre DEF y
      <4>4. k.name \notin Map!NamesOf(Lookups)
        <5>1. SUFFICES ASSUME NEW p \in Pairs(idx), p[1] = k.name PROVE FALSE
          BY <2>1 DEF Map!NamesOf
        <5>2. PICK i1 \in Slots(idx) : idx.key[i1] \in Key /\ p = <<idx.key[i1].name, idx.loc[i1]>>
          BY DEF Pairs
        <5>3. Full(idx, i1) /\ Equal(idx.key[i1], k)
          BY <5>1, <5>2, KindsAre DEF Full, Equal, Kinds
        <5>4. QED
          BY <3>4, <5>3 DEF Found
      <4> DEFINE q == <<k.name, idx.next>>
      <4>5. q[1] = k.name /\ q[2] = idx.next
        OBVIOUS
      <4>6. q \notin Lookups
        BY <4>4, <4>5 DEF Map!NamesOf
      <4>7. k.name \in {l.name : l \in Key}
        OBVIOUS
      <4> HIDE DEF q
      <4>8. q \in Lookups' \ Lookups /\ Lookups' = Lookups \union {q}
        BY <4>3, <4>6 DEF q
      <4>9. Map!Insert
        BY <3>1, <4>3, <4>4, <4>5, <4>7, <4>8 DEF Map!Insert
      <4>10. QED
        BY <4>9 DEF Map!Next
    <3>5. QED
      BY <3>3, <3>4
  <2>4. CASE GrowBuf
    <3>1. pc = "buf" /\ idx' = Grown(idx) /\ hash' = hash /\ sub' = sub
      BY <2>4 DEF GrowBuf
    <3> DEFINE y == Grown(idx)
    <3>2. Well(hash, y) /\ y.next = idx.next /\ Kept(idx, y) /\ Kept(y, idx)
      BY <3>1, GrowthIs
    <3> HIDE DEF y
    <3>3. Pairs(y) = Pairs(idx)
      <4>1. Pairs(y) \subseteq Pairs(idx)
        BY <3>2, KeptPairs
      <4>2. Pairs(idx) \subseteq Pairs(y)
        BY <3>2, KeptPairs
      <4>3. QED
        BY <4>1, <4>2
    <3>4. Lookups' = Lookups /\ idx'.next = idx.next
      BY <2>1, <3>1, <3>2, <3>3, LooksAre, LookupsAre DEF y
    <3>5. QED
      BY <3>1, <3>4 DEF Map!vars
  <2>5. ASSUME NEW k \in Key, InsertForever(k) PROVE Simulates
    BY <2>2, <2>5 DEF InsertForever
  <2>6. CASE GrowOld \/ GrowOldFails \/ GrowBufFails \/ Collect \/ MakeIter \/ IterNext \/ UNCHANGED vars
    BY <2>2, <2>6 DEF GrowOld, GrowOldFails, GrowBufFails, Collect, MakeIter, IterNext, vars
  <2>7. ASSUME NEW S, SubIdx(S) PROVE Simulates
    <3> DEFINE y == idx'
    <3>1. /\ y.next \in 0 .. idx.next + 1 /\ Well(hash, y) /\ Numbered(y)
          /\ \A j \in Slots(y) : y.key[j] \in Key => \E i \in Slots(idx) : idx.key[i] = y.key[j]
      BY <2>7, SubIs
    <3>2. sub = FALSE /\ sub' = TRUE /\ hash' = hash
      BY <2>7 DEF SubIdx, Rest
    <3> HIDE DEF y
    <3>3. Lookups' = Pairs(y)
      BY <2>1, <3>1, <3>2, LooksAre, LookupsAre DEF y
    <3>4. Map!NamesOf(Pairs(y)) \subseteq Map!NamesOf(Lookups)
      <4>1. SUFFICES ASSUME NEW j \in Slots(y), y.key[j] \in Key
                     PROVE  \E p \in Pairs(idx) : p[1] = y.key[j].name
        BY <2>1 DEF Map!NamesOf, Pairs
      <4>2. PICK i \in Slots(idx) : idx.key[i] = y.key[j]
        BY <3>1, <4>1
      <4>3. <<idx.key[i].name, idx.loc[i]>> \in Pairs(idx)
        BY <4>1, <4>2 DEF Pairs
      <4>4. \A u, v : <<u, v>>[1] = u
        OBVIOUS
      <4>5. QED
        BY <4>2, <4>3, <4>4
    <3>5. Map!LocsOf(Pairs(y)) \subseteq 0 .. y.next - 1
      <4>1. SUFFICES ASSUME NEW j \in Slots(y), y.key[j] \in Key
                     PROVE  y.loc[j] \in 0 .. y.next - 1
        BY DEF Map!LocsOf, Pairs
      <4>2. y.loc[j] < y.next
        BY <3>1, <4>1 DEF Numbered
      <4>3. y.loc \in [Slots(y) -> 0 .. Cap(y)] /\ Cap(y) \in Nat /\ y.next \in Nat
        BY <3>1, CapIs DEF Well, Typed
      <4>4. y.loc[j] \in Nat
        BY <4>3
      <4>5. QED
        BY <4>2, <4>3, <4>4
    <3>6. /\ Map!Cardinality(Map!NamesOf(Pairs(y))) = Map!Cardinality(Pairs(y))
          /\ Map!Cardinality(Map!LocsOf(Pairs(y))) = Map!Cardinality(Pairs(y))
      BY <3>1, PairsCount, SameCount DEF Map!NamesOf, Map!LocsOf
    <3>7. Map!Take
      BY <3>1, <3>2, <3>3, <3>4, <3>5, <3>6 DEF Map!Take, y
    <3>8. QED
      BY <3>7 DEF Map!Next
  <2>8. QED
    BY <2>3, <2>4, <2>5, <2>6, <2>7 DEF Next
<1>3. QED
  BY <1>1, <1>2, WellFormed, PTL DEF Spec, ImplementsKeyMap, Map!Spec
===============================================================================
