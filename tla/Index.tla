-------------------------------- MODULE Index ---------------------------------
(***************************************************************************)
(* The index of taz_index.c: an open-addressed hash map from keys to locs  *)
(* with a limit on the steps of a lookup, which grows when it is full or   *)
(* when its keys stray too far from their buckets.                         *)
(*                                                                         *)
(* A key is a record of what the lookups tell apart: its kind, the name    *)
(* that equal keys share, and the byte that the bitmap keeps of it.  The   *)
(* hash of each name is chosen once, so that every pattern of collisions   *)
(* is explored.  Bitmap and buckets are written together, and the bitmap   *)
(* is read off the buckets here: a slot is free when its byte is zero.     *)
(***************************************************************************)
EXTENDS Integers, Sequences, FiniteSets, FiniteSetsExt, TLC

CONSTANTS
  Key,                \* the keys that are inserted and looked up
  Free,               \* a bucket that was never written
  Hashings,           \* the hash functions to explore: name -> Nat
  BufCap,             \* bufCapTable, one capacity for each row
  WordSize,           \* sizeof(ulongest): slots of a word of the bitmap
  STR,                \* tazR_Type_STR, the low bits of a string's byte
  Fails,              \* the allocations of growIdx that may fail
  Blk,                \* bound: ids of bucket arrays
  Selects,            \* bound: whether sub-indices are taken
  Iterates            \* bound: whether iterators run

\* A bucket of zeroes, which is what the value 0.0 looks like.
Zero == [kind |-> "atom", name |-> "0.0", byte |-> 5]
Names == {k.name : k \in Key \union {Zero}}
Row == 1 .. Len(BufCap)

\* Equal keys have one kind, and the byte only of a string is another's: it
\* holds a part of its id.  The key 0.0 is not one that the program uses.
ASSUME IndexAssumption ==
  /\ WordSize \in Nat \ {0} /\ BufCap \in Seq(Nat \ {0}) /\ BufCap # <<>>
  /\ \A r, s \in Row : r < s => BufCap[r] < BufCap[s]
  /\ STR \in 1 .. 15 \ {Zero.byte} /\ Blk # {}
  /\ \A k \in Key : k.kind \in {"atom", "medium", "long"} /\ k.byte \in 1 .. 255
                    /\ (k.kind = "atom" <=> k.byte % 16 # STR)
  /\ \A k, l \in Key : k.name = l.name => k.kind = l.kind /\ (k.kind = "atom" => k.byte = l.byte)
  /\ Free \notin Key \union {Zero} /\ \A k \in Key : k.name # Zero.name
  /\ \A h \in Hashings : h \in [Names -> Nat] /\ h[Zero.name] = 0
  /\ Fails \subseteq {"old", "buf"} /\ Selects \in BOOLEAN /\ Iterates \in BOOLEAN

VARIABLES
  hash,               \* the hash of each name
  idx,                \* the tazR_Idx and the buckets it points to
  blk,                \* idx->buf
  live, dead,         \* the arrays in memory; array -> unreachable indices with it
  pc,                 \* where tazR_idxInsert is
  sub,                \* whether the program went on with a sub-index
  picked,             \* the <<key, loc>> that tazR_subIdx reported (history)
  iter                \* a tazR_IdxIter, and what it has visited before the index
                      \* grew (history)

vars == <<hash, idx, blk, live, dead, pc, sub, picked, iter>>

-------------------------------------------------------------------------------
(* The tables, and one index as a value. *)

Cap(x) == BufCap[x.row]
BitCap(x) == (Cap(x) + WordSize) \div WordSize
\* The shifts of an all-ones mask that leave a bit of u under it.
Ulog2(u) == Cardinality({n \in 0 .. u : 2 ^ n <= u})
IdealStepLimit(x) == Ulog2(Cap(x))
StepLimitTolerance(x) == Ulog2(Cap(x)) \div 2

Slots(x) == 0 .. Cap(x) - 1
\* (Faulty: the step limit starts at zero, below the ideal one; TypeOK.)
MutEmpty(row) ==
  [row |-> row, key |-> [i \in 0 .. BufCap[row] - 1 |-> Free],
   loc |-> [i \in 0 .. BufCap[row] - 1 |-> 0],
   next |-> 0, limit |-> 0, dev |-> 0, mode |-> "noStrings"]
Empty(row) ==
  LET x == [row |-> row, key |-> [i \in 0 .. BufCap[row] - 1 |-> Free],
            loc |-> [i \in 0 .. BufCap[row] - 1 |-> 0],
            next |-> 0, limit |-> 0, dev |-> 0, mode |-> "noStrings"]
  IN [x EXCEPT !.limit = IdealStepLimit(x)]

ByteAt(x, i) == IF x.key[i] = Free THEN 0 ELSE x.key[i].byte
IsFull(x) == \A i \in Slots(x) : ByteAt(x, i) # 0
IsStr(k) == k.kind # "atom"

-------------------------------------------------------------------------------
(* Lookup. *)

\* (Faulty: long strings are told apart by their whole byte; ImplementsKeyMap.)
MutQualifies(x, k, i) == ByteAt(x, i) = k.byte
Qualifies(x, k, i) ==
  IF IsStr(k) THEN ByteAt(x, i) % 16 = STR ELSE ByteAt(x, i) = k.byte

\* The lookups that the function pointer of each mode cuts short.
CutShort(x, k) ==
  \/ x.mode = "noStrings" /\ IsStr(k)
  \/ x.mode = "noLong" /\ k.kind = "long"

\* The bucket at slot i is the key's.
IsAt(x, k, i) == Qualifies(x, k, i) /\ x.key[i].name = k.name

\* The slots from the hash on, without the padding, up to the step limit.
LookupIn(x, k) ==
  LET cap == Cap(x)
      first == hash[k.name] % cap
      seen(p) == (first + p) % cap
      hits == {p \in 0 .. x.limit : IsAt(x, k, seen(p))}
  IN IF CutShort(x, k) \/ hits = {} THEN -1 ELSE x.loc[seen(Min(hits))]

-------------------------------------------------------------------------------
(* Insertion. *)

\* (Faulty: a long string in an index without strings; ScanComplete.)
MutModeWith(x, k) ==
  CASE k.kind = "long" /\ x.mode = "noLong" -> "hasLong"
    [] k.kind = "medium" /\ x.mode = "noStrings" -> "noLong"
    [] OTHER -> x.mode
ModeWith(x, k) ==
  CASE k.kind = "long" -> "hasLong"
    [] k.kind = "medium" /\ x.mode = "noStrings" -> "noLong"
    [] OTHER -> x.mode

\* insertInEmpty: the padding after the last slot counts as one step.
PlaceAt(x, k, q) == ((hash[k.name] % Cap(x)) + q) % (Cap(x) + 1)
StepsTo(x, k) ==
  Min({q \in 0 .. Cap(x) : PlaceAt(x, k, q) # Cap(x) /\ ByteAt(x, PlaceAt(x, k, q)) = 0})

InsertInEmpty(x, k) ==
  LET step == StepsTo(x, k)
      i == PlaceAt(x, k, step)
      far == step > x.limit
  IN [row |-> x.row, next |-> x.next + 1, mode |-> ModeWith(x, k),
      key |-> [x.key EXCEPT ![i] = k], loc |-> [x.loc EXCEPT ![i] = x.next],
      limit |-> IF far THEN step ELSE x.limit,
      dev |-> IF far THEN x.dev + step - IdealStepLimit(x) ELSE x.dev]

InsertIn(x, k) == IF LookupIn(x, k) >= 0 THEN x ELSE InsertInEmpty(x, k)

NeedsGrowth(x) == x.next >= Cap(x) \/ x.dev > StepLimitTolerance(x)

\* The key growIdx reads in a bucket: the type of a zeroed one is not NONE.
KeyAt(x, i) == IF x.key[i] = Free THEN Zero ELSE x.key[i]

\* (Faulty: the keys are numbered anew in the order of their buckets; SubExact.)
MutMoved(y, x, i) == InsertIn(y, KeyAt(x, i))
\* A key of the old buckets goes to the new ones with the loc it has.
Moved(y, x, i) == InsertIn([y EXCEPT !.next = x.loc[i]], KeyAt(x, i))

\* growIdx, bucket by bucket.
Grown(x) ==
  LET after[n \in 0 .. Cap(x)] ==
        IF n = 0 THEN Empty(x.row + 1) ELSE Moved(after[n - 1], x, n - 1)
  IN [after[Cap(x)] EXCEPT !.next = x.next]

\* An insertion that returns: it has a bucket to find or to fill, and a growth a row.
Returns(x, k) ==
  /\ LookupIn(x, k) >= 0 \/ ~IsFull(x)
  /\ NeedsGrowth(InsertIn(x, k)) => x.row + 1 \in Row

\* tazR_idxInsert into an index that nobody else sees, in memory that suffices.
Inserted(x, k) ==
  LET y == InsertIn(x, k) IN IF NeedsGrowth(y) THEN Grown(y) ELSE y

-------------------------------------------------------------------------------
(* The program's calls.  The index itself stays reachable throughout. *)

TypeOK ==
  /\ hash \in Hashings /\ blk \in Blk /\ live \subseteq Blk /\ dead \in [Blk -> Nat]
  /\ pc \in {"ready", "old", "buf", "searching"}
  /\ idx.row \in Row /\ idx.next \in 0 .. Cap(idx)
  /\ idx.key \in [Slots(idx) -> Key \union {Zero, Free}]
  /\ idx.loc \in [Slots(idx) -> 0 .. Cap(idx)]
  /\ idx.limit \in Nat /\ idx.dev \in Nat
  /\ idx.mode \in {"noStrings", "noLong", "hasLong"}
  /\ sub \in BOOLEAN /\ picked \subseteq (Key \union {Zero}) \X (-1 .. idx.next)
  /\ iter \in [state : {"none", "on", "done"}, i : Nat, due : SUBSET Names,
               seen : SUBSET Names, twice : BOOLEAN, grown : BOOLEAN]

NoIter == [state |-> "none", i |-> 0, due |-> {}, seen |-> {}, twice |-> FALSE,
           grown |-> FALSE]
NewBlk == CHOOSE b \in Blk \ live : TRUE

\* tazR_makeIdx
Init ==
  /\ hash \in Hashings
  /\ idx = Empty(1)
  /\ blk = (CHOOSE b \in Blk : TRUE) /\ live = {blk} /\ dead = [b \in Blk |-> 0]
  /\ pc = "ready" /\ sub = FALSE /\ picked = {} /\ iter = NoIter

Usable == pc = "ready" /\ blk \in live
memory == <<blk, live, dead>>
taken == <<sub, picked>>

\* tazR_idxInsert up to the decision to grow, past the assertion on the rows.
Insert(k) ==
  /\ Usable /\ Returns(idx, k)
  /\ idx' = InsertIn(idx, k)
  /\ pc' = IF NeedsGrowth(idx') THEN "old" ELSE "ready"
  /\ UNCHANGED <<hash, memory, taken, iter>>

\* insertInEmpty finds no free bucket and does not return.
InsertForever(k) ==
  /\ Usable /\ LookupIn(idx, k) < 0 /\ IsFull(idx)
  /\ pc' = "searching"
  /\ UNCHANGED <<hash, idx, memory, taken, iter>>

\* growIdx has its temporary index, a copy of the one that grows.
GrowOld ==
  /\ pc = "old" /\ pc' = "buf"
  /\ UNCHANGED <<hash, idx, memory, taken, iter>>

GrowOldFails ==
  /\ pc = "old" /\ "old" \in Fails /\ pc' = "ready"
  /\ UNCHANGED <<hash, idx, memory, taken, iter>>

\* growIdx has the new buckets, fills them and drops the temporary index.  An
\* iterator goes on in the new buckets at the slot it had come to in the old.
GrowBuf ==
  /\ pc = "buf" /\ pc' = "ready" /\ Blk \ live # {}
  /\ idx' = Grown(idx)
  /\ blk' = NewBlk /\ live' = live \union {NewBlk}
  /\ dead' = [dead EXCEPT ![blk] = @ + 1]
  /\ iter' = [iter EXCEPT !.grown = (iter.state # "none"), !.due = {}, !.seen = {}]
  /\ UNCHANGED <<hash, taken>>

\* The error unlinks the bucket, and the temporary index with it.
GrowBufFails ==
  /\ pc = "buf" /\ "buf" \in Fails /\ pc' = "ready"
  /\ dead' = [dead EXCEPT ![blk] = @ + 1]
  /\ UNCHANGED <<hash, idx, blk, live, taken, iter>>

\* A collection, in growIdx or later, finalises the unreachable indices.
Collect ==
  /\ pc # "searching" /\ \E b \in Blk : dead[b] > 0
  /\ live' = {b \in live : dead[b] = 0}
  /\ dead' = [b \in Blk |-> 0]
  /\ UNCHANGED <<hash, idx, blk, pc, taken, iter>>

-------------------------------------------------------------------------------
(* Sub-indices and iterators. *)

\* The occupied slots whose keys go into the sub-index, bucket by bucket.
Selected(x, S) == {i \in Slots(x) : ByteAt(x, i) # 0 /\ x.loc[i] \in S}

Pick(a, x, i) ==
  LET y == Inserted(a.sub, x.key[i])
  IN [sub |-> y, locs |-> [a.locs EXCEPT ![x.loc[i]] = LookupIn(y, x.key[i])]]

\* The sub-index, and the locs that are reported, after each number of buckets.
Picks(x, S) ==
  LET after[n \in 0 .. Cap(x)] ==
        IF n = 0 THEN [sub |-> Empty(1), locs |-> [l \in S |-> -1]]
        ELSE IF n - 1 \in Selected(x, S) THEN Pick(after[n - 1], x, n - 1) ELSE after[n - 1]
  IN after

\* tazR_subIdx, whose caller goes on with the sub-index alone.
SubIdx(S) ==
  LET all == Picks(idx, S)[Cap(idx)]
  IN /\ Usable /\ Selects /\ ~sub /\ idx.next > 0 /\ Blk \ live # {}
     /\ \A i \in Selected(idx, S) : Returns(Picks(idx, S)[i].sub, idx.key[i])
     /\ idx' = all.sub /\ sub' = TRUE
     /\ picked' = {<<idx.key[i], all.locs[idx.loc[i]]>> : i \in Selected(idx, S)}
     /\ blk' = NewBlk /\ live' = live \union {NewBlk}
     /\ dead' = [dead EXCEPT ![blk] = @ + 1]
     /\ iter' = NoIter
     /\ UNCHANGED <<hash, pc>>

Present(x) == {x.key[i].name : i \in {j \in Slots(x) : x.key[j] # Free}}

MakeIter ==
  /\ Usable /\ Iterates /\ iter.state # "on"
  /\ iter' = [NoIter EXCEPT !.state = "on", !.due = Present(idx)]
  /\ UNCHANGED <<hash, idx, memory, pc, taken>>

\* (Faulty: the iterator goes on at the slot it has just returned; VisitsOnce.)
MutAfterSlot(i) == i
AfterSlot(i) == i + 1

\* One that has come to the end of the buckets goes on when they have grown.
IterNext ==
  LET left == {i \in Slots(idx) : i >= iter.i /\ ByteAt(idx, i) # 0}
      name == idx.key[Min(left)].name
  IN /\ Usable /\ iter.state # "none"
     /\ iter' = IF left = {}
                THEN [iter EXCEPT !.state = "done", !.i = IF @ >= Cap(idx) THEN @ ELSE BitCap(idx) * WordSize]
                ELSE [iter EXCEPT !.state = "on", !.i = AfterSlot(Min(left)),
                                  !.seen = IF iter.grown THEN {} ELSE @ \union {name},
                                  !.twice = @ \/ name \in iter.seen]
     /\ UNCHANGED <<hash, idx, memory, pc, taken>>

Next ==
  \/ \E k \in Key : Insert(k) \/ InsertForever(k)
  \/ GrowOld \/ GrowOldFails \/ GrowBuf \/ GrowBufFails \/ Collect
  \/ \E S \in SUBSET (0 .. idx.next - 1) : SubIdx(S)
  \/ MakeIter \/ IterNext

Spec == Init /\ [][Next]_vars

-------------------------------------------------------------------------------
(* What the index is for. *)

\* What lookups find: the <<name, loc>> of every key that is found.
Lookups == {h \in {<<k.name, LookupIn(idx, k)>> : k \in Key} : h[2] >= 0}

\* The index is a map: what a lookup finds, with its mode, its step limit and
\* its filter on the bitmap, is what was inserted, and no insertion, growth or
\* failure to grow changes the loc of a key (taz_index.h:5-10).
Map == INSTANCE KeyMap WITH Name <- {k.name : k \in Key}, map <- Lookups, next <- idx.next, sub <- sub
ImplementsKeyMap == Map!Spec

\* A full collection marks every string that is a key, whatever the order in
\* which the kinds of keys came and the index grew: the scan function pointer
\* is never the one of an index without strings (scanWhenNoStrings).
ScanComplete ==
  \A i \in Slots(idx) : ByteAt(idx, i) % 16 = STR => idx.mode # "noStrings"

\* Every array of buckets belongs to one index, is in memory while that index
\* is, and is freed once: growIdx copies the pointer before it replaces it.
BucketsOwned ==
  /\ blk \in live /\ dead[blk] = 0
  /\ \A b \in Blk : dead[b] = IF b \in live \ {blk} THEN 1 ELSE 0

\* An iterator over an index that does not grow meanwhile returns each key that
\* was there when it was made, once, though keys are inserted between its steps.
\* (When it grows, keys change their slots, and some are returned twice or not
\* at all.)
VisitsOnce ==
  ~iter.grown => ~iter.twice /\ (iter.state = "done" => iter.due \subseteq iter.seen)

\* The locs that tazR_subIdx reports are those of the sub-index and stay so,
\* and no two keys share one: the values of a record are moved by them.
SubExact ==
  Zero.name \notin Present(idx) =>
    \A p \in picked : /\ LookupIn(idx, p[1]) = p[2]
                      /\ \A q \in picked : q[2] = p[2] => q = p

\* "Assume there will always be a free slot in the index, so this loop will
\* terminate" (taz_index.c:295-296).
AlwaysFreeSlot == pc # "searching"

\* "This byte will contain the bottom most 8 bits of the bucket's key, if
\* occupied, or 0 otherwise" (taz_index.c:30-32): no bucket holds a key that
\* was never inserted.
OnlyInserted == Zero.name \notin Present(idx)
===============================================================================
