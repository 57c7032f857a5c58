---------------------------- MODULE StringPoolProofs ----------------------------
(***************************************************************************)
(* Every handle that the running code keeps stands for the string it was   *)
(* made from, no medium text has two handles, a string that has become     *)
(* unreachable does not outlive two full collections, and a borrowed text  *)
(* stays what it was until startStringGC cuts the list of loans: for all   *)
(* texts, all loans, all sizes of the blocks of the pool and all lengths   *)
(* of the collector's cycle.  The argument rests on how makeStrId finds an *)
(* id: its search never comes to a bit, so that every id is the first of a *)
(* new block.                                                              *)
(***************************************************************************)
EXTENDS StringPool, TLAPS

\* Where the call at hand is, also while a collection copies a loaned text.
At == IF pc = "steal" THEN back ELSE pc
Calls == {"nmap", "bmap", "node"}
InCall == At \in Calls

\* What tazE_makeStr has established when it allocates: no chain has the text,
\* and the id is the first of the block that is being added, or was just added.
Making ==
  /\ InCall => making.text \in Text /\ \A i \in chain : nmap[i] # making.text
  /\ At \in {"nmap", "bmap"} => ncap < MaxBlocks /\ making.id = ncap * PerBlock
  /\ At = "node" => /\ ncap >= 2 /\ making.id = (ncap - 1) * PerBlock
                    /\ 0 \in bmap[ncap - 1]

\* The newest block with a string.
Taken == IF At = "node" THEN ncap - 2 ELSE ncap - 1

\* Only the first slot of a block has a string, and its bit is set: so that the
\* sweep of a full collection gets to every string.
Placed == \A i \in Used : \E j \in 1 .. Taken : i = j * PerBlock /\ 0 \in bmap[j]

\* A mark is younger than the last full collection.
Idle == \A i \in Used : idle[i] <= 1 /\ (i \in mark \union Rooted => idle[i] = 0)

\* What Standing says of the nodes, whatever becomes of nmap.
Standing == \A r \in roots : nmap[r[1]] = r[2]

\* nmap has room for every block, until it is lost, and a text is copied only
\* when one is lent.
Room ==
  /\ pc # "lost" => ncap <= nmapCap
  /\ At = "bmap" => pc # "lost" /\ nmapCap = ncap + 1
  /\ pc = "steal" => loans.head # None

PoolInv ==
  TypeOK /\ Interned /\ Standing /\ Room /\ Making /\ Placed /\ Idle

-------------------------------------------------------------------------------
(* Numbers.                                                                *)

\* The first id of block j.
LEMMA FirstOf ==
  ASSUME NEW j \in Nat
  PROVE  /\ j * PerBlock \in Nat /\ BlockOf(j * PerBlock) = j /\ BitOf(j * PerBlock) = 0
         /\ \A k \in Nat : j <= k => j * PerBlock <= k * PerBlock
         /\ j <= MaxBlocks => j * PerBlock \in Id
         /\ j < MaxBlocks => j \in Block
<1>1. PerBlock \in Nat \ {0} /\ NBits \in Nat \ {0} /\ MaxBlocks \in Nat \ {0}
  BY PoolAssumption
<1>2. \A k \in Nat : j <= k => j * PerBlock <= k * PerBlock
  BY <1>1
<1>3. j * PerBlock \in Nat
  BY <1>1
<1>4. (j * PerBlock) \div PerBlock = j /\ (j * PerBlock) % PerBlock = 0
  BY <1>1
<1>5. j <= MaxBlocks => j * PerBlock \in Id
  <2>1. MaxBlocks * PerBlock \in Nat
    BY <1>1
  <2>2. QED
    BY <1>1, <1>2, <1>3, <2>1 DEF Id
<1>6. QED
  BY <1>1, <1>2, <1>3, <1>4, <1>5 DEF BlockOf, BitOf, Block

\* Ids of different blocks differ.
LEMMA FirstsDiffer ==
  ASSUME NEW j \in Nat, NEW k \in Nat, j * PerBlock = k * PerBlock
  PROVE  j = k
BY FirstOf

LEMMA MinOfTwo ==
  ASSUME NEW a \in Nat, NEW b \in Nat
  PROVE  Min({a, b}) = IF a < b THEN a ELSE b
<1>1. \E x \in {a, b} : \A y \in {a, b} : x <= y
  OBVIOUS
<1>2. QED
  BY <1>1 DEF Min

\* makeStrId skips the units that are not full and looks for a clear bit in
\* those that are.
LEMMA NoFreeBits == FreeBits = {}
BY DEF FreeBits

-------------------------------------------------------------------------------
(* A full collection.                                                      *)

\* Every string is scanned, so what survives was marked.
LEMMA AllScanned ==
  ASSUME TypeOK, Placed
  PROVE  Scanned = Used
<1>1. ASSUME NEW i \in Used PROVE i \in Scanned
  <2>1. PICK j \in 1 .. Taken : i = j * PerBlock /\ 0 \in bmap[j]
    BY DEF Placed
  <2>2. j \in Nat /\ j < MaxBlocks
    BY PoolAssumption DEF Taken, TypeOK
  <2>3. BlockOf(i) = j /\ j \in Block /\ bmap[j] # {}
    BY <2>1, <2>2, FirstOf
  <2>4. QED
    BY <2>2, <2>3 DEF Scanned
<1>2. QED
  BY <1>1 DEF Scanned

-------------------------------------------------------------------------------
(* The types of the loans.                                                 *)

LoanRec ==
  [from : {"none", "pool", "copy"}, id : Id, text : Text \union {None},
   str : Text \union {None}, next : Loan \union {None},
   link : Loan \union {"head", None}]
LoanState == [head : Loan \union {None}, of : [Loan -> LoanRec]]

\* A field of one loan, or the head of the list, may be set.
LEMMA LoanSet ==
  ASSUME NEW ls \in LoanState
  PROVE  /\ \A h \in Loan \union {None} : [ls EXCEPT !.head = h] \in LoanState
         /\ \A l : \A r \in LoanRec : [ls EXCEPT !.of[l] = r] \in LoanState
         /\ \A l : \A n \in Loan \union {None} : [ls EXCEPT !.of[l].next = n] \in LoanState
         /\ \A l : \A k \in Loan \union {"head", None} :
              [ls EXCEPT !.of[l].link = k] \in LoanState
         /\ \A l : [ls EXCEPT !.of[l].from = "copy"] \in LoanState
         /\ \A f \in [Loan -> LoanRec] : [ls EXCEPT !.of = f] \in LoanState
<1>1. ls = [head |-> ls.head, of |-> ls.of] /\ ls.of \in [Loan -> LoanRec]
      /\ ls.head \in Loan \union {None}
  BY DEF LoanState
<1>2. ASSUME NEW l, NEW r \in LoanRec PROVE [ls.of EXCEPT ![l] = r] \in [Loan -> LoanRec]
  BY <1>1
<1>3. ASSUME NEW l \in Loan
      PROVE  /\ \A n \in Loan \union {None} : [ls.of[l] EXCEPT !.next = n] \in LoanRec
             /\ \A k \in Loan \union {"head", None} : [ls.of[l] EXCEPT !.link = k] \in LoanRec
             /\ [ls.of[l] EXCEPT !.from = "copy"] \in LoanRec
  <2>1. ls.of[l] \in LoanRec
    BY <1>1
  <2>2. QED
    BY <2>1 DEF LoanRec
<1>4. QED
  BY <1>1, <1>2, <1>3 DEF LoanState

LEMMA LoanTypes ==
  ASSUME NEW ls \in LoanState
  PROVE  /\ \A l \in Loan : [Stolen(ls, l) EXCEPT !.head = None] \in LoanState
         /\ \A D : Dangling(ls, D) \in LoanState /\ Dangling(ls, D).head = ls.head
         /\ \A l \in Loan : Unlinked(ls, l) \in LoanState
         /\ \A l \in Loan, i \in Id, t \in Text : Linked(ls, l, i, t) \in LoanState
         /\ NoLoan \in LoanRec
<1>1. ls.head \in Loan \union {None} /\ \A l \in Loan : ls.of[l] \in LoanRec
  BY DEF LoanState
<1>2. \A l \in Loan : ls.of[l].next \in Loan \union {None}
  BY <1>1 DEF LoanRec
<1>3. ASSUME NEW l \in Loan PROVE Unlinked(ls, l) \in LoanState
  <2> DEFINE next == ls.of[l].next
             link == ls.of[l].link
             past == IF link = "head" THEN [ls EXCEPT !.head = next]
                     ELSE [ls EXCEPT !.of[link].next = next]
  <2>1. next \in Loan \union {None} /\ link \in Loan \union {"head", None}
    BY <1>1 DEF LoanRec
  <2>2. past \in LoanState
    BY <2>1, LoanSet
  <2>3. [past EXCEPT !.of[next].link = link] \in LoanState
    BY <2>1, <2>2, LoanSet
  <2>4. Unlinked(ls, l) =
          IF next = None THEN past ELSE [past EXCEPT !.of[next].link = link]
    BY DEF Unlinked
  <2>5. QED
    BY <2>2, <2>3, <2>4
<1>4. ASSUME NEW l \in Loan PROVE Stolen(ls, l) \in LoanState
  <2> DEFINE u == Unlinked(ls, l)
             v == [u EXCEPT !.of[l].from = "copy"]
             w == [v EXCEPT !.of[l].next = None]
  <2>1. u \in LoanState
    BY <1>3
  <2>2. v \in LoanState
    BY <2>1, LoanSet
  <2>3. w \in LoanState
    BY <2>2, LoanSet
  <2>4. [w EXCEPT !.of[l].link = None] \in LoanState
    BY <2>3, LoanSet
  <2>5. QED
    BY <2>4 DEF Stolen
<1>5. ASSUME NEW l \in Loan PROVE [Stolen(ls, l) EXCEPT !.head = None] \in LoanState
  BY <1>4, LoanSet
<1>9. ASSUME NEW D PROVE Dangling(ls, D) \in LoanState /\ Dangling(ls, D).head = ls.head
  <2> DEFINE str(l) == IF ls.of[l].from = "pool" /\ ls.of[l].id \in D THEN None
                       ELSE ls.of[l].str
             f == [l \in Loan |-> [ls.of[l] EXCEPT !.str = str(l)]]
  <2>1. ASSUME NEW l \in Loan PROVE [ls.of[l] EXCEPT !.str = str(l)] \in LoanRec
    <3>1. ls.of[l] \in LoanRec
      BY <1>1
    <3>2. str(l) \in Text \union {None}
      BY <3>1 DEF LoanRec
    <3> HIDE DEF str
    <3>3. QED
      BY <3>1, <3>2 DEF LoanRec
  <2>2. f \in [Loan -> LoanRec]
    BY <2>1
  <2>3. Dangling(ls, D) = [ls EXCEPT !.of = f]
    BY DEF Dangling
  <2> HIDE DEF f
  <2>4. [ls EXCEPT !.of = f].head = ls.head
    BY DEF LoanState
  <2>5. QED
    BY <2>2, <2>3, <2>4, LoanSet
<1>6. ASSUME NEW l \in Loan, NEW i \in Id, NEW t \in Text
      PROVE  Linked(ls, l, i, t) \in LoanState
  <2> DEFINE r == [from |-> "pool", id |-> i, text |-> t, str |-> t,
                   next |-> ls.head, link |-> "head"]
             v == [ls EXCEPT !.head = l]
  <2>1. r \in LoanRec
    BY <1>1 DEF LoanRec
  <2>2. v \in LoanState
    BY LoanSet
  <2>3. [v EXCEPT !.of[l] = r] \in LoanState
    BY <2>1, <2>2, LoanSet
  <2>4. [[v EXCEPT !.of[l] = r] EXCEPT !.of[ls.head].link = l] \in LoanState
    BY <2>3, LoanSet
  <2>5. QED
    BY <2>3, <2>4 DEF Linked
<1>7. NoLoan \in LoanRec
  <2>1. 0 * PerBlock = 0 /\ 0 * PerBlock \in Id
    BY FirstOf, PoolAssumption
  <2>2. QED
    BY <2>1 DEF NoLoan, LoanRec
<1>8. QED
  BY <1>3, <1>5, <1>6, <1>7, <1>9

-------------------------------------------------------------------------------
(* What a collection keeps.                                                *)

MakingType == [id : Id, text : Text \union {None}]

Points == {"run", "nmap", "bmap", "node", "lost"}

\* The variables that have no part in the argument keep their types, and the
\* call at hand goes on or is given up.
Beside ==
  /\ loans' \in LoanState /\ cycle' \in 0 .. Interval - 1 /\ cut' \in BOOLEAN
  /\ mayCollect' \in BOOLEAN /\ back' \in Points /\ isFullCycle' \in BOOLEAN
  /\ pc' \in Points \union {"steal", "again", "aborted"}
  /\ pc' = "lost" \/ (pc # "lost" /\ nmapCap' = nmapCap)
  /\ nmapCap' \in 0 .. MaxBlocks
  /\ pc' = "steal" => loans'.head # None
  /\ \/ At' = At /\ making' = making
     \/ At' \notin Calls /\ making' \in MakingType

\* Giving up a call makes no block the newest one with a string.
LEMMA TakenKept ==
  ASSUME TypeOK, Beside, ncap' = ncap
  PROVE  Taken \in Int /\ Taken' \in Int /\ Taken <= Taken'
<1>1. ncap \in Nat /\ (At' = "node" => At = "node")
  BY DEF TypeOK, Beside, Calls
<1>2. QED
  BY <1>1 DEF Taken

\* nmap keeps its room.
LEMMA RoomKept ==
  ASSUME TypeOK, Room, Beside, ncap' = ncap
  PROVE  Room'
<1>1. pc' # "lost" => pc # "lost" /\ nmapCap' = nmapCap
  BY DEF Beside
<1>2. At' = "bmap" => At = "bmap"
  BY DEF Beside, Calls
<1>3. At' = "bmap" => pc' # "lost"
  BY DEF At
<1>4. QED
  BY <1>1, <1>2, <1>3 DEF Room, Beside

\* A step that leaves the strings alone, and marks none but rooted ones.
LEMMA QuietKeeps ==
  ASSUME PoolInv, Beside, UNCHANGED <<nmap, chain, bmap, ncap, roots, idle>>,
         mark' \subseteq mark \union Rooted
  PROVE  PoolInv'
<1>1. Rooted' = Rooted /\ Used' = Used /\ Rooted \subseteq Id
  BY DEF Rooted, Used, PoolInv, TypeOK
<1>2. TypeOK'
  <2>1. making' \in MakingType
    BY DEF PoolInv, TypeOK, Beside, MakingType
  <2>2. QED
    BY <1>1, <2>1 DEF PoolInv, TypeOK, Beside, LoanState, LoanRec, MakingType, Points
<1>3. Interned' /\ Standing' /\ Room'
  BY RoomKept DEF PoolInv, Interned, Standing
<1>4. Making'
  BY DEF PoolInv, Making, Beside, InCall, Calls
<1>5. Placed'
  <2>1. Taken \in Int /\ Taken' \in Int /\ Taken <= Taken'
    BY TakenKept DEF PoolInv
  <2>2. QED
    BY <1>1, <2>1 DEF PoolInv, Placed
<1>6. Idle'
  BY <1>1 DEF PoolInv, Idle
<1>7. QED
  BY <1>2, <1>3, <1>4, <1>5, <1>6 DEF PoolInv

\* finishStringGC.
LEMMA FullKeeps ==
  ASSUME PoolInv, Beside, NEW ls, FinishStringGC(mark \union Rooted, ls),
         UNCHANGED <<ncap, roots>>
  PROVE  PoolInv'
<1> DEFINE dead == Used \ (mark \union Rooted)
<1>1. Rooted' = Rooted /\ Rooted \subseteq Id
  BY DEF Rooted, PoolInv, TypeOK
<1>2. Scanned = Used
  BY AllScanned DEF PoolInv
<1>3. /\ nmap' = [i \in Id |-> IF i \in dead THEN None ELSE nmap[i]]
      /\ chain' = chain \ dead
      /\ bmap' = [k \in Block |->
                    bmap[k] \ {BitOf(i) : i \in {d \in dead : BlockOf(d) = k}}]
      /\ mark' = (mark \union Rooted) \ Used
      /\ idle' = [i \in Id |-> IF i \in Rooted THEN 0 ELSE Min({idle[i] + 1, 2})]
  BY <1>2 DEF FinishStringGC, MarkAfter, ChainWithout
<1>4. /\ nmap \in [Id -> Text \union {None}] /\ chain \subseteq Id
      /\ bmap \in [Block -> SUBSET Bit] /\ ncap \in 1 .. MaxBlocks
      /\ mark \subseteq Id /\ idle \in [Id -> 0 .. 2]
  BY DEF PoolInv, TypeOK
<1>5. ASSUME NEW i \in Id
      PROVE  /\ Min({idle[i] + 1, 2}) \in 0 .. 2
             /\ idle[i] = 0 => Min({idle[i] + 1, 2}) = 1
  <2>1. idle[i] + 1 \in Nat /\ idle[i] + 1 <= 3 /\ idle[i] + 1 >= 1
    BY <1>4
  <2>2. QED
    BY <2>1, MinOfTwo
<1>6. Used' = Used \ dead /\ Used \subseteq Id
  BY <1>3 DEF Used
<1>7. /\ nmap' \in [Id -> Text \union {None}] /\ chain' \subseteq Id
      /\ bmap' \in [Block -> SUBSET Bit] /\ ncap' \in 1 .. MaxBlocks
      /\ mark' \subseteq Id /\ idle' \in [Id -> 0 .. 2]
  <2>1. nmap' \in [Id -> Text \union {None}]
    BY <1>3, <1>4
  <2>2. bmap' \in [Block -> SUBSET Bit]
    BY <1>3, <1>4
  <2>3. idle' \in [Id -> 0 .. 2]
    BY <1>3, <1>5
  <2>4. QED
    BY <1>1, <1>3, <1>4, <2>1, <2>2, <2>3
<1>8. TypeOK'
  <2>1. making' \in MakingType
    BY DEF PoolInv, TypeOK, Beside, MakingType
  <2>2. QED
    BY <1>7, <2>1 DEF PoolInv, TypeOK, Beside, LoanState, LoanRec, MakingType, Points
<1>9. Interned'
  <2>1. chain' = {i \in Id : nmap'[i] \in Medium}
    BY <1>3, PoolAssumption DEF PoolInv, Interned, Used, Text
  <2>2. \A i \in chain' : i \in chain /\ nmap'[i] = nmap[i]
    BY <1>3, <1>4
  <2>3. QED
    BY <2>1, <2>2 DEF PoolInv, Interned
<1>10. Standing'
  <2>1. \A r \in roots : r[1] \in Id /\ r[1] \notin dead
    BY DEF PoolInv, TypeOK, Rooted
  <2>2. QED
    BY <1>3, <2>1 DEF PoolInv, Standing
\* The bit of a string that stays is not the bit of one that goes.
<1>11. ASSUME NEW j \in 1 .. ncap - 1, 0 \in bmap[j], j * PerBlock \notin dead
       PROVE  0 \in bmap'[j]
  <2>1. j \in Nat /\ j \in Block
    BY <1>4, FirstOf, PoolAssumption
  <2>2. ASSUME NEW d \in dead, BlockOf(d) = j PROVE FALSE
    <3>1. PICK k \in 1 .. Taken : d = k * PerBlock
      BY DEF PoolInv, Placed
    <3>2. k \in Nat
      BY <1>4 DEF Taken
    <3>3. k = j
      BY <2>2, <3>1, <3>2, FirstOf
    <3>4. QED
      BY <1>11, <3>1, <3>3
  <2>3. QED
    BY <1>3, <1>11, <2>1, <2>2
<1>12. Placed'
  <2>1. Taken \in Int /\ Taken' \in Int /\ Taken <= Taken' /\ Taken <= ncap - 1
    BY <1>4, TakenKept DEF PoolInv, Taken
  <2>2. SUFFICES ASSUME NEW i \in Used'
                 PROVE  \E j \in 1 .. Taken' : i = j * PerBlock /\ 0 \in bmap'[j]
    BY DEF Placed
  <2>3. PICK j \in 1 .. Taken : i = j * PerBlock /\ 0 \in bmap[j]
    BY <1>6 DEF PoolInv, Placed
  <2>4. 0 \in bmap'[j]
    BY <1>4, <1>6, <1>11, <2>1, <2>3
  <2>5. QED
    BY <2>1, <2>3, <2>4
<1>13. Making'
  <2>1. CASE At' = At /\ making' = making
    <3>1. \A i \in chain' : i \in chain /\ nmap'[i] = nmap[i]
      BY <1>3, <1>4
    <3>2. At = "node" => 0 \in bmap'[ncap - 1]
      <4>1. SUFFICES ASSUME At = "node" PROVE 0 \in bmap'[ncap - 1]
        OBVIOUS
      <4>2. ncap - 1 \in 1 .. ncap - 1 /\ 0 \in bmap[ncap - 1] /\ ncap - 1 \in Nat
        BY <1>4, <4>1 DEF PoolInv, Making
      <4>3. (ncap - 1) * PerBlock \notin dead
        <5>1. SUFFICES ASSUME (ncap - 1) * PerBlock \in dead PROVE FALSE
          OBVIOUS
        <5>2. PICK k \in 1 .. Taken : (ncap - 1) * PerBlock = k * PerBlock
          BY <5>1 DEF PoolInv, Placed
        <5>3. k \in Nat /\ k < ncap - 1
          BY <1>4, <4>1 DEF Taken
        <5>4. QED
          BY <4>2, <5>2, <5>3, FirstsDiffer
      <4>4. QED
        BY <1>11, <4>2, <4>3
    <3>3. QED
      BY <2>1, <3>1, <3>2 DEF PoolInv, Making, InCall
  <2>2. CASE At' \notin Calls
    BY <2>2 DEF Making, InCall, Calls
  <2>3. QED
    BY <2>1, <2>2 DEF Beside
<1>14. Idle'
  <2>1. SUFFICES ASSUME NEW i \in Used'
                 PROVE  idle'[i] <= 1 /\ (i \in mark' \union Rooted' => idle'[i] = 0)
    BY DEF Idle
  <2>2. i \in Id /\ i \in Used /\ i \in mark \union Rooted /\ i \notin mark'
    BY <1>3, <1>6
  <2>3. idle[i] = 0
    BY <2>2 DEF PoolInv, Idle
  <2>4. QED
    BY <1>1, <1>3, <1>5, <2>2, <2>3
<1>15. QED
  BY <1>8, <1>9, <1>10, <1>12, <1>13, <1>14, RoomKept DEF PoolInv

\* What collect() does about strings after startStringGC.
LEMMA RestKeeps ==
  ASSUME PoolInv, Beside, NEW full, NEW ls, Rest(full, ls), UNCHANGED <<ncap, roots>>
  PROVE  PoolInv'
<1>1. CASE FinishStringGC(mark \union Rooted, ls)
  BY <1>1, FullKeeps
<1>2. CASE /\ \E M \in SUBSET Rooted : mark' = mark \union M
           /\ UNCHANGED <<nmap, chain, bmap, idle>>
  <2>1. mark' \subseteq mark \union Rooted
    BY <1>2
  <2>2. QED
    BY <1>2, <2>1, QuietKeeps
<1>3. QED
  BY <1>1, <1>2 DEF Rest

LEMMA RestLoans ==
  ASSUME NEW full, NEW ls \in LoanState, Rest(full, ls)
  PROVE  loans' \in LoanState /\ loans'.head = ls.head
<1>1. CASE \E D : loans' = Dangling(ls, D)
  BY <1>1, LoanTypes
<1>2. QED
  BY <1>1 DEF Rest, FinishStringGC

\* A collection that is over.
LEMMA ResumeBeside ==
  ASSUME TypeOK, pc # "lost", NEW next \in Points, next \notin Calls \/ next = At,
         Resume(next), loans' \in LoanState, cycle' \in 0 .. Interval - 1,
         cut' \in BOOLEAN
  PROVE  Beside
<1>1. NoString \in MakingType /\ 0 \in 0 .. MaxBlocks
  <2>1. 0 * PerBlock = 0 /\ 0 * PerBlock \in Id
    BY FirstOf, PoolAssumption
  <2>2. QED
    BY <2>1, PoolAssumption DEF NoString, MakingType
<1>2. /\ pc' = next /\ nmapCap' = (IF next = "lost" THEN 0 ELSE nmapCap)
      /\ making' = (IF next \in Calls THEN making ELSE NoString)
      /\ mayCollect' = FALSE /\ back' = "run" /\ isFullCycle' = FALSE
  BY DEF Resume, Calls
<1>3. At' = next
  BY <1>2 DEF At, Points
<1>4. (At' = At /\ making' = making) \/ (At' \notin Calls /\ making' \in MakingType)
  BY <1>1, <1>2, <1>3
<1>5. nmapCap' \in 0 .. MaxBlocks
  BY <1>1, <1>2 DEF TypeOK
<1>6. QED
  BY <1>2, <1>4, <1>5 DEF Beside, Points

LEMMA CollectTypes ==
  ASSUME PoolInv
  PROVE  /\ loans \in LoanState /\ making \in MakingType /\ NextCycle \in 0 .. Interval - 1
         /\ mayCollect \in BOOLEAN /\ isFullCycle \in BOOLEAN /\ cut \in BOOLEAN
         /\ back \in Points /\ nmapCap \in 0 .. MaxBlocks /\ cycle \in 0 .. Interval - 1
         /\ pc \in Points \union {"steal", "again", "aborted"}
<1>1. /\ loans \in LoanState /\ making \in MakingType /\ cycle \in 0 .. Interval - 1
      /\ mayCollect \in BOOLEAN /\ isFullCycle \in BOOLEAN /\ cut \in BOOLEAN
      /\ back \in Points /\ nmapCap \in 0 .. MaxBlocks
      /\ pc \in Points \union {"steal", "again", "aborted"}
  BY DEF PoolInv, TypeOK, LoanState, LoanRec, MakingType, Points
<1>2. NextCycle \in 0 .. Interval - 1
  BY <1>1, PoolAssumption DEF NextCycle
<1>3. QED
  BY <1>1, <1>2

\* collect(), whether it is partial, full, aborts or comes to a loaned text.
LEMMA CollectKeeps ==
  ASSUME PoolInv, NEW full, NEW next \in Points, next \notin Calls \/ next = pc,
         Collect(full, next), pc \in {"run", "nmap", "bmap", "node"}
  PROVE  PoolInv'
<1>1. UNCHANGED <<ncap, roots, cut>> /\ At = pc /\ pc # "lost" /\ TypeOK
  BY DEF Collect, At, PoolInv
<1>2. /\ loans \in LoanState /\ making \in MakingType /\ NextCycle \in 0 .. Interval - 1
      /\ mayCollect \in BOOLEAN /\ isFullCycle \in BOOLEAN /\ cut \in BOOLEAN
      /\ back \in Points /\ nmapCap \in 0 .. MaxBlocks /\ cycle \in 0 .. Interval - 1
  BY CollectTypes
<1>3. CASE Aborts(full)
  <2>1. /\ pc' = "aborted" /\ UNCHANGED <<nmap, chain, bmap, nmapCap, mark, cycle, idle,
                                         loans, making, mayCollect, back, isFullCycle>>
    BY <1>3 DEF Collect, gc
  <2>2. At' \notin Calls
    BY <2>1 DEF At, Calls
  <2>3. Beside
    BY <1>1, <1>2, <2>1, <2>2 DEF Beside
  <2>4. QED
    BY <1>1, <2>1, <2>3, QuietKeeps
<1>4. CASE ~Aborts(full) /\ IsFull(full) /\ loans.head # None
  <2>1. /\ pc' = "steal" /\ back' = next /\ cycle' = NextCycle
        /\ isFullCycle' = TRUE /\ mayCollect' = TRUE
        /\ UNCHANGED <<nmap, chain, bmap, nmapCap, mark, idle, loans, making>>
    BY <1>4 DEF Collect
  <2>2. At' = next
    BY <2>1 DEF At
  <2>3. Beside
    BY <1>1, <1>2, <1>4, <2>1, <2>2 DEF Beside
  <2>4. QED
    BY <1>1, <2>1, <2>3, QuietKeeps
<1>5. CASE ~Aborts(full) /\ ~(IsFull(full) /\ loans.head # None)
  <2>1. cycle' = NextCycle /\ Rest(IsFull(full), loans) /\ Resume(next)
    BY <1>5 DEF Collect
  <2>2. loans' \in LoanState
    BY <1>2, <2>1, RestLoans
  <2>3. cycle' \in 0 .. Interval - 1 /\ cut' \in BOOLEAN /\ (next \notin Calls \/ next = At)
    BY <1>1, <1>2, <2>1
  <2>4. Beside
    BY <1>1, <2>1, <2>2, <2>3, ResumeBeside
  <2>5. QED
    BY <1>1, <2>1, <2>4, RestKeeps
<1>6. QED
  BY <1>3, <1>4, <1>5

\* The copy of a loaned text.
LEMMA StealKeeps ==
  ASSUME PoolInv, Steal
  PROVE  PoolInv'
<1>1. /\ pc = "steal" /\ At = back /\ pc # "lost" /\ TypeOK
      /\ loans.head # None /\ Resume(back)
      /\ UNCHANGED <<cycle, ncap, roots>>
  BY DEF Steal, At, PoolInv, Room
<1>2. /\ loans \in LoanState /\ cycle \in 0 .. Interval - 1
      /\ back \in Points /\ cut \in BOOLEAN
  BY CollectTypes
<1>3. PICK ls : Rest(isFullCycle, ls) /\ ls = [Stolen(loans, loans.head) EXCEPT !.head = None]
  BY DEF Steal
<1>4. ls \in LoanState
  <2>1. loans.head \in Loan
    BY <1>1, <1>2 DEF LoanState
  <2>2. QED
    BY <1>2, <1>3, <2>1, LoanTypes
<1>5. loans' \in LoanState
  BY <1>3, <1>4, RestLoans
<1>6. cut' \in BOOLEAN /\ cycle' \in 0 .. Interval - 1
  BY <1>1, <1>2 DEF Steal
<1>7. Beside
  BY <1>1, <1>2, <1>5, <1>6, ResumeBeside
<1>8. QED
  BY <1>1, <1>3, <1>7, RestKeeps

LEMMA AgainKeeps ==
  ASSUME PoolInv, pc = "steal", Again, cycle' = NextCycle, cut' = TRUE,
         UNCHANGED <<ncap, roots>>
  PROVE  PoolInv'
<1>1. /\ pc' = "again"
      /\ UNCHANGED <<nmap, chain, bmap, nmapCap, mark, idle, loans, making, mayCollect,
                     back, isFullCycle>>
  BY DEF Again
<1>2. At' \notin Calls
  BY <1>1 DEF At, Calls
<1>3. Beside
  BY <1>1, <1>2, CollectTypes DEF Beside
<1>4. QED
  BY <1>1, <1>3, QuietKeeps

\* Its allocation collects or fails.
LEMMA StealCollectsKeeps ==
  ASSUME PoolInv, StealCollects \/ StealFails
  PROVE  PoolInv'
<1>1. /\ pc = "steal" /\ At = back /\ pc # "lost" /\ TypeOK
      /\ loans.head # None /\ cycle' = NextCycle /\ cut' = TRUE
      /\ UNCHANGED <<ncap, roots>>
  BY DEF StealCollects, StealFails, At, PoolInv, Room
<1>2. /\ loans \in LoanState /\ making \in MakingType /\ cycle' \in 0 .. Interval - 1
      /\ back \in Points /\ cut' \in BOOLEAN /\ nmapCap \in 0 .. MaxBlocks
  BY <1>1, CollectTypes
<1>3. CASE Again
  BY <1>1, <1>3, AgainKeeps
<1>4. CASE StealCollects /\ ~Again
  <2>1. /\ Rest(isFullCycle, loans) /\ mayCollect' = FALSE /\ isFullCycle' = FALSE
        /\ UNCHANGED <<pc, making, back, nmapCap>>
    BY <1>4 DEF StealCollects
  <2>2. loans' \in LoanState /\ loans'.head # None
    BY <1>1, <1>2, <2>1, RestLoans
  <2>3. At' = At
    BY <2>1 DEF At
  <2>4. Beside
    BY <1>1, <1>2, <2>1, <2>2, <2>3 DEF Beside
  <2>5. QED
    BY <1>1, <2>1, <2>4, RestKeeps
<1>5. CASE StealFails /\ ~Again
  <2>1. Rest(isFullCycle, loans) /\ Resume(Failing(back))
    BY <1>5 DEF StealFails
  <2>2. Failing(back) \in Points \ Calls
    BY DEF Failing, Points, Calls
  <2>3. loans' \in LoanState
    BY <1>2, <2>1, RestLoans
  <2>4. Beside
    BY <1>1, <1>2, <2>1, <2>2, <2>3, ResumeBeside
  <2>5. QED
    BY <1>1, <2>1, <2>4, RestKeeps
<1>6. QED
  BY <1>3, <1>4, <1>5

-------------------------------------------------------------------------------
(* What a call of tazE_makeStr keeps.                                      *)

LEMMA RootedGrows ==
  ASSUME NEW i, NEW t, roots' = roots \union {<<i, t>>}
  PROVE  Rooted' = Rooted \union {i}
<1>1. ASSUME NEW x \in Rooted' PROVE x \in Rooted \union {i}
  <2>1. PICK r \in roots' : x = r[1]
    BY DEF Rooted
  <2>2. r \in roots \/ r = <<i, t>>
    OBVIOUS
  <2>3. QED
    BY <2>1, <2>2 DEF Rooted
<1>2. ASSUME NEW x \in Rooted PROVE x \in Rooted'
  BY DEF Rooted
<1>3. i \in Rooted'
  <2>1. <<i, t>> \in roots' /\ <<i, t>>[1] = i
    OBVIOUS
  <2>2. QED
    BY <2>1 DEF Rooted
<1>4. QED
  BY <1>1, <1>2, <1>3

LEMMA FindKeeps ==
  ASSUME PoolInv, NEW t \in Text, Find(t)
  PROVE  PoolInv'
<1>1. PICK i \in chain : /\ nmap[i] = t
                         /\ roots' = roots \union {<<i, t>>}
                         /\ idle' = [idle EXCEPT ![i] = 0]
  BY DEF Find
<1>2. UNCHANGED <<nmap, chain, bmap, ncap, nmapCap, mark, cycle, loans, cut, pc, making,
                  mayCollect, back, isFullCycle>>
  BY DEF Find, pool, call, lent
<1>3. i \in Id /\ idle \in [Id -> 0 .. 2]
  BY DEF PoolInv, TypeOK
<1>4. Rooted' = Rooted \union {i} /\ Used' = Used /\ Used \subseteq Id
  <2>1. Rooted' = Rooted \union {i}
    BY <1>1, RootedGrows
  <2>2. QED
    BY <1>2, <2>1 DEF Used
<1>5. TypeOK'
  <2>1. idle' \in [Id -> 0 .. 2] /\ roots' \subseteq Id \X Text
    BY <1>1, <1>3 DEF PoolInv, TypeOK
  <2>2. QED
    BY <1>2, <2>1 DEF PoolInv, TypeOK
<1>6. Interned' /\ Making' /\ Placed'
  BY <1>2, <1>4 DEF PoolInv, Interned, Making, InCall, At, Placed, Taken
<1>7. Standing' /\ Room'
  BY <1>1, <1>2 DEF PoolInv, Standing, Room, At
<1>8. Idle'
  BY <1>1, <1>2, <1>3, <1>4 DEF PoolInv, Idle
<1>9. QED
  BY <1>5, <1>6, <1>7, <1>8 DEF PoolInv

LEMMA MakeKeeps ==
  ASSUME PoolInv, NEW t \in Text, Make(t)
  PROVE  PoolInv'
<1>1. /\ making' = [id |-> ncap * PerBlock, text |-> t] /\ pc' = "nmap"
      /\ pc = "run" /\ ncap < MaxBlocks /\ mayCollect' = TRUE
      /\ \A i \in chain : nmap[i] # t
      /\ UNCHANGED <<nmap, chain, bmap, ncap, nmapCap, mark, cycle, idle, roots, loans,
                     cut, back, isFullCycle>>
  BY NoFreeBits DEF Make, gc, lent
<1>2. ncap * PerBlock \in Id
  BY <1>1, FirstOf DEF PoolInv, TypeOK
<1>3. Rooted' = Rooted /\ Used' = Used
  BY <1>1 DEF Rooted, Used
<1>4. TypeOK'
  BY <1>1, <1>2 DEF PoolInv, TypeOK
<1>5. Interned' /\ Standing' /\ Idle' /\ Room'
  BY <1>1, <1>3 DEF PoolInv, Interned, Standing, Idle, Room, At
<1>6. Making'
  BY <1>1 DEF Making, InCall, At
<1>7. Placed'
  BY <1>1, <1>3 DEF PoolInv, Placed, Taken, At
<1>8. QED
  BY <1>4, <1>5, <1>6, <1>7 DEF PoolInv

LEMMA GrowNmapKeeps ==
  ASSUME PoolInv, GrowNmap
  PROVE  PoolInv'
<1>1. /\ pc = "nmap" /\ nmapCap' = ncap + 1 /\ pc' = "bmap" /\ mayCollect' = TRUE
      /\ UNCHANGED <<nmap, chain, bmap, ncap, mark, cycle, idle, roots, loans, cut, making,
                     back, isFullCycle>>
  BY DEF GrowNmap, gc, lent
<1>2. Rooted' = Rooted /\ Used' = Used
  BY <1>1 DEF Rooted, Used
<1>3. ncap \in 1 .. MaxBlocks /\ ncap < MaxBlocks /\ MaxBlocks \in Nat
  BY <1>1, PoolAssumption DEF PoolInv, TypeOK, Making, At
<1>4. TypeOK'
  BY <1>1, <1>3 DEF PoolInv, TypeOK
<1>5. Interned' /\ Standing' /\ Idle' /\ Making' /\ Placed'
  BY <1>1, <1>2 DEF PoolInv, Interned, Standing, Idle, Making, InCall, At, Calls, Placed,
     Taken
<1>6. Room'
  BY <1>1, <1>3 DEF Room, At
<1>7. QED
  BY <1>4, <1>5, <1>6 DEF PoolInv

LEMMA GrowBmapKeeps ==
  ASSUME PoolInv, GrowBmap
  PROVE  PoolInv'
<1>1. /\ pc = "bmap" /\ ncap' = ncap + 1 /\ pc' = "node" /\ mayCollect' = TRUE
      /\ bmap' = [bmap EXCEPT ![ncap] = {0}]
      /\ UNCHANGED <<nmap, chain, nmapCap, mark, cycle, idle, roots, loans, cut, making,
                     back, isFullCycle>>
  BY DEF GrowBmap, gc, lent, NewUnit
<1>2. Rooted' = Rooted /\ Used' = Used
  BY <1>1 DEF Rooted, Used
<1>3. /\ ncap \in 1 .. MaxBlocks /\ ncap < MaxBlocks /\ MaxBlocks \in Nat
      /\ making.id = ncap * PerBlock /\ bmap \in [Block -> SUBSET Bit]
      /\ nmapCap = ncap + 1
  BY <1>1, PoolAssumption DEF PoolInv, TypeOK, Making, Room, At
<1>4. ncap \in Block /\ 0 \in Bit
  BY <1>3, PoolAssumption DEF Block, Bit
<1>5. TypeOK'
  <2>1. bmap' \in [Block -> SUBSET Bit] /\ ncap' \in 1 .. MaxBlocks
    BY <1>1, <1>3, <1>4
  <2>2. QED
    BY <1>1, <2>1 DEF PoolInv, TypeOK
<1>6. Interned' /\ Standing' /\ Idle' /\ Room'
  BY <1>1, <1>2, <1>3 DEF PoolInv, Interned, Standing, Idle, Room, At
<1>7. Making'
  BY <1>1, <1>3, <1>4 DEF PoolInv, Making, InCall, At, Calls
<1>8. Placed'
  <2>1. Taken = ncap - 1 /\ Taken' = ncap - 1
    BY <1>1, <1>3 DEF Taken, At
  <2>2. \A j \in 1 .. ncap - 1 : bmap'[j] = bmap[j]
    BY <1>1, <1>3 DEF Block
  <2>3. QED
    BY <1>2, <2>1, <2>2 DEF PoolInv, Placed
<1>9. QED
  BY <1>5, <1>6, <1>7, <1>8 DEF PoolInv

\* No string has the id of the one that is made: its block is new.
LEMMA PlaceNodeKeeps ==
  ASSUME PoolInv, PlaceNode
  PROVE  PoolInv' /\ nmap[making.id] = None
<1> DEFINE new == making.id
           t == making.text
<1>1. /\ pc = "node" /\ pc' = "run" /\ making' = NoString /\ mayCollect' = FALSE
      /\ nmap' = [nmap EXCEPT ![new] = t]
      /\ chain' = IF t \in Medium THEN chain \union {new} ELSE chain
      /\ mark' = mark \ {new}
      /\ idle' = [idle EXCEPT ![new] = 0]
      /\ roots' = roots \union {<<new, t>>}
      /\ UNCHANGED <<bmap, ncap, nmapCap, cycle, loans, cut, back, isFullCycle>>
  BY DEF PlaceNode, lent
<1>2. /\ ncap \in 1 .. MaxBlocks /\ ncap >= 2 /\ ncap - 1 \in Nat /\ MaxBlocks \in Nat
      /\ new = (ncap - 1) * PerBlock /\ 0 \in bmap[ncap - 1]
      /\ t \in Text /\ \A i \in chain : nmap[i] # t
  BY <1>1, PoolAssumption DEF PoolInv, TypeOK, Making, InCall, At, Calls
<1>3. new \in Id /\ 0 \in Id
  <2>1. 0 * PerBlock = 0 /\ 0 * PerBlock \in Id
    BY FirstOf, PoolAssumption
  <2>2. QED
    BY <1>2, <2>1, FirstOf
<1>4. new \notin Used
  <2>1. SUFFICES ASSUME new \in Used PROVE FALSE
    OBVIOUS
  <2>2. PICK k \in 1 .. Taken : new = k * PerBlock
    BY <2>1 DEF PoolInv, Placed
  <2>3. k \in Nat /\ k < ncap - 1
    BY <1>1, <1>2 DEF Taken, At
  <2>4. QED
    BY <1>2, <2>2, <2>3, FirstsDiffer
<1>5. nmap[new] = None
  BY <1>3, <1>4 DEF Used
<1>6. /\ nmap \in [Id -> Text \union {None}] /\ chain \subseteq Id
      /\ idle \in [Id -> 0 .. 2] /\ roots \subseteq Id \X Text /\ mark \subseteq Id
  BY DEF PoolInv, TypeOK
<1> HIDE DEF new, t
<1>7. Used' = Used \union {new} /\ Rooted' = Rooted \union {new} /\ t # None
  <2>1. t \in Text /\ t # None
    BY <1>2, PoolAssumption DEF t
  <2>2. Used' = Used \union {new}
    BY <1>1, <1>3, <1>6, <2>1 DEF Used
  <2>3. Rooted' = Rooted \union {new}
    BY <1>1, RootedGrows
  <2>4. QED
    BY <2>1, <2>2, <2>3
<1>8. TypeOK'
  <2>1. t \in Text
    BY <1>2 DEF t
  <2>2. nmap' \in [Id -> Text \union {None}] /\ chain' \subseteq Id
    BY <1>1, <1>3, <1>6, <2>1
  <2>3. idle' \in [Id -> 0 .. 2] /\ roots' \subseteq Id \X Text /\ mark' \subseteq Id
    BY <1>1, <1>3, <1>6, <2>1
  <2>4. making' \in [id : Id, text : Text \union {None}]
    BY <1>1, <1>3 DEF NoString
  <2>5. QED
    BY <1>1, <2>2, <2>3, <2>4 DEF PoolInv, TypeOK
<1>9. Interned'
  <2>1. chain = {i \in Id : nmap[i] \in Medium} /\ new \notin chain
    BY <1>5, PoolAssumption DEF PoolInv, Interned, Text
  <2>2. chain' = {i \in Id : nmap'[i] \in Medium}
    BY <1>1, <1>3, <1>6, <2>1
  <2>3. \A i \in chain : nmap'[i] = nmap[i] /\ nmap'[i] # t
    BY <1>1, <1>2, <1>6, <2>1 DEF t
  <2>4. nmap'[new] = t
    BY <1>1, <1>3, <1>6
  <2>5. QED
    BY <1>1, <2>2, <2>3, <2>4 DEF PoolInv, Interned
<1>10. Standing'
  <2>1. \A r \in roots : nmap'[r[1]] = r[2]
    <3>1. SUFFICES ASSUME NEW r \in roots PROVE nmap'[r[1]] = r[2]
      OBVIOUS
    <3>2. r[1] \in Id /\ r[2] \in Text /\ nmap[r[1]] = r[2]
      BY <1>6 DEF PoolInv, Standing
    <3>3. r[1] # new
      BY <1>5, <3>2, PoolAssumption
    <3>4. QED
      BY <1>1, <1>6, <3>2, <3>3
  <2>2. nmap'[new] = t
    BY <1>1, <1>3, <1>6
  <2>3. QED
    BY <1>1, <2>1, <2>2 DEF Standing
<1>11. Making' /\ Room'
  BY <1>1 DEF PoolInv, Making, InCall, Calls, Room, At
<1>12. Placed'
  <2>1. Taken = ncap - 2 /\ Taken' = ncap - 1
    BY <1>1 DEF Taken, At
  <2>2. \A i \in Used : \E j \in 1 .. ncap - 1 : i = j * PerBlock /\ 0 \in bmap[j]
    BY <1>2, <2>1 DEF PoolInv, Placed
  <2>3. new = (ncap - 1) * PerBlock /\ 0 \in bmap[ncap - 1] /\ ncap - 1 \in 1 .. ncap - 1
    BY <1>2
  <2>4. QED
    BY <1>1, <1>7, <2>1, <2>2, <2>3 DEF Placed
<1>13. Idle'
  <2>1. \A i \in Used : idle'[i] = idle[i] /\ i # new
    BY <1>1, <1>4, <1>6
  <2>2. idle'[new] = 0
    BY <1>1, <1>3, <1>6
  <2>3. QED
    BY <1>1, <1>7, <2>1, <2>2 DEF PoolInv, Idle
<1>14. QED
  BY <1>5, <1>8, <1>9, <1>10, <1>11, <1>12, <1>13 DEF PoolInv, new

-------------------------------------------------------------------------------
(* The invariant.                                                          *)

LEMMA InitPool == Init => PoolInv
<1>1. SUFFICES ASSUME Init PROVE PoolInv
  OBVIOUS
<1>2. Used = {} /\ Rooted = {}
  BY <1>1 DEF Init, Used, Rooted
<1>3. 0 \in Id
  <2>1. 0 * PerBlock = 0 /\ 0 * PerBlock \in Id
    BY FirstOf, PoolAssumption
  <2>2. QED
    BY <2>1
<1>4. TypeOK
  <2>1. loans \in [head : Loan \union {None},
                   of : [Loan -> [from : {"none", "pool", "copy"}, id : Id,
                                  text : Text \union {None}, str : Text \union {None},
                                  next : Loan \union {None}, link : Loan \union {"head", None}]]]
    BY <1>1, <1>3 DEF Init, NoLoan
  <2>2. making \in [id : Id, text : Text \union {None}]
    BY <1>1, <1>3 DEF Init, NoString
  <2>3. QED
    <3>1. nmap \in [Id -> Text \union {None}] /\ bmap \in [Block -> SUBSET Bit]
      BY <1>1 DEF Init
    <3>2. idle \in [Id -> 0 .. 2]
      BY <1>1 DEF Init
    <3>3. ncap \in 1 .. MaxBlocks /\ nmapCap \in 0 .. MaxBlocks /\ cycle \in 0 .. Interval - 1
      BY <1>1, PoolAssumption DEF Init
    <3>4. /\ chain \subseteq Id /\ mark \subseteq Id /\ roots \subseteq Id \X Text
          /\ mayCollect \in BOOLEAN /\ cut \in BOOLEAN /\ isFullCycle \in BOOLEAN
          /\ back = "run"
      BY <1>1 DEF Init
    <3>5. pc = "run"
      BY <1>1 DEF Init
    <3>6. QED
      BY <2>1, <2>2, <3>1, <3>2, <3>3, <3>4, <3>5 DEF TypeOK
<1>5. Interned
  BY <1>1, PoolAssumption DEF Init, Interned, Text
<1>6. QED
  BY <1>1, <1>2, <1>4, <1>5 DEF PoolInv, Init, Standing, Room, Making, InCall, At, Calls,
     Placed, Idle

LEMMA NextPool == PoolInv /\ [Next]_vars => PoolInv'
<1>1. SUFFICES ASSUME PoolInv, [Next]_vars PROVE PoolInv'
  OBVIOUS
<1>2. /\ loans \in LoanState /\ making \in MakingType /\ cycle \in 0 .. Interval - 1
      /\ nmapCap \in 0 .. MaxBlocks /\ mayCollect \in BOOLEAN /\ cut \in BOOLEAN
      /\ back \in Points /\ isFullCycle \in BOOLEAN
      /\ pc \in Points \union {"steal", "again", "aborted"}
      /\ pc = "steal" => loans.head # None
  BY <1>1, CollectTypes DEF PoolInv, Room
<1>5. CASE UNCHANGED vars
  <2>1. UNCHANGED <<nmap, chain, bmap, ncap, nmapCap, mark, cycle, idle, roots, loans,
                    cut, pc, making, mayCollect, back, isFullCycle>>
    BY <1>5 DEF vars, pool, gc, call, lent
  <2>2. At' = At
    BY <2>1 DEF At
  <2>3. Beside
    BY <1>2, <2>1, <2>2 DEF Beside
  <2>4. QED
    BY <1>1, <2>1, <2>3, QuietKeeps
<1>6. CASE \E t \in Text : Find(t) \/ Make(t)
  BY <1>1, <1>6, FindKeeps, MakeKeeps
<1>7. CASE GrowNmap \/ GrowBmap \/ PlaceNode
  BY <1>1, <1>7, GrowNmapKeeps, GrowBmapKeeps, PlaceNodeKeeps
<1>8. CASE Fail
  <2>1. Collect(FALSE, Failing(pc)) /\ pc \in {"run", "nmap", "bmap", "node"}
    BY <1>8, PoolAssumption DEF Fail
  <2>2. Failing(pc) \in Points \ Calls
    BY DEF Failing, Points, Calls
  <2>3. QED
    BY <1>1, <2>1, <2>2, CollectKeeps
<1>9. CASE CollectInCall
  <2>1. Collect(FALSE, pc) /\ pc \in {"run", "nmap", "bmap", "node"} /\ pc \in Points
    BY <1>9 DEF CollectInCall, Points
  <2>2. QED
    BY <1>1, <2>1, CollectKeeps, Zenon
<1>10. CASE \E full \in BOOLEAN : CollectNow(full)
  <2>1. PICK full \in BOOLEAN : CollectNow(full)
    BY <1>10
  <2>2. Collect(full, "run") /\ pc = "run"
    BY <2>1 DEF CollectNow
  <2>3. "run" \in Points \ Calls
    BY DEF Points, Calls
  <2>4. QED
    BY <1>1, <2>2, <2>3, CollectKeeps
<1>14. CASE Steal \/ StealCollects \/ StealFails
  BY <1>1, <1>14, StealKeeps, StealCollectsKeeps
<1>11. CASE \E r \in roots : Unroot(r)
  <2>1. /\ roots' \subseteq roots
        /\ UNCHANGED <<nmap, chain, bmap, ncap, nmapCap, mark, cycle, idle, loans, cut,
                       pc, making, mayCollect, back, isFullCycle>>
    BY <1>11 DEF Unroot, pool, gc, call, lent
  <2>2. Rooted' \subseteq Rooted /\ Used' = Used
    BY <2>1 DEF Rooted, Used
  <2>3. TypeOK'
    BY <1>1, <2>1 DEF PoolInv, TypeOK
  <2>4. QED
    BY <1>1, <2>1, <2>2, <2>3 DEF PoolInv, Interned, Standing, Room, Making, InCall, At,
       Placed, Taken, Idle
<1>12. CASE \E l \in Loan : Return(l) \/ \E r \in roots : Borrow(l, r)
  <2>1. loans' \in LoanState
    <3>1. ASSUME NEW l \in Loan, Return(l) PROVE loans' \in LoanState
      <4> DEFINE ls == IF loans.of[l].link = None THEN loans ELSE Unlinked(loans, l)
      <4>1. ls \in LoanState
        BY <1>2, LoanTypes
      <4>2. [ls EXCEPT !.of[l] = NoLoan] \in LoanState
        BY <1>2, <4>1, LoanTypes, LoanSet
      <4>3. QED
        BY <3>1, <4>2 DEF Return
    <3>2. ASSUME NEW l \in Loan, NEW r \in roots, Borrow(l, r) PROVE loans' \in LoanState
      <4>1. r[1] \in Id /\ r[2] \in Text
        BY <1>1 DEF PoolInv, TypeOK
      <4>2. QED
        BY <1>2, <3>2, <4>1, LoanTypes DEF Borrow
    <3>3. QED
      BY <1>12, <3>1, <3>2
  <2>2. /\ pc = "run"
        /\ UNCHANGED <<nmap, chain, bmap, ncap, nmapCap, mark, cycle, idle, roots, cut,
                       pc, making, mayCollect, back, isFullCycle>>
    BY <1>12 DEF Return, Borrow, pool, gc, call
  <2>5. At' = At
    BY <2>2 DEF At
  <2>3. Beside
    BY <1>2, <2>1, <2>2, <2>5 DEF Beside
  <2>4. QED
    BY <1>1, <2>2, <2>3, QuietKeeps
<1>13. QED
  BY <1>1, <1>5, <1>6, <1>7, <1>8, <1>9, <1>10, <1>11, <1>12, <1>14 DEF Next

LEMMA PoolInvariant == Spec => []PoolInv
BY InitPool, NextPool, PTL DEF Spec

\* The variables of the pool keep their types, nGCCycles stays in its cycle.
THEOREM TypeCorrect == Spec => []TypeOK
<1>1. PoolInv => TypeOK
  BY DEF PoolInv
<1>2. QED
  BY <1>1, PoolInvariant, PTL

\* No two handles of medium strings have one text, and the chains lead to all
\* medium nodes and to no other, whatever each allocation collects.
THEOREM InternedHolds == Spec => []Interned
<1>1. PoolInv => Interned
  BY DEF PoolInv
<1>2. QED
  BY <1>1, PoolInvariant, PTL

\* A handle that is reachable stands for the string it was made from, and has
\* its slot in nmap, unless the second allocation of makeStrId has failed and
\* cost the pool its nmap: whatever else collects or fails.
THEOREM RootedAliveHolds == Spec => []RootedAlive
<1>1. PoolInv => RootedAlive
  <2>1. SUFFICES ASSUME PoolInv, pc # "lost", NEW r \in roots
                 PROVE  BlockOf(r[1]) < nmapCap /\ nmap[r[1]] = r[2]
    BY DEF RootedAlive
  <2>2. nmap[r[1]] = r[2] /\ r[1] \in Id /\ r[2] \in Text
    BY <2>1 DEF PoolInv, Standing, TypeOK
  <2>3. r[1] \in Used
    BY <2>2, PoolAssumption DEF Used
  <2>4. PICK j \in 1 .. Taken : r[1] = j * PerBlock
    BY <2>1, <2>3 DEF PoolInv, Placed
  <2>5. ncap \in Nat /\ nmapCap \in Nat /\ ncap <= nmapCap
    BY <2>1, PoolAssumption DEF PoolInv, TypeOK, Room
  <2>6. j \in Nat /\ j < ncap
    BY <2>5 DEF Taken
  <2>7. BlockOf(r[1]) = j
    BY <2>4, <2>6, FirstOf
  <2>8. QED
    BY <2>2, <2>5, <2>6, <2>7
<1>2. QED
  BY <1>1, PoolInvariant, PTL

\* No string survives two full collections in a row without being reachable.
THEOREM DiesSoonHolds == Spec => []DiesSoon
<1>1. PoolInv => DiesSoon
  BY DEF PoolInv, Idle, DiesSoon
<1>2. QED
  BY <1>1, PoolInvariant, PTL

-------------------------------------------------------------------------------
(* The list of the loans, a doubly linked list of the set P: nx leads to   *)
(* the next one and lk back, h is where it begins.                         *)

\* In the last conjunct: going back by lk leaves every set, and so comes to
\* the head.
Chain(P, h, nx, lk) ==
  /\ P \subseteq Loan /\ h \in P \union {None}
  /\ \A l \in P : nx[l] \in P \union {None} /\ lk[l] \in P \union {"head"}
  /\ \A l \in P : lk[l] = "head" <=> h = l
  /\ \A l, m \in P : lk[l] = m <=> nx[m] = l
  /\ \A S \in SUBSET P : S # {} => \E l \in S : lk[l] \notin S

\* None and "head" are no loans.
LEMMA NotLoans == None \notin Loan /\ "head" \notin Loan /\ None # "head"
BY PoolAssumption

LEMMA Pushed ==
  ASSUME NEW P, NEW h, NEW nx, NEW lk, Chain(P, h, nx, lk),
         NEW l \in Loan, l \notin P, NEW nx2, NEW lk2,
         nx2[l] = h, lk2[l] = "head",
         \A m \in P : nx2[m] = nx[m] /\ lk2[m] = IF m = h THEN l ELSE lk[m]
  PROVE  Chain(P \union {l}, l, nx2, lk2)
<1>1. None \notin Loan /\ "head" \notin Loan /\ P \subseteq Loan
  BY NotLoans DEF Chain
<1>2. ASSUME NEW m \in P \union {l}
      PROVE  /\ nx2[m] \in P \union {l, None} /\ lk2[m] \in P \union {l, "head"}
             /\ lk2[m] = "head" <=> l = m
  BY <1>1, <1>2 DEF Chain
<1>3. ASSUME NEW m \in P \union {l}, NEW k \in P \union {l}
      PROVE  lk2[m] = k <=> nx2[k] = m
  BY <1>1, <1>3 DEF Chain
<1>4. ASSUME NEW S \in SUBSET (P \union {l}), S # {}
      PROVE  \E m \in S : lk2[m] \notin S
  <2>1. CASE l \in S
    BY <1>1, <2>1
  <2>2. CASE l \notin S
    <3>1. PICK m \in S : lk[m] \notin S
      BY <1>4, <2>2 DEF Chain
    <3>2. QED
      BY <1>4, <2>2, <3>1
  <2>3. QED
    BY <2>1, <2>2
<1>5. QED
  BY <1>1, <1>2, <1>3, <1>4 DEF Chain

\* h2, nx2 and lk2 are h, nx and lk without l.
Without(P, h, nx, lk, l, h2, nx2, lk2) ==
  /\ h2 = IF lk[l] = "head" THEN nx[l] ELSE h
  /\ \A m \in P \ {l} : nx2[m] = IF lk[l] = m THEN nx[l] ELSE nx[m]
  /\ \A m \in P \ {l} : lk2[m] = IF nx[l] = m THEN lk[l] ELSE lk[m]

LEMMA Dropped ==
  ASSUME NEW P, NEW h, NEW nx, NEW lk, Chain(P, h, nx, lk),
         NEW l \in P, NEW h2, NEW nx2, NEW lk2, Without(P, h, nx, lk, l, h2, nx2, lk2)
  PROVE  Chain(P \ {l}, h2, nx2, lk2)
<1> /\ h2 = IF lk[l] = "head" THEN nx[l] ELSE h
    /\ \A m \in P \ {l} : nx2[m] = IF lk[l] = m THEN nx[l] ELSE nx[m]
    /\ \A m \in P \ {l} : lk2[m] = IF nx[l] = m THEN lk[l] ELSE lk[m]
  BY DEF Without
<1>1. None \notin Loan /\ "head" \notin Loan /\ P \subseteq Loan
  BY NotLoans DEF Chain
<1>2. /\ \A m \in P : nx[m] \in P \union {None} /\ lk[m] \in P \union {"head"}
      /\ \A m \in P : lk[m] = "head" <=> h = m
      /\ \A m, k \in P : lk[m] = k <=> nx[k] = m
      /\ h \in P \union {None}
  BY DEF Chain
<1>3. ASSUME NEW S \in SUBSET P, S # {} PROVE \E m \in S : lk[m] \notin S
  BY <1>3 DEF Chain
<1>4. lk[l] # l /\ nx[l] # l
  <2>1. lk[l] \notin {l}
    BY <1>3
  <2>2. QED
    BY <1>2, <2>1
<1>5. h2 \in (P \ {l}) \union {None}
  BY <1>1, <1>2, <1>4
<1>6. ASSUME NEW m \in P \ {l}
      PROVE  /\ nx2[m] \in (P \ {l}) \union {None} /\ lk2[m] \in (P \ {l}) \union {"head"}
             /\ lk2[m] = "head" <=> h2 = m
  <2>1. nx2[m] \in (P \ {l}) \union {None}
    BY <1>1, <1>2, <1>4, <1>6
  <2>2. lk2[m] \in (P \ {l}) \union {"head"}
    BY <1>1, <1>2, <1>4, <1>6
  <2>3. lk2[m] = "head" <=> h2 = m
    BY <1>1, <1>2, <1>4, <1>6
  <2>4. QED
    BY <2>1, <2>2, <2>3
<1>7. ASSUME NEW m \in P \ {l}, NEW k \in P \ {l}
      PROVE  lk2[m] = k <=> nx2[k] = m
  BY <1>1, <1>2, <1>4, <1>7
<1>8. ASSUME NEW S \in SUBSET (P \ {l}), S # {}
      PROVE  \E m \in S : lk2[m] \notin S
  <2>1. CASE lk[l] \in S
    <3>1. PICK m \in S \union {l} : lk[m] \notin S \union {l}
      BY <1>3, <1>8
    <3>2. m \in S /\ lk[m] # l
      BY <2>1, <3>1
    <3>3. nx[l] # m
      BY <1>2, <1>8, <3>2
    <3>4. lk2[m] = lk[m]
      BY <1>8, <3>2, <3>3
    <3>5. QED
      BY <3>1, <3>2, <3>4
  <2>2. CASE lk[l] \notin S
    <3>1. PICK m \in S : lk[m] \notin S
      BY <1>3, <1>8
    <3>2. lk2[m] = lk[l] \/ lk2[m] = lk[m]
      BY <1>8
    <3>3. QED
      BY <2>2, <3>1, <3>2
  <2>3. QED
    BY <2>1, <2>2
<1>9. QED
  BY <1>1, <1>5, <1>6, <1>7, <1>8 DEF Chain

\* What no link leads back from is in front, so that a list without a head is
\* empty, and one whose head has no next is the head.
LEMMA Ends ==
  ASSUME NEW P, NEW h, NEW nx, NEW lk, Chain(P, h, nx, lk)
  PROVE  /\ h = None => P = {}
         /\ h # None /\ nx[h] = None => P = {h}
<1>1. None \notin Loan /\ "head" \notin Loan /\ P \subseteq Loan
  BY NotLoans DEF Chain
<1>2. ASSUME h = None, P # {} PROVE FALSE
  <2>1. PICK l \in P : lk[l] \notin P
    BY <1>2 DEF Chain
  <2>2. QED
    BY <1>1, <1>2, <2>1 DEF Chain
<1>3. ASSUME h # None, nx[h] = None, P # {h} PROVE FALSE
  <2>1. h \in P /\ P \ {h} # {} /\ P \ {h} \in SUBSET P
    BY <1>3 DEF Chain
  <2>2. PICK l \in P \ {h} : lk[l] \notin P \ {h}
    BY <2>1 DEF Chain
  <2>3. lk[l] = "head" \/ lk[l] = h
    BY <2>2 DEF Chain
  <2>4. lk[l] # "head"
    BY <2>2 DEF Chain
  <2>5. nx[h] = l
    BY <2>1, <2>2, <2>3, <2>4 DEF Chain
  <2>6. QED
    BY <1>1, <1>3, <2>2, <2>5
<1>4. QED
  BY <1>2, <1>3

-------------------------------------------------------------------------------
(* The loans.                                                              *)

SetHead(ls, h) == [ls EXCEPT !.head = h]
SetRec(ls, l, r) == [ls EXCEPT !.of[l] = r]
SetNext(ls, l, n) == [ls EXCEPT !.of[l].next = n]
SetLink(ls, l, k) == [ls EXCEPT !.of[l].link = k]

\* What a loan says apart from the list.
Same(new, old) == new.from = old.from /\ new.text = old.text /\ new.str = old.str

LEMMA LoanGet ==
  ASSUME NEW ls \in LoanState, NEW l \in Loan
  PROVE  /\ \A h : SetHead(ls, h).head = h /\ SetHead(ls, h).of = ls.of
         /\ \A r : /\ SetRec(ls, l, r).head = ls.head /\ SetRec(ls, l, r).of[l] = r
                   /\ \A m \in Loan \ {l} : SetRec(ls, l, r).of[m] = ls.of[m]
         /\ \A n : /\ SetNext(ls, l, n).head = ls.head
                   /\ \A m \in Loan :
                        /\ Same(SetNext(ls, l, n).of[m], ls.of[m])
                        /\ SetNext(ls, l, n).of[m].link = ls.of[m].link
                        /\ SetNext(ls, l, n).of[m].next =
                             IF m = l THEN n ELSE ls.of[m].next
         /\ \A k : /\ SetLink(ls, l, k).head = ls.head
                   /\ \A m \in Loan :
                        /\ Same(SetLink(ls, l, k).of[m], ls.of[m])
                        /\ SetLink(ls, l, k).of[m].next = ls.of[m].next
                        /\ SetLink(ls, l, k).of[m].link =
                             IF m = l THEN k ELSE ls.of[m].link
<1>1. ls = [head |-> ls.head, of |-> ls.of] /\ ls.of \in [Loan -> LoanRec]
  BY DEF LoanState
<1>2. ASSUME NEW h PROVE SetHead(ls, h).head = h /\ SetHead(ls, h).of = ls.of
  BY <1>1 DEF SetHead
<1>3. ASSUME NEW r
      PROVE  /\ SetRec(ls, l, r).head = ls.head /\ SetRec(ls, l, r).of[l] = r
             /\ \A m \in Loan \ {l} : SetRec(ls, l, r).of[m] = ls.of[m]
  BY <1>1 DEF SetRec
<1>4. ASSUME NEW n
      PROVE  /\ SetNext(ls, l, n).head = ls.head
             /\ \A m \in Loan :
                  /\ Same(SetNext(ls, l, n).of[m], ls.of[m])
                  /\ SetNext(ls, l, n).of[m].link = ls.of[m].link
                  /\ SetNext(ls, l, n).of[m].next = IF m = l THEN n ELSE ls.of[m].next
  <2>1. ls.of[l] \in LoanRec
    BY <1>1
  <2>2. SetNext(ls, l, n).of = [ls.of EXCEPT ![l].next = n] /\ SetNext(ls, l, n).head = ls.head
    BY <1>1 DEF SetNext
  <2>3. QED
    BY <1>1, <2>1, <2>2 DEF Same, LoanRec
<1>5. ASSUME NEW k
      PROVE  /\ SetLink(ls, l, k).head = ls.head
             /\ \A m \in Loan :
                  /\ Same(SetLink(ls, l, k).of[m], ls.of[m])
                  /\ SetLink(ls, l, k).of[m].next = ls.of[m].next
                  /\ SetLink(ls, l, k).of[m].link = IF m = l THEN k ELSE ls.of[m].link
  <2>1. ls.of[l] \in LoanRec
    BY <1>1
  <2>2. SetLink(ls, l, k).of = [ls.of EXCEPT ![l].link = k] /\ SetLink(ls, l, k).head = ls.head
    BY <1>1 DEF SetLink
  <2>3. QED
    BY <1>1, <2>1, <2>2 DEF Same, LoanRec
<1>6. QED
  BY <1>2, <1>3, <1>4, <1>5

\* The loans after one is taken out of the list.
LEMMA UnlinkedIs ==
  ASSUME NEW ls \in LoanState, NEW l \in Loan,
         ls.of[l].link \in Loan \union {"head"}, ls.of[l].link # l, ls.of[l].next # l
  PROVE  LET u == Unlinked(ls, l)
         IN /\ u.head = IF ls.of[l].link = "head" THEN ls.of[l].next ELSE ls.head
            /\ \A m \in Loan : Same(u.of[m], ls.of[m])
            /\ \A m \in Loan \ {l} :
                 /\ u.of[m].next = IF ls.of[l].link = m THEN ls.of[l].next
                                   ELSE ls.of[m].next
                 /\ u.of[m].link = IF ls.of[l].next = m THEN ls.of[l].link
                                   ELSE ls.of[m].link
<1> DEFINE next == ls.of[l].next
           link == ls.of[l].link
           past == IF link = "head" THEN SetHead(ls, next) ELSE SetNext(ls, link, next)
           u == Unlinked(ls, l)
<1>1. u = IF next = None THEN past ELSE SetLink(past, next, link)
  BY DEF Unlinked, SetHead, SetNext, SetLink
<1>2. next \in Loan \union {None} /\ link \in Loan \union {"head"}
  BY DEF LoanState, LoanRec
<1>3. past \in LoanState
  <2>1. SetHead(ls, next) \in LoanState
    BY <1>2, LoanSet DEF SetHead
  <2>2. SetNext(ls, link, next) \in LoanState
    BY <1>2, LoanSet DEF SetNext
  <2>3. QED
    BY <2>1, <2>2
<1>4. /\ past.head = IF link = "head" THEN next ELSE ls.head
      /\ \A m \in Loan : /\ Same(past.of[m], ls.of[m]) /\ past.of[m].link = ls.of[m].link
                         /\ past.of[m].next = IF link = m THEN next ELSE ls.of[m].next
  <2>1. CASE link = "head"
    <3>1. past.head = next /\ past.of = ls.of
      BY <2>1, LoanGet
    <3>2. QED
      BY <2>1, <3>1, NotLoans DEF Same
  <2>2. CASE link # "head"
    <3>1. link \in Loan /\ past = SetNext(ls, link, next)
      BY <1>2, <2>2
    <3> HIDE DEF past
    <3>2. QED
      BY <2>2, <3>1, LoanGet
  <2>3. QED
    BY <2>1, <2>2
<1> HIDE DEF past
<1>5. CASE next = None
  BY <1>1, <1>4, <1>5, NotLoans
<1>6. CASE next # None
  <2>1. next \in Loan /\ u = SetLink(past, next, link)
    BY <1>1, <1>2, <1>6
  <2> HIDE DEF u
  <2>2. /\ u.head = past.head
        /\ \A m \in Loan : /\ Same(u.of[m], past.of[m])
                           /\ u.of[m].next = past.of[m].next
                           /\ u.of[m].link = IF m = next THEN link ELSE past.of[m].link
    BY <1>3, <2>1, LoanGet
  <2>3. QED
    BY <1>4, <2>2 DEF Same, u
<1>7. QED
  BY <1>5, <1>6

\* The loans after a new one is put in front.
LEMMA LinkedIs ==
  ASSUME NEW ls \in LoanState, NEW l \in Loan, NEW id \in Id, NEW text \in Text,
         ls.head # l
  PROVE  LET v == Linked(ls, l, id, text)
         IN /\ v.head = l
            /\ v.of[l].from = "pool" /\ v.of[l].text = text /\ v.of[l].str = text
            /\ v.of[l].next = ls.head /\ v.of[l].link = "head"
            /\ \A m \in Loan \ {l} :
                 /\ Same(v.of[m], ls.of[m]) /\ v.of[m].next = ls.of[m].next
                 /\ v.of[m].link = IF m = ls.head THEN l ELSE ls.of[m].link
<1> DEFINE r == [from |-> "pool", id |-> id, text |-> text, str |-> text,
                 next |-> ls.head, link |-> "head"]
           first == SetHead(ls, l)
           put == SetRec(first, l, r)
           v == Linked(ls, l, id, text)
<1>1. v = IF ls.head = None THEN put ELSE SetLink(put, ls.head, l)
  BY DEF Linked, SetHead, SetRec, SetLink
<1>2. ls.head \in Loan \union {None}
  BY DEF LoanState
<1>3. r \in LoanRec
  BY <1>2 DEF LoanRec
<1>4. r.from = "pool" /\ r.text = text /\ r.str = text /\ r.next = ls.head /\ r.link = "head"
  OBVIOUS
<1> HIDE DEF r
<1>5. first \in LoanState
  BY LoanSet DEF SetHead
<1>6. first.head = l /\ first.of = ls.of
  BY LoanGet
<1> HIDE DEF first
<1>7. put \in LoanState
  BY <1>3, <1>5, LoanSet DEF SetRec
<1>8. /\ put.head = l /\ put.of[l] = r
      /\ \A m \in Loan \ {l} : put.of[m] = ls.of[m]
  BY <1>5, <1>6, LoanGet
<1> HIDE DEF put
<1>9. CASE ls.head = None
  <2>1. v = put
    BY <1>1, <1>9
  <2> HIDE DEF v
  <2>2. QED
    BY <1>4, <1>8, <1>9, <2>1, NotLoans DEF Same, v
<1>10. CASE ls.head # None
  <2>1. ls.head \in Loan /\ v = SetLink(put, ls.head, l)
    BY <1>1, <1>2, <1>10
  <2> HIDE DEF v
  <2>2. /\ v.head = put.head
        /\ \A m \in Loan : /\ Same(v.of[m], put.of[m])
                           /\ v.of[m].next = put.of[m].next
                           /\ v.of[m].link = IF m = ls.head THEN l ELSE put.of[m].link
    BY <1>7, <2>1, LoanGet
  <2>3. QED
    BY <1>4, <1>8, <2>2 DEF Same, v
<1>11. QED
  BY <1>9, <1>10

-------------------------------------------------------------------------------
(* What a loan leads to.                                                   *)

Pooled(ls) == {l \in Loan : ls.of[l].from = "pool"}
Nexts(ls) == [l \in Loan |-> ls.of[l].next]
Links(ls) == [l \in Loan |-> ls.of[l].link]

Texts(ls) == \A l \in Loan : ls.of[l].from # "none" => ls.of[l].str = ls.of[l].text

\* The list has the loans of texts in the pool, all of them.
Sound(ls) ==
  /\ Texts(ls)
  /\ \A l \in Loan \ Pooled(ls) : ls.of[l].link = None
  /\ Chain(Pooled(ls), ls.head, Nexts(ls), Links(ls))

Lent == ~cut => Sound(loans)

\* Nothing that is freed is lent when the list is empty.
LEMMA DanglingNone ==
  ASSUME NEW ls \in LoanState, Pooled(ls) = {}, NEW D
  PROVE  Dangling(ls, D) = ls
<1>1. ls = [head |-> ls.head, of |-> ls.of] /\ ls.of \in [Loan -> LoanRec]
  BY DEF LoanState
<1>2. ASSUME NEW l \in Loan PROVE ls.of[l].from # "pool"
  BY DEF Pooled
<1>3. ASSUME NEW l \in Loan PROVE [ls.of[l] EXCEPT !.str = ls.of[l].str] = ls.of[l]
  <2>1. ls.of[l] \in LoanRec
    BY <1>1
  <2>2. QED
    BY <2>1 DEF LoanRec
<1> DEFINE f == [l \in Loan |->
                   [ls.of[l] EXCEPT !.str = IF ls.of[l].from = "pool" /\ ls.of[l].id \in D
                                            THEN None ELSE ls.of[l].str]]
<1>4. Dangling(ls, D) = [ls EXCEPT !.of = f]
  BY DEF Dangling
<1>5. f = ls.of
  <2>1. ASSUME NEW l \in Loan PROVE f[l] = ls.of[l]
    BY <1>2, <1>3
  <2>2. f = [l \in Loan |-> ls.of[l]]
    BY <2>1, Zenon
  <2> HIDE DEF f
  <2>3. QED
    BY <1>1, <2>2
<1> HIDE DEF f
<1>6. QED
  BY <1>1, <1>4, <1>5

LEMMA RestSound ==
  ASSUME NEW ls \in LoanState, Sound(ls), ls.head = None, NEW full, Rest(full, ls)
  PROVE  Sound(loans')
<1>1. Pooled(ls) = {}
  BY Ends DEF Sound
<1>2. loans' = ls \/ \E D : loans' = Dangling(ls, D)
  BY DEF Rest, FinishStringGC
<1>3. loans' = ls
  BY <1>1, <1>2, DanglingNone
<1>4. QED
  BY <1>3

LEMMA BorrowSound ==
  ASSUME NEW ls \in LoanState, Sound(ls), NEW l \in Loan, ls.of[l].from = "none",
         NEW id \in Id, NEW text \in Text
  PROVE  Sound(Linked(ls, l, id, text))
<1> DEFINE v == Linked(ls, l, id, text)
<1>1. l \notin Pooled(ls) /\ ls.head # l
  BY NotLoans DEF Sound, Chain, Pooled
<1>2. /\ v.head = l
      /\ v.of[l].from = "pool" /\ v.of[l].text = text /\ v.of[l].str = text
      /\ v.of[l].next = ls.head /\ v.of[l].link = "head"
      /\ \A m \in Loan \ {l} :
           /\ Same(v.of[m], ls.of[m]) /\ v.of[m].next = ls.of[m].next
           /\ v.of[m].link = IF m = ls.head THEN l ELSE ls.of[m].link
  BY <1>1, LinkedIs
<1> HIDE DEF v
<1>3. Pooled(v) = Pooled(ls) \union {l}
  BY <1>2 DEF Pooled, Same
<1>4. Texts(v)
  BY <1>2 DEF Sound, Texts, Same
<1>5. \A m \in Loan \ Pooled(v) : v.of[m].link = None
  <2>1. ASSUME NEW m \in Loan \ Pooled(v) PROVE v.of[m].link = None
    <3>1. m # l /\ m \notin Pooled(ls)
      BY <1>3
    <3>2. m # ls.head
      BY <3>1, NotLoans DEF Sound, Chain
    <3>3. QED
      BY <1>2, <3>1, <3>2 DEF Sound
  <2>2. QED
    BY <2>1
<1>6. Chain(Pooled(v), v.head, Nexts(v), Links(v))
  <2>1. /\ Nexts(v)[l] = ls.head /\ Links(v)[l] = "head"
        /\ \A m \in Pooled(ls) :
             /\ Nexts(v)[m] = Nexts(ls)[m]
             /\ Links(v)[m] = IF m = ls.head THEN l ELSE Links(ls)[m]
    BY <1>1, <1>2 DEF Nexts, Links, Pooled
  <2>2. Chain(Pooled(ls), ls.head, Nexts(ls), Links(ls))
    BY DEF Sound
  <2>3. QED
    BY <1>1, <1>2, <1>3, <2>1, <2>2, Pushed
<1>7. Sound(v)
  BY <1>4, <1>5, <1>6 DEF Sound
<1>8. QED
  BY <1>7 DEF v

\* A loan is taken out of the list, and what it says changes.
LEMMA OutSound ==
  ASSUME NEW ls \in LoanState, Sound(ls), NEW l \in Pooled(ls),
         NEW w, w.head = Unlinked(ls, l).head,
         \A m \in Loan \ {l} : w.of[m] = Unlinked(ls, l).of[m],
         w.of[l].from # "pool", w.of[l].link = None,
         w.of[l].from # "none" => w.of[l].str = w.of[l].text
  PROVE  Sound(w)
<1>1. /\ l \in Loan /\ ls.of[l].link \in Loan \union {"head"}
      /\ ls.of[l].link # l /\ ls.of[l].next # l
  <2>1. l \in Loan /\ Chain(Pooled(ls), ls.head, Nexts(ls), Links(ls))
    BY DEF Sound, Pooled
  <2>2. Links(ls)[l] = ls.of[l].link /\ Nexts(ls)[l] = ls.of[l].next
    BY <2>1 DEF Links, Nexts
  <2>3. Links(ls)[l] \notin {l}
    BY <2>1 DEF Chain
  <2>4. Nexts(ls)[l] # l
    BY <2>1, <2>3 DEF Chain
  <2>5. Links(ls)[l] \in Loan \union {"head"}
    BY <2>1 DEF Chain
  <2>6. QED
    BY <2>1, <2>2, <2>3, <2>4, <2>5
<1>2. /\ w.head = IF ls.of[l].link = "head" THEN ls.of[l].next ELSE ls.head
      /\ \A m \in Loan \ {l} :
           /\ Same(w.of[m], ls.of[m])
           /\ w.of[m].next = IF ls.of[l].link = m THEN ls.of[l].next ELSE ls.of[m].next
           /\ w.of[m].link = IF ls.of[l].next = m THEN ls.of[l].link ELSE ls.of[m].link
  BY <1>1, UnlinkedIs
<1>3. Pooled(w) = Pooled(ls) \ {l}
  BY <1>1, <1>2 DEF Pooled, Same
<1>4. Texts(w)
  BY <1>2 DEF Sound, Texts, Same
<1>5. Chain(Pooled(ls), ls.head, Nexts(ls), Links(ls))
  BY DEF Sound
<1>6. \A m \in Loan \ Pooled(w) : w.of[m].link = None
  <2>1. ASSUME NEW m \in Loan \ Pooled(w), m # l PROVE w.of[m].link = None
    <3>1. m \notin Pooled(ls)
      BY <1>3, <2>1
    <3>2. Nexts(ls)[l] \in Pooled(ls) \union {None} /\ Nexts(ls)[l] = ls.of[l].next
      BY <1>1, <1>5 DEF Chain, Nexts
    <3>3. ls.of[l].next # m
      BY <3>1, <3>2, NotLoans
    <3>4. QED
      BY <1>2, <2>1, <3>1, <3>3 DEF Sound
  <2>2. QED
    BY <2>1
<1>7. Chain(Pooled(w), w.head, Nexts(w), Links(w))
  <2>1. w.head = IF Links(ls)[l] = "head" THEN Nexts(ls)[l] ELSE ls.head
    BY <1>1, <1>2 DEF Links, Nexts
  <2>2. \A m \in Pooled(ls) \ {l} :
          /\ Nexts(w)[m] = IF Links(ls)[l] = m THEN Nexts(ls)[l] ELSE Nexts(ls)[m]
          /\ Links(w)[m] = IF Nexts(ls)[l] = m THEN Links(ls)[l] ELSE Links(ls)[m]
    BY <1>1, <1>2 DEF Links, Nexts, Pooled
  <2>3. Chain(Pooled(ls) \ {l}, w.head, Nexts(w), Links(w))
    <3>1. Without(Pooled(ls), ls.head, Nexts(ls), Links(ls), l, w.head, Nexts(w), Links(w))
      BY <2>1, <2>2 DEF Without
    <3>2. QED
      BY <1>5, <3>1, Dropped, Zenon
  <2>4. QED
    BY <1>3, <2>3
<1>8. QED
  BY <1>4, <1>6, <1>7 DEF Sound

LEMMA ReturnSound ==
  ASSUME NEW ls \in LoanState, Sound(ls), NEW l \in Loan
  PROVE  Sound(SetRec(IF ls.of[l].link = None THEN ls ELSE Unlinked(ls, l), l, NoLoan))
<1>1. NoLoan.from = "none" /\ NoLoan.link = None
  BY DEF NoLoan
<1>2. CASE ls.of[l].link = None
  <2>1. l \notin Pooled(ls)
    <3>1. Links(ls)[l] = None
      BY <1>2 DEF Links
    <3>2. \A m \in Pooled(ls) : Links(ls)[m] \in Loan \union {"head"}
      BY DEF Sound, Chain
    <3>3. QED
      BY <3>1, <3>2, NotLoans
  <2> DEFINE w == SetRec(ls, l, NoLoan)
  <2>2. w.head = ls.head /\ w.of[l] = NoLoan /\ \A m \in Loan \ {l} : w.of[m] = ls.of[m]
    BY LoanGet
  <2> HIDE DEF w
  <2>3. Pooled(w) = Pooled(ls)
    BY <1>1, <2>1, <2>2 DEF Pooled
  <2>4. Texts(w) /\ \A m \in Loan \ Pooled(w) : w.of[m].link = None
    BY <1>1, <2>2, <2>3 DEF Sound, Texts
  <2>5. Nexts(w) = [Nexts(ls) EXCEPT ![l] = None] /\ Links(w) = Links(ls)
    <3>1. NoLoan.next = None
      BY DEF NoLoan
    <3>2. QED
      BY <1>1, <1>2, <2>2, <3>1 DEF Nexts, Links
  <2>6. Chain(Pooled(w), w.head, Nexts(w), Links(w))
    <3>1. \A m \in Pooled(ls) : Nexts(w)[m] = Nexts(ls)[m]
      BY <2>1, <2>5 DEF Nexts, Pooled
    <3>2. Chain(Pooled(ls), ls.head, Nexts(ls), Links(ls))
      BY DEF Sound
    <3>3. QED
      BY <2>2, <2>3, <2>5, <3>1, <3>2 DEF Chain
  <2>7. Sound(w)
    BY <2>4, <2>6 DEF Sound
  <2>8. QED
    BY <1>2, <2>7 DEF w
<1>3. CASE ls.of[l].link # None
  <2>1. l \in Pooled(ls)
    BY <1>3 DEF Sound
  <2> DEFINE u == Unlinked(ls, l)
             w == SetRec(u, l, NoLoan)
  <2>2. u \in LoanState
    BY LoanTypes
  <2>3. w.head = u.head /\ w.of[l] = NoLoan /\ \A m \in Loan \ {l} : w.of[m] = u.of[m]
    BY <2>2, LoanGet
  <2> HIDE DEF w
  <2>4. Sound(w)
    BY <1>1, <2>1, <2>3, OutSound
  <2>5. QED
    BY <1>3, <2>4 DEF w
<1>4. QED
  BY <1>2, <1>3

\* The only loan is stolen.
LEMMA StolenSound ==
  ASSUME NEW ls \in LoanState, Sound(ls), ls.head # None, ls.of[ls.head].next = None
  PROVE  Sound([Stolen(ls, ls.head) EXCEPT !.head = None])
<1> DEFINE l == ls.head
<1>1. l \in Loan /\ l \in Pooled(ls)
  BY DEF Sound, Chain
<1>2. ls.of[l].link = "head" /\ ls.of[l].next = None
  <2>1. Links(ls)[l] = "head"
    BY <1>1 DEF Sound, Chain
  <2>2. QED
    BY <1>1, <2>1 DEF Links
<1> HIDE DEF l
<1> DEFINE u == Unlinked(ls, l)
           v == [u EXCEPT !.of[l].from = "copy"]
           w == SetLink(SetNext(v, l, None), l, None)
           z == SetHead(w, None)
<1>3. u \in LoanState
  BY <1>1, LoanTypes
<1>4. u.head = None /\ \A m \in Loan : Same(u.of[m], ls.of[m])
  BY <1>1, <1>2, NotLoans, UnlinkedIs
<1>5. v \in LoanState
  BY <1>3, LoanSet
<1>6. /\ v.head = u.head /\ v.of[l].from = "copy"
      /\ v.of[l].str = u.of[l].str /\ v.of[l].text = u.of[l].text
      /\ \A m \in Loan \ {l} : v.of[m] = u.of[m]
  <2> HIDE DEF u
  <2>1. u.of[l] \in LoanRec /\ u.of \in [Loan -> LoanRec]
    BY <1>1, <1>3 DEF LoanState
  <2>2. v.of = [u.of EXCEPT ![l].from = "copy"] /\ v.head = u.head
    BY <1>3 DEF LoanState
  <2>3. QED
    BY <1>1, <2>1, <2>2 DEF LoanRec
<1> HIDE DEF u, v
<1>7. SetNext(v, l, None) \in LoanState
  BY <1>5, LoanSet DEF SetNext
<1>8. w \in LoanState
  BY <1>7, LoanSet DEF SetLink
<1>9. /\ w.head = v.head /\ w.of[l].link = None
      /\ \A m \in Loan : Same(w.of[m], v.of[m])
      /\ \A m \in Loan \ {l} : w.of[m].next = v.of[m].next /\ w.of[m].link = v.of[m].link
  BY <1>1, <1>5, <1>7, LoanGet DEF Same
<1> HIDE DEF w
<1>10. z.head = w.head /\ z.of = w.of
  BY <1>1, <1>4, <1>6, <1>8, <1>9, LoanGet
<1> HIDE DEF z
<1>11. Pooled(ls) = {l}
  <2>1. Chain(Pooled(ls), ls.head, Nexts(ls), Links(ls)) /\ Nexts(ls)[l] = None
    BY <1>1, <1>2 DEF Sound, Nexts
  <2>2. QED
    BY <2>1, Ends DEF l
<1>12. Pooled(z) = {}
  BY <1>4, <1>6, <1>9, <1>10, <1>11 DEF Pooled, Same
<1>13. Texts(z)
  BY <1>1, <1>4, <1>6, <1>9, <1>10 DEF Texts, Same, Sound, Pooled
<1>14. \A m \in Loan \ Pooled(z) : z.of[m].link = None
  <2>1. ASSUME NEW m \in Loan \ {l} PROVE z.of[m].link = None
    <3>1. u.of[m].link = ls.of[m].link
      BY <1>1, <1>2, NotLoans, UnlinkedIs DEF u
    <3>2. QED
      BY <1>6, <1>9, <1>10, <1>11, <3>1 DEF Sound
  <2>2. QED
    BY <1>9, <1>10, <2>1
<1>15. Chain(Pooled(z), z.head, Nexts(z), Links(z))
  BY <1>4, <1>6, <1>9, <1>10, <1>12 DEF Chain
<1>16. Sound(z)
  BY <1>13, <1>14, <1>15 DEF Sound
<1>17. z = [Stolen(ls, ls.head) EXCEPT !.head = None]
  BY DEF z, w, v, u, l, Stolen, SetHead, SetNext, SetLink
<1>18. QED
  BY <1>16, <1>17

\* The text of a loan stays what it was until the loan is returned, also when
\* the string dies meanwhile, for every set of loans and every order in which
\* they are borrowed, returned and collected under: as long as no full
\* collection has met a list of more than one loan, and no copy it made has
\* itself collected or failed.
THEOREM LoansIntactHolds == Spec => []LoansIntact
<1>1. Init => Lent
  <2>1. SUFFICES ASSUME Init PROVE Sound(loans)
    BY DEF Lent
  <2>2. loans.head = None /\ \A l \in Loan : loans.of[l] = NoLoan
    BY <2>1 DEF Init
  <2>3. Pooled(loans) = {} /\ Texts(loans) /\ \A l \in Loan : loans.of[l].link = None
    BY <2>2 DEF Pooled, Texts, NoLoan
  <2>4. QED
    BY <2>2, <2>3 DEF Sound, Chain
<1>2. PoolInv /\ Lent /\ [Next]_vars => Lent'
  <2>1. SUFFICES ASSUME PoolInv, Lent, [Next]_vars, ~cut' PROVE Sound(loans')
    BY DEF Lent
  <2>2. loans \in LoanState
    BY <2>1, CollectTypes DEF PoolInv
  <2>3. CASE UNCHANGED lent
    BY <2>1, <2>3 DEF lent, Lent
  <2>4. ASSUME NEW full, NEW next, Collect(full, next) PROVE Sound(loans')
    <3>1. Sound(loans)
      BY <2>1, <2>4 DEF Lent, Collect
    <3>2. CASE loans' = loans
      BY <3>1, <3>2
    <3>3. CASE Rest(IsFull(full), loans) /\ loans.head = None
      BY <2>2, <3>1, <3>3, RestSound
    <3>4. CASE Rest(IsFull(full), loans) /\ ~IsFull(full)
      BY <3>1, <3>4 DEF Rest
    <3>5. QED
      BY <2>4, <3>2, <3>3, <3>4 DEF Collect
  <2>5. CASE Fail \/ CollectInCall \/ \E full \in BOOLEAN : CollectNow(full)
    BY <2>4, <2>5 DEF Fail, CollectInCall, CollectNow
  <2>6. CASE Steal
    <3> DEFINE l == loans.head
    <3>1. Sound(loans) /\ loans.of[l].next = None /\ l # None
      BY <2>1, <2>6 DEF Lent, Steal, PoolInv, Room
    <3> DEFINE ls == [Stolen(loans, l) EXCEPT !.head = None]
    <3>2. Sound(ls)
      BY <2>2, <3>1, StolenSound
    <3>3. ls \in LoanState
      BY <2>2, <3>1, LoanTypes DEF LoanState
    <3>4. ls.head = None
      <4>1. Stolen(loans, l) \in LoanState \/ Stolen(loans, l).head = Stolen(loans, l).head
        OBVIOUS
      <4>2. QED
        BY <3>3 DEF LoanState
    <3>5. Rest(isFullCycle, ls)
      BY <2>6 DEF Steal
    <3> HIDE DEF ls
    <3>6. QED
      BY <3>2, <3>3, <3>4, <3>5, RestSound
  <2>7. CASE StealCollects \/ StealFails
    BY <2>1, <2>7 DEF StealCollects, StealFails
  <2>8. CASE \E l \in Loan : Return(l)
    <3>1. PICK l \in Loan : Return(l)
      BY <2>8
    <3>2. Sound(loans)
      BY <2>1, <3>1 DEF Lent, Return
    <3>3. loans' = SetRec(IF loans.of[l].link = None THEN loans ELSE Unlinked(loans, l),
                          l, NoLoan)
      BY <3>1 DEF Return, SetRec
    <3>4. QED
      BY <2>2, <3>2, <3>3, ReturnSound
  <2>9. CASE \E l \in Loan : \E r \in roots : Borrow(l, r)
    <3>1. PICK l \in Loan, r \in roots : Borrow(l, r)
      BY <2>9
    <3>2. Sound(loans) /\ loans.of[l].from = "none"
      BY <2>1, <3>1 DEF Lent, Borrow
    <3>3. r[1] \in Id /\ r[2] \in Text
      BY <2>1 DEF PoolInv, TypeOK
    <3>4. loans' = Linked(loans, l, r[1], r[2])
      BY <3>1 DEF Borrow
    <3>5. QED
      BY <2>2, <3>2, <3>3, <3>4, BorrowSound
  <2>10. QED
    <3>1. CASE UNCHANGED vars
      BY <2>3, <3>1 DEF vars
    <3>2. CASE Next
      <4>1. ASSUME \E t \in Text : Find(t) \/ Make(t) PROVE UNCHANGED lent
        BY <4>1 DEF Find, Make
      <4>2. ASSUME GrowNmap \/ GrowBmap \/ PlaceNode \/ \E r \in roots : Unroot(r)
            PROVE  UNCHANGED lent
        BY <4>2 DEF GrowNmap, GrowBmap, PlaceNode, Unroot
      <4>3. QED
        BY <2>3, <2>5, <2>6, <2>7, <2>8, <2>9, <3>2, <4>1, <4>2 DEF Next
    <3>3. QED
      BY <2>1, <3>1, <3>2
<1>3. Lent => LoansIntact
  BY DEF Lent, Sound, Texts, LoansIntact
<1>4. QED
  BY <1>1, <1>2, <1>3, PoolInvariant, PTL DEF Spec
================================================================================
