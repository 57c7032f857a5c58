------------------------------ MODULE StringPool ------------------------------
(***************************************************************************)
(* The string pool of taz_engine.c: the medium strings, which are interned *)
(* in hash chains, the long strings, the ids that name both in nmap, the   *)
(* bitmap of the ids in use, the marks that only a full collection acts    *)
(* on, and the loans of a string's text to the running code.  Short        *)
(* strings live in their handle and have no state.                         *)
(*                                                                         *)
(* A handle is its id.  The hash chains are one set of ids, a text is a    *)
(* model value, and whether an allocation collects, fails or just succeeds *)
(* is left open at each of the three allocations that make a string, and   *)
(* at the one with which a collection copies a loaned text.                *)
(***************************************************************************)
EXTENDS Integers, FiniteSets, FiniteSetsExt

CONSTANTS
  Medium, Long,     \* texts of 6 to 16 bytes, and longer ones
  None,             \* a null pointer
  PerBlock,         \* slots of a StrNodeBlock: sizeof(unsigned)
  NBits,            \* bits of a unit of the bitmap: 8 * sizeof(unsigned)
  Interval,         \* taz_CONFIG_GC_FULL_CYCLE_INTERVAL
  Loan,             \* the taz_StrLoan structures of the running code
  Debug,            \* whether the build evaluates assert()
  Fails,            \* the allocations that may fail
  MaxBlocks         \* bound: blocks of slots that may be allocated

Text == Medium \union Long
Bit == 0 .. NBits - 1
Block == 0 .. MaxBlocks - 1
Id == 0 .. MaxBlocks * PerBlock + NBits

ASSUME PoolAssumption ==
  /\ PerBlock \in Nat \ {0} /\ NBits \in Nat \ {0} /\ PerBlock <= NBits
  /\ Interval \in Nat \ {0} /\ MaxBlocks \in Nat \ {0} /\ Debug \in BOOLEAN
  /\ Fails \subseteq {"nmap", "bmap", "node", "steal"}
  /\ Medium \cap Long = {} /\ None \notin Text \union Loan \union {"head"}
  /\ "head" \notin Loan

VARIABLES
  nmap,             \* StrPool.nmap: id -> the text of its node, or None
  chain,            \* the ids in the hash chains
  bmap,             \* StrPool.bmap: block -> the bits that are set
  ncap, nmapCap,    \* StrPool.ncap, and what nmap really has room for
  mark,             \* the ids whose node is marked
  cycle,            \* nGCCycles % Interval
  roots,            \* the <<id, text>> the running code keeps reachable
  idle,             \* id -> full collections since it was reachable (history)
  loans,            \* EngineFull.loans, and the loan structures
  cut,              \* startStringGC has dropped a loan, or the allocation of
                    \* its copy has collected or failed (history)
  pc, making,       \* where a call is, and the string it makes
  mayCollect,       \* whether the allocation at hand may still collect
  back,             \* where the collection under way goes on
  isFullCycle       \* EngineFull.isFullCycle, while a text is copied

pool == <<nmap, chain, bmap, ncap, nmapCap>>
gc == <<mark, cycle, idle>>
lent == <<loans, cut>>
call == <<pc, making, mayCollect, back, isFullCycle>>
vars == <<pool, gc, roots, lent, call>>

-------------------------------------------------------------------------------
\* A loan of the string `text'.  `str' is what its pointer leads to by now.
NoLoan == [from |-> "none", id |-> 0, text |-> None, str |-> None,
           next |-> None, link |-> None]
NoString == [id |-> 0, text |-> None]

BlockOf(id) == id \div PerBlock
BitOf(id) == id % PerBlock
Used == {i \in Id : nmap[i] # None}
Rooted == {r[1] : r \in roots}

Init ==
  /\ nmap = [i \in Id |-> None] /\ chain = {}
  /\ bmap = [k \in Block |-> {}] /\ ncap = 1 /\ nmapCap = 1
  /\ mark = {} /\ cycle = 0 /\ idle = [i \in Id |-> 0]
  /\ roots = {}
  /\ loans = [head |-> None, of |-> [l \in Loan |-> NoLoan]] /\ cut = FALSE
  /\ pc = "run" /\ making = NoString /\ mayCollect = FALSE
  /\ back = "run" /\ isFullCycle = FALSE

-------------------------------------------------------------------------------
(* Loans: a list through `next' with a `link' back to whatever points at   *)
(* the loan, "head" being EngineFull.loans.                                *)

\* tazR_unlinkWithNextAndLink.
Unlinked(ls, l) ==
  LET next == ls.of[l].next
      link == ls.of[l].link
      past == IF link = "head" THEN [ls EXCEPT !.head = next]
              ELSE [ls EXCEPT !.of[link].next = next]
  IN IF next = None THEN past ELSE [past EXCEPT !.of[next].link = link]

\* tazR_linkWithNextAndLink, for a loan of the text at `id'.
Linked(ls, l, id, text) ==
  LET next == ls.head
      put == [ls EXCEPT !.head = l,
                !.of[l] = [from |-> "pool", id |-> id, text |-> text,
                           str |-> text, next |-> next, link |-> "head"]]
  IN IF next = None THEN put ELSE [put EXCEPT !.of[next].link = l]

\* tazE_stealStr, once it has the memory.
\* The definitions named Mut... are faulty forms of the ones they precede:
\* each breaks the property that its comment names.
\* (Faulty: it copies nothing.  LoansIntact)
MutStolen(ls, l) == ls
Stolen(ls, l) ==
  [Unlinked(ls, l) EXCEPT !.of[l].from = "copy", !.of[l].next = None,
                          !.of[l].link = None]

\* The loans of strings that are freed point to freed memory.
Dangling(ls, dead) ==
  [ls EXCEPT !.of = [l \in Loan |->
     [ls.of[l] EXCEPT !.str = IF ls.of[l].from = "pool" /\ ls.of[l].id \in dead
                              THEN None ELSE @]]]

-------------------------------------------------------------------------------
(* collect(), as far as strings go.                                        *)

\* finishStringGC does not look at the blocks after the last one with a bit
\* set.
Scanned == {i \in Used : \E k \in Block : k >= BlockOf(i) /\ bmap[k] # {}}

\* The marks after it.  (Faulty: as before.  DiesSoon)
MutMarkAfter(marked) == marked
MarkAfter(marked) == marked \ Scanned

\* The chains after it: collectNode unlinks a medium node.  (Faulty: it does
\* not.  Interned)
MutChainWithout(dead) == chain
ChainWithout(dead) == chain \ dead

\* finishStringGC and collectNode.
FinishStringGC(marked, ls) ==
  LET dead == Scanned \ marked
  IN /\ nmap' = [i \in Id |-> IF i \in dead THEN None ELSE nmap[i]]
     /\ chain' = ChainWithout(dead)
     /\ bmap' = [k \in Block |->
                   bmap[k] \ {BitOf(i) : i \in {d \in dead : BlockOf(d) = k}}]
     /\ mark' = MarkAfter(marked)
     /\ idle' = [i \in Id |-> IF i \in Rooted THEN 0 ELSE Min({idle[i] + 1, 2})]
     /\ loans' = Dangling(ls, dead)

\* What collect() does about strings after startStringGC.  A partial
\* collection leaves out the strings of code objects and never clears a mark.
Rest(full, ls) ==
  \/ full /\ FinishStringGC(mark \union Rooted, ls)
  \/ /\ ~full
     /\ \E M \in SUBSET Rooted : mark' = mark \union M
     /\ loans' = ls
     /\ UNCHANGED <<nmap, chain, bmap, idle>>

IsFull(full) == cycle = 0 \/ full

\* The assertion of reallocMem that nothing is allocated during a collection
\* fails when startStringGC copies a loaned string.
Aborts(full) == Debug /\ IsFull(full) /\ loans.head # None

\* nGCCycles counts up.  (Faulty: modulo nothing.  TypeOK)
MutNextCycle == cycle + 1
NextCycle == (cycle + 1) % Interval

\* collect() returns to a caller that goes on at `next': "lost" is a call that
\* ends in an error which gives back nmap, reallocated and not committed yet.
Resume(next) ==
  /\ pc' = next
  /\ nmapCap' = IF next = "lost" THEN 0 ELSE nmapCap
  /\ making' = IF next \in {"nmap", "bmap", "node"} THEN making ELSE NoString
  /\ mayCollect' = FALSE /\ back' = "run" /\ isFullCycle' = FALSE

\* Where a call ends whose allocation fails at p: in taz_ErrNum_MEMORY.
Failing(p) == IF p \in {"bmap", "lost"} THEN "lost" ELSE "run"

\* collect(), up to the allocation that copies a loaned text if there is one.
Collect(full, next) ==
  /\ IF Aborts(full)
     THEN /\ pc' = "aborted"
          /\ UNCHANGED <<nmap, chain, bmap, nmapCap, gc, loans, making,
                         mayCollect, back, isFullCycle>>
     ELSE /\ cycle' = NextCycle
          /\ IF IsFull(full) /\ loans.head # None
             THEN /\ pc' = "steal" /\ back' = next
                  /\ isFullCycle' = TRUE /\ mayCollect' = TRUE
                  /\ UNCHANGED <<nmap, chain, bmap, nmapCap, mark, idle, loans,
                                 making>>
             ELSE Rest(IsFull(full), loans) /\ Resume(next)
  /\ UNCHANGED <<ncap, roots, cut>>

\* tazE_stealStr has its memory, copies, and clears the `next' of the loan,
\* which ends the loop of startStringGC; the collection runs to its end.
Steal ==
  /\ pc = "steal"
  /\ LET l == loans.head
     IN /\ Rest(isFullCycle, [Stolen(loans, l) EXCEPT !.head = None])
        /\ cut' = (cut \/ loans.of[l].next # None)
  /\ Resume(back)
  /\ UNCHANGED <<cycle, ncap, roots>>

\* The collection inside a collection is full by its number: startStringGC
\* begins again on the list it is working on, and so on inside.  Where that
\* ends, the outer copy writes through the link that the inner one cleared.
Again ==
  /\ cycle = 0
  /\ pc' = "again"
  /\ UNCHANGED <<nmap, chain, bmap, nmapCap, mark, idle, loans, making,
                 mayCollect, back, isFullCycle>>

\* The memory for the copy goes over memLimit: the inner collection finds
\* isFullCycle set, finishes the strings and clears it.
StealCollects ==
  /\ pc = "steal" /\ mayCollect
  /\ cycle' = NextCycle /\ cut' = TRUE
  /\ \/ Again
     \/ /\ cycle # 0
        /\ Rest(isFullCycle, loans)
        /\ mayCollect' = FALSE /\ isFullCycle' = FALSE
        /\ UNCHANGED <<pc, making, back, nmapCap>>
  /\ UNCHANGED <<ncap, roots>>

\* It is refused: the same, then the error, which leaves the loans linked.
StealFails ==
  /\ pc = "steal" /\ "steal" \in Fails
  /\ cycle' = NextCycle /\ cut' = TRUE
  /\ \/ Again
     \/ /\ cycle # 0
        /\ Rest(isFullCycle, loans)
        /\ Resume(Failing(back))
  /\ UNCHANGED <<ncap, roots>>

\* tazE_collect.
CollectNow(full) ==
  /\ pc = "run"
  /\ Collect(full, "run")

\* An allocation that would go over memLimit.
CollectInCall ==
  /\ pc \in {"nmap", "bmap", "node"} /\ mayCollect
  /\ Collect(FALSE, pc)

\* An allocation that fails: the call ends, after a collection.
Fail ==
  /\ pc \in Fails \ {"steal"}
  /\ Collect(FALSE, Failing(pc))

-------------------------------------------------------------------------------
(* tazE_makeStr.                                                           *)

\* The bits that makeStrId's search comes to: the test that skips a unit
\* skips those that are not full.  (Faulty: it skips none, and takes the bits
\* beyond the slots of the block as well.  RootedAlive)
MutFreeBits == {f \in (0 .. ncap - 1) \X Bit : f[2] \notin bmap[f[1]]}
FreeBits ==
  {f \in (0 .. ncap - 1) \X Bit : bmap[f[1]] = Bit /\ f[2] \notin bmap[f[1]]}

\* makeMediumStr finds the text in its chain.
Find(t) ==
  /\ pc = "run"
  /\ t \in Medium
  /\ \E i \in chain :
       /\ nmap[i] = t
       /\ roots' = roots \union {<<i, t>>}
       /\ idle' = [idle EXCEPT ![i] = 0]
  /\ UNCHANGED <<pool, mark, cycle, lent, call>>

\* makeMediumStr that does not find it, or makeLongStr, up to the first
\* allocation: makeStrId takes a bit or has to grow the pool.
Make(t) ==
  /\ pc = "run" /\ ncap < MaxBlocks
  /\ \A i \in chain : nmap[i] # t
  /\ mayCollect' = TRUE
  /\ IF FreeBits = {}
     THEN /\ making' = [id |-> ncap * PerBlock, text |-> t]
          /\ pc' = "nmap"
          /\ UNCHANGED bmap
     ELSE LET k == Min({f[1] : f \in FreeBits})
              b == Min({f[2] : f \in {g \in FreeBits : g[1] = k}})
          IN /\ making' = [id |-> k * PerBlock + b, text |-> t]
             /\ pc' = "node"
             /\ bmap' = [bmap EXCEPT ![k] = @ \union {b}]
  /\ UNCHANGED <<nmap, chain, ncap, nmapCap, gc, roots, lent, back, isFullCycle>>

\* nmap has its new capacity: it is on the barrier's list of anchors now, and
\* the running pool points to it already.
GrowNmap ==
  /\ pc = "nmap"
  /\ nmapCap' = ncap + 1
  /\ pc' = "bmap" /\ mayCollect' = TRUE
  /\ UNCHANGED <<nmap, chain, bmap, ncap, gc, roots, lent, making, back,
                 isFullCycle>>

\* The new unit of the bitmap.
NewUnit == {0}

\* bmap, too: the new block is empty but for the new id, and both are
\* committed.
GrowBmap ==
  /\ pc = "bmap"
  /\ ncap' = ncap + 1
  /\ bmap' = [bmap EXCEPT ![ncap] = NewUnit]
  /\ pc' = "node" /\ mayCollect' = TRUE
  /\ UNCHANGED <<nmap, chain, nmapCap, gc, roots, lent, making, back,
                 isFullCycle>>

\* The node is filled in and linked; the running code gets the handle.
PlaceNode ==
  /\ pc = "node"
  /\ nmap' = [nmap EXCEPT ![making.id] = making.text]
  /\ chain' = IF making.text \in Medium THEN chain \union {making.id} ELSE chain
  /\ mark' = mark \ {making.id}
  /\ idle' = [idle EXCEPT ![making.id] = 0]
  /\ roots' = roots \union {<<making.id, making.text>>}
  /\ pc' = "run" /\ making' = NoString /\ mayCollect' = FALSE
  /\ UNCHANGED <<bmap, ncap, nmapCap, cycle, lent, back, isFullCycle>>

-------------------------------------------------------------------------------
(* The running code.                                                       *)

\* The last bucket or object that leads to the string lets go of it.
Unroot(r) ==
  /\ pc = "run"
  /\ r \in roots
  /\ roots' = roots \ {r}
  /\ UNCHANGED <<pool, gc, lent, call>>

\* tazE_borrowStr of a medium or a long string.
Borrow(l, r) ==
  /\ pc = "run"
  /\ loans.of[l].from = "none" /\ r \in roots
  /\ loans' = Linked(loans, l, r[1], r[2])
  /\ UNCHANGED <<pool, gc, roots, cut, call>>

\* tazE_returnStr.
Return(l) ==
  /\ pc = "run"
  /\ loans.of[l].from # "none"
  /\ loans' = [(IF loans.of[l].link = None THEN loans ELSE Unlinked(loans, l))
                 EXCEPT !.of[l] = NoLoan]
  /\ UNCHANGED <<pool, gc, roots, cut, call>>

Next ==
  \/ \E t \in Text : Find(t) \/ Make(t)
  \/ GrowNmap \/ GrowBmap \/ PlaceNode \/ Fail
  \/ CollectInCall \/ Steal \/ StealCollects \/ StealFails
  \/ \E full \in BOOLEAN : CollectNow(full)
  \/ \E r \in roots : Unroot(r)
  \/ \E l \in Loan : Return(l) \/ \E r \in roots : Borrow(l, r)

Spec == Init /\ [][Next]_vars

-------------------------------------------------------------------------------
TypeOK ==
  /\ nmap \in [Id -> Text \union {None}] /\ chain \subseteq Id
  /\ bmap \in [Block -> SUBSET Bit]
  /\ ncap \in 1 .. MaxBlocks /\ nmapCap \in 0 .. MaxBlocks
  /\ mark \subseteq Id /\ cycle \in 0 .. Interval - 1
  /\ idle \in [Id -> 0 .. 2]
  /\ roots \subseteq Id \X Text
  /\ loans \in [head : Loan \union {None},
                of : [Loan -> [from : {"none", "pool", "copy"}, id : Id,
                               text : Text \union {None}, str : Text \union {None},
                               next : Loan \union {None},
                               link : Loan \union {"head", None}]]]
  /\ cut \in BOOLEAN
  /\ pc \in {"run", "nmap", "bmap", "node", "steal", "lost", "again", "aborted"}
  /\ making \in [id : Id, text : Text \union {None}] /\ mayCollect \in BOOLEAN
  /\ back \in {"run", "nmap", "bmap", "node", "lost"} /\ isFullCycle \in BOOLEAN

\* tazE_strEqual compares medium strings by their handles: two nodes in the
\* chains never have one text, and the chains lead to every medium node and
\* to no node that was freed, though each of the three allocations between
\* the search and the insertion may collect.
Interned ==
  /\ chain = {i \in Id : nmap[i] \in Medium}
  /\ \A i, j \in chain : nmap[i] = nmap[j] => i = j

\* A handle that the running code keeps reachable stands for the string it
\* was made from: its slot is in nmap, its node is not freed and the slot not
\* used again.  The failure of makeStrId's second allocation ends that
\* (`lost'): it takes nmap from the pool.
RootedAlive ==
  pc # "lost" => \A r \in roots : BlockOf(r[1]) < nmapCap /\ nmap[r[1]] = r[2]

\* A mark is only cleared by a full collection, so that one left by a partial
\* collection saves a dead string once, but not twice.
DiesSoon == \A i \in Used : idle[i] <= 1

\* Whatever is borrowed, returned and collected in which order, the text of a
\* loan stays what it was until the loan is returned, also when the string
\* dies meanwhile: as long as no full collection has met a list of more than
\* one loan, and no copy it made has itself collected or failed.
LoansIntact ==
  ~cut => \A l \in Loan : loans.of[l].from # "none" =>
                            loans.of[l].str = loans.of[l].text

\* "Copy out all the loaned strings.": so it does whatever happens.
AllLoansIntact ==
  \A l \in Loan : loans.of[l].from # "none" => loans.of[l].str = loans.of[l].text

\* assert( !eng->isGCRunning || nsz == 0 ) in reallocMem.
NeverAborts == pc # "aborted"

\* "It'll always have the same capacity as nmap": between two calls bmap
\* covers the slots of nmap.
SameCapacity == pc \in {"run", "lost"} => nmapCap = ncap

\* "Couldn't find a place for the new string, so grow the pool.": the pool
\* only grows when every slot of every block is taken.
GrowsWhenFull ==
  [][ncap' # ncap => \A k \in 0 .. ncap - 1 : 0 .. PerBlock - 1 \subseteq bmap[k]]_vars
================================================================================
