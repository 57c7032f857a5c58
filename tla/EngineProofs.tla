------------------------------ MODULE EngineProofs ------------------------------
(***************************************************************************)
(* The engine keeps memUsed within memLimit, so that no free re-enters the *)
(* collector, keeps everything that the barriers' buckets and its own      *)
(* pointers lead to, and has one owner for every block that is allocated,  *)
(* apart from the ones that are being grown: for every set of blocks,      *)
(* every set of request sizes and every depth of the barrier stack.        *)
(***************************************************************************)
EXTENDS Engine, SequenceTheorems, FiniteSetTheorems, TLAPS

\* The parts of the actions that have a name of their own are always expanded.
USE DEF ToClear, Left, WithoutRaw, Unreached, AtCall, Stays, anchorVars, usedVars

-------------------------------------------------------------------------------
(* Reach is the least closed set of objects that holds the roots. *)

\* The roots can be reached.
LEMMA ReachRoots ==
  ASSUME NEW objs, NEW from \in SUBSET objs, NEW to
  PROVE  from \subseteq Reach(objs, from, to)
BY DEF Reach

\* What a reachable object refers to can be reached.
LEMMA ReachClosed ==
  ASSUME NEW objs, NEW from, NEW to \in [objs -> SUBSET objs]
  PROVE  Closed(Reach(objs, from, to), to)
<1>1. SUFFICES ASSUME NEW o \in Reach(objs, from, to), NEW p \in to[o],
                      NEW S \in SUBSET objs, from \subseteq S, Closed(S, to)
               PROVE  p \in S
  BY DEF Closed, Reach
<1>2. o \in S
  BY <1>1 DEF Reach
<1>3. QED
  BY <1>1, <1>2 DEF Closed

\* Nothing else can: a closed set that holds the roots holds all of it.
LEMMA ReachLeast ==
  ASSUME NEW objs, NEW from, NEW to, NEW S \in SUBSET objs, from \subseteq S, Closed(S, to)
  PROVE  Reach(objs, from, to) \subseteq S
BY DEF Reach

\* Reach names objects only.
LEMMA ReachType ==
  ASSUME NEW objs, NEW from, NEW to
  PROVE  Reach(objs, from, to) \subseteq objs
BY DEF Reach

-------------------------------------------------------------------------------
(* The stack of barriers.                                                  *)

\* A barrier can replace the newest one, and the newest can be taken off.
LEMMA StackFacts ==
  ASSUME barriers \in Seq(Barrier), barriers # <<>>
  PROVE  /\ Top \in Barrier
         /\ \A bar \in Barrier : SetTop(bar) \in Seq(Barrier)
         /\ Below \in Seq(Barrier)
<1>1. Len(barriers) \in 1 .. Len(barriers) /\ Len(barriers) \in Nat \ {0}
  OBVIOUS
<1>2. Top \in Barrier
  BY <1>1 DEF Top
<1>3. \A bar \in Barrier : SetTop(bar) \in Seq(Barrier)
  BY <1>1 DEF SetTop
<1>4. Below \in Seq(Barrier)
  <2>1. \A i \in 1 .. Len(barriers) - 1 : barriers[i] \in Barrier
    BY <1>1
  <2>2. QED
    BY <1>1, <2>1, SubSeqProperties DEF Below
<1>5. QED
  BY <1>2, <1>3, <1>4

\* The operators that the actions share keep the types.
LEMMA HelperTypes ==
  ASSUME TypeOK
  PROVE  /\ Reached \subseteq Block
         /\ \A b \in Block : size[b] \in Nat
         /\ \A r \in Request : r.nsz \in Nat /\ OldSize(r) \in Nat
<1>1. Reached \subseteq Block
  BY ReachType DEF Reached
<1>2. \A n \in Size \union {0} : n \in Nat
  BY SizeAssumption
<1>3. \A b \in Block : size[b] \in Size \union {0}
  BY DEF TypeOK
<1>4. \A b \in Block : size[b] \in Nat
  BY <1>2, <1>3
<1>5. \A r \in Request : r.nsz \in Nat /\ OldSize(r) \in Nat
  <2>1. SUFFICES ASSUME NEW r \in Request
                 PROVE  r.nsz \in Nat /\ OldSize(r) \in Nat
    OBVIOUS
  <2>2. r.nsz \in Size \union {0} /\ r.block \in Block \union {None}
    BY DEF Request
  <2>3. CASE r.block = None
    BY <1>2, <2>2, <2>3 DEF OldSize
  <2>4. CASE r.block \in Block
    BY <1>2, <1>4, <2>2, <2>4 DEF OldSize
  <2>5. QED
    BY <2>2, <2>3, <2>4
<1>6. QED
  BY <1>1, <1>4, <1>5

\* adjustHeap adds what was asked for, and more.
LEMMA Grows ==
  ASSUME NEW a \in Nat, NEW n \in Nat
  PROVE  /\ ((a + n) * 3) \div 2 \in Nat
         /\ a + n <= ((a + n) * 3) \div 2
OBVIOUS

-------------------------------------------------------------------------------
\* Type correctness.  A request is only pending while there is a barrier for
\* what it allocates.

InAlloc ==
  pc = "alloc" \/ (pc \in {"sweep", "strings"} /\ after \in {"alloc", "fail"})

Pending ==
  /\ InAlloc =>
       /\ barriers # <<>>
       /\ \/ req.kind = "grow" /\ req.block \in Block
          \/ req.kind \in {"obj", "raw"} /\ req.block = None
  /\ pc \in {"run", "alloc"} => after = "run"
  /\ pc = "strings" => after \in {"alloc", "run", "fail"}

LEMMA InitType == Init => TypeOK
BY LimitAssumption DEF Init, TypeOK, NoReq, Request

\* A collection, a clear or a teardown under way.
LEMMA InsideType == TypeOK /\ Pending /\ Inside => TypeOK'
<1>1. SUFFICES ASSUME TypeOK, Pending, Inside PROVE TypeOK'
  OBVIOUS
<1> USE <1>1
<1>2. \A b \in Block : size[b] \in Nat
  BY HelperTypes
<1>3. ASSUME NEW b \in Block, Destruct(b) PROVE TypeOK'
  <2>1. buf[b] \in Block \union {None}
    BY DEF TypeOK
  <2>2. CASE buf[b] = None
    BY <1>3, <2>2 DEF Destruct, Freed, TypeOK
  <2>3. CASE buf[b] # None
    BY <1>2, <1>3, <2>1, <2>3 DEF Destruct, Freed, TypeOK
  <2>4. QED
    BY <2>2, <2>3
<1>4. ASSUME NEW b \in Block, Release(b) PROVE TypeOK'
  <2>1. PICK x \in Extra : Freed(b, size[b] + x) /\ excess' = excess + x
    BY <1>4 DEF Release
  <2>2. x \in Nat /\ size[b] \in Nat
    BY <1>2, ExcessAssumption
  <2>3. size' \in [Block -> Size \union {0}] /\ memUsed' \in Int /\ excess' \in Nat
    BY <2>1, <2>2 DEF Freed, TypeOK
  <2>4. refs' \in [Block -> SUBSET Block]
    BY <1>4 DEF Release, TypeOK
  <2>5. QED
    BY <1>4, <2>3, <2>4 DEF Release, TypeOK
<1>15. ASSUME NEW b \in Block, FreeDead(b) PROVE TypeOK'
  <2>1. size' \in [Block -> Size \union {0}] /\ memUsed' \in Int
    BY <1>2, <1>15 DEF FreeDead, Freed, TypeOK
  <2>2. QED
    BY <1>15, <2>1 DEF FreeDead, TypeOK, gcVars
<1>5. ASSUME NEW b \in Block, ClearOne(b) PROVE TypeOK'
  <2>1. refs' \in [Block -> SUBSET Block] /\ buf' \in [Block -> Block \union {None}]
    BY <1>5 DEF ClearOne, TypeOK
  <2>2. size' \in [Block -> Size \union {0}] /\ memUsed' \in Int
    BY <1>2, <1>5 DEF ClearOne, Freed, TypeOK
  <2>3. QED
    BY <1>5, <2>1, <2>2 DEF ClearOne, TypeOK, gcVars
<1>6. ASSUME NEW b \in Block, Allocated(b) PROVE TypeOK'
  <2>1. req.nsz \in Size \union {0} /\ req.nsz \in Nat
    BY HelperTypes DEF TypeOK, Request
  <2>2. barriers' \in Seq(Barrier) /\ grown' \subseteq Block
    <3>1. barriers # <<>> /\ Top \in Barrier
      BY <1>6, StackFacts DEF Allocated, TypeOK, Pending, InAlloc
    <3>2. /\ [Top EXCEPT !.objs = @ \union {b}] \in Barrier
          /\ [Top EXCEPT !.raws = @ \union {b}] \in Barrier
      BY <3>1 DEF Barrier
    <3>3. QED
      BY <1>6, <3>1, <3>2, StackFacts DEF Allocated, TypeOK
  <2>3. NoReq \in Request
    BY DEF NoReq, Request
  <2>4. QED
    BY <1>2, <1>6, <2>1, <2>2, <2>3 DEF Allocated, TypeOK, heapVars, gcVars
<1>16. CASE Adjust
  BY <1>16, Grows DEF Adjust, AdjustHeap, TypeOK, heapVars
<1>7. CASE EndCollect
  BY <1>7 DEF EndCollect, TypeOK, heapVars, gcVars
<1>8. CASE EndCollectFailed
  <2>1. Top \in Barrier /\ Below \in Seq(Barrier)
    BY <1>8, StackFacts DEF EndCollectFailed, Interrupt, TypeOK
  <2>2. Tentative(Top) \subseteq Block
    BY <2>1 DEF Barrier, Tentative
  <2>3. NoReq \in Request
    BY DEF NoReq, Request
  <2>4. QED
    BY <1>8, <2>1, <2>2, <2>3
    DEF EndCollectFailed, Interrupt, TypeOK, heapVars, gcVars
<1>9. CASE EndClear
  BY <1>9 DEF EndClear, TypeOK, heapVars, gcVars
<1>10. CASE AllocFailed
  <2>1. req.nsz \in Nat
    BY HelperTypes DEF TypeOK
  <2>2. QED
    BY <1>10, <2>1 DEF AllocFailed, StartCollect, TypeOK
<1>11. CASE FreeObjects
  BY <1>11 DEF FreeObjects, TypeOK
<1>12. CASE FreeBarriers
  <2>1. Top \in Barrier /\ Below \in Seq(Barrier)
    BY <1>12, StackFacts DEF FreeBarriers, TypeOK
  <2>2. Tentative(Top) \subseteq Block
    BY <2>1 DEF Barrier, Tentative
  <2>3. QED
    BY <1>12, <2>1, <2>2 DEF FreeBarriers, TypeOK, heapVars, gcVars
<1>13. CASE FreeSelf
  BY <1>13, LimitAssumption DEF FreeSelf, TypeOK, gcVars
<1>14. QED
  BY <1>3, <1>4, <1>5, <1>6, <1>7, <1>8, <1>9, <1>10, <1>11, <1>12, <1>13,
     <1>15, <1>16
  DEF Inside

\* What an update of some fields of a barrier makes of it.
LEMMA Updates ==
  ASSUME NEW t \in Barrier, NEW R, NEW q
  PROVE  /\ [t EXCEPT !.buckets = q] = [objs |-> t.objs, raws |-> t.raws, buckets |-> q]
         /\ [t EXCEPT !.raws = R]
              = [objs |-> t.objs, raws |-> R, buckets |-> t.buckets]
<1>1. [t EXCEPT !.buckets = q] = [objs |-> t.objs, raws |-> t.raws, buckets |-> q]
  BY DEF Barrier
<1>2. [t EXCEPT !.raws = R] = [objs |-> t.objs, raws |-> R, buckets |-> t.buckets]
  BY DEF Barrier
<1>3. QED
  BY <1>1, <1>2

\* A barrier with some anchors taken off is still a barrier.
LEMMA TopTypes ==
  ASSUME TypeOK, barriers # <<>>
  PROVE  /\ Top \in Barrier /\ Below \in Seq(Barrier)
         /\ Tentative(Top) \subseteq Block
         /\ \A O, R \in SUBSET Block, q \in Seq(SUBSET Block) :
              SetTop([objs |-> O, raws |-> R, buckets |-> q]) \in Seq(Barrier)
         /\ Top.objs \in SUBSET Block /\ Top.raws \in SUBSET Block
         /\ Top.buckets \in Seq(SUBSET Block)
         /\ Top = [objs |-> Top.objs, raws |-> Top.raws, buckets |-> Top.buckets]
<1>1. /\ Top \in Barrier /\ Below \in Seq(Barrier)
      /\ \A bar \in Barrier : SetTop(bar) \in Seq(Barrier)
  BY StackFacts DEF TypeOK
<1>2. \A O, R \in SUBSET Block, q \in Seq(SUBSET Block) :
        [objs |-> O, raws |-> R, buckets |-> q] \in Barrier
  BY DEF Barrier
<1>3. /\ Top.objs \in SUBSET Block /\ Top.raws \in SUBSET Block
      /\ Top.buckets \in Seq(SUBSET Block)
      /\ Top = [objs |-> Top.objs, raws |-> Top.raws, buckets |-> Top.buckets]
  BY <1>1 DEF Barrier
<1>4. QED
  BY <1>1, <1>2, <1>3 DEF Tentative

\* The calls of the running code.
LEMMA ClientType == TypeOK /\ Client => TypeOK'
<1>1. SUFFICES ASSUME TypeOK, Client PROVE TypeOK'
  OBVIOUS
<1> USE <1>1
<1>2. /\ Reached \subseteq Block
      /\ \A b \in Block : size[b] \in Nat
      /\ \A r \in Request : r.nsz \in Nat /\ OldSize(r) \in Nat
  BY HelperTypes
<1>3. ASSUME NEW r \in Requests, Allocate(r) PROVE TypeOK'
  <2>1. Growable \subseteq Block
    BY <1>2 DEF Growable, TypeOK
  <2>2. r \in Request
    BY <1>3, <2>1 DEF Requests, Fresh, Growth, Request
  <2>3. r.nsz \in Nat
    BY <1>2, <2>2
  <2>4. CASE StartCollect(r.nsz, "alloc")
    BY <1>3, <2>2, <2>3, <2>4 DEF Allocate, StartCollect, TypeOK
  <2>5. CASE /\ pc' = "alloc"
             /\ UNCHANGED <<objects, cycles, after, doomed, need>>
    BY <1>3, <2>2, <2>5 DEF Allocate, TypeOK
  <2>6. QED
    BY <1>3, <2>4, <2>5 DEF Allocate
<1>4. CASE PushBarrier
  <2>1. NewBarrier \in Barrier
    BY DEF NewBarrier, Barrier
  <2>2. barriers' \in Seq(Barrier)
    BY <1>4, <2>1, AppendProperties DEF PushBarrier, TypeOK
  <2>3. QED
    BY <1>4, <2>2 DEF PushBarrier, Run, NoFree, TypeOK, heapVars, gcVars
<1>5. CASE PopBarrier
  <2>1. Below \in Seq(Barrier) /\ Tentative(Top) \subseteq Block
    BY <1>5, TopTypes DEF PopBarrier, Interrupt
  <2>2. QED
    BY <1>5, <2>1 DEF PopBarrier, Interrupt, Run, TypeOK, heapVars, gcVars
<1>6. CASE AddBucket
  <2>1. Append(Top.buckets, {}) \in Seq(SUBSET Block)
    BY <1>6, TopTypes, AppendProperties DEF AddBucket
  <2>2. barriers' = SetTop([objs |-> Top.objs, raws |-> Top.raws,
                            buckets |-> Append(Top.buckets, {})])
    BY <1>6, TopTypes, Updates DEF AddBucket
  <2>3. barriers' \in Seq(Barrier)
    BY <1>6, <2>1, <2>2, TopTypes DEF AddBucket
  <2>4. QED
    BY <1>6, <2>3 DEF AddBucket, Run, NoFree, TypeOK, heapVars, gcVars
<1>7. CASE RemBucket
  <2>1. SubSeq(Top.buckets, 1, Len(Top.buckets) - 1) \in Seq(SUBSET Block)
    BY <1>7, TopTypes, SubSeqProperties DEF RemBucket
  <2>2. barriers' = SetTop([objs |-> Top.objs, raws |-> Top.raws,
                     buckets |-> SubSeq(Top.buckets, 1, Len(Top.buckets) - 1)])
    BY <1>7, TopTypes, Updates DEF RemBucket
  <2>3. barriers' \in Seq(Barrier)
    BY <1>7, <2>1, <2>2, TopTypes DEF RemBucket
  <2>4. QED
    BY <1>7, <2>3 DEF RemBucket, Run, NoFree, TypeOK, heapVars, gcVars
<1>8. CASE CollectNow
  BY <1>2, <1>8 DEF CollectNow, StartCollect, TypeOK
<1>9. CASE FreeEngine
  BY <1>9 DEF FreeEngine, TypeOK, gcVars
<1>10. ASSUME NEW o \in Block, NEW b \in Block \union {None},
              NEW R \in SUBSET Block, Commit(o, b, R)
       PROVE  TypeOK'
  <2> DEFINE n == Len(Top.buckets)
             q == IF n = 0 THEN Top.buckets
                  ELSE [Top.buckets EXCEPT ![n] = @ \union {o}]
  <2>1. q \in Seq(SUBSET Block)
    BY <1>10, TopTypes DEF Commit
  <2>2. barriers' = SetTop([objs |-> Top.objs \ {o}, raws |-> Top.raws \ {b},
                            buckets |-> q])
    BY <1>10 DEF Commit
  <2>3. barriers' \in Seq(Barrier)
    BY <1>10, <2>1, <2>2, TopTypes DEF Commit
  <2>4. QED
    BY <1>10, <2>3 DEF Commit, Run, NoFree, TypeOK, gcVars
<1>12. ASSUME NEW b \in Block, barriers # <<>>,
              barriers' = SetTop([Top EXCEPT !.raws = @ \ {b}])
       PROVE  barriers' \in Seq(Barrier)
  <2>1. barriers' = SetTop([objs |-> Top.objs, raws |-> Top.raws \ {b},
                            buckets |-> Top.buckets])
    BY <1>12, TopTypes, Updates
  <2>2. QED
    BY <1>12, <2>1, TopTypes
<1>13. ASSUME NEW b \in Block, CommitLoose(b) PROVE TypeOK'
  <2>1. barriers' \in Seq(Barrier)
    BY <1>13, <1>12 DEF CommitLoose
  <2>2. QED
    BY <1>13, <2>1 DEF CommitLoose, Run, NoFree, TypeOK, gcVars
<1>11. ASSUME NEW b \in Block, CommitGrown(b) PROVE TypeOK'
  <2>1. barriers # <<>> => barriers' \in Seq(Barrier)
    BY <1>11, <1>12 DEF CommitGrown
  <2>2. barriers = <<>> => barriers' = <<>>
    BY <1>11 DEF CommitGrown, SetTop
  <2>3. barriers' \in Seq(Barrier)
    BY <2>1, <2>2 DEF TypeOK
  <2>4. QED
    BY <1>11, <2>3 DEF CommitGrown, TypeOK, heapVars, gcVars
<1>14. ASSUME NEW b \in Block, Cancel(b) PROVE TypeOK'
  <2>1. barriers' \in Seq(Barrier)
    BY <1>14, TopTypes DEF Cancel
  <2>2. size' \in [Block -> Size \union {0}] /\ memUsed' \in Int
    BY <1>2, <1>14 DEF Cancel, Freed, TypeOK
  <2>3. QED
    BY <1>14, <2>1, <2>2 DEF Cancel, Run, TypeOK, heapVars, gcVars
<1>15. ASSUME NEW b \in Block, FreeRaw(b) PROVE TypeOK'
  <2>1. size' \in [Block -> Size \union {0}] /\ memUsed' \in Int
    BY <1>2, <1>15 DEF FreeRaw, Freed, TypeOK
  <2>2. QED
    BY <1>15, <2>1 DEF FreeRaw, Run, TypeOK, gcVars
<1>16. ASSUME NEW o \in Block, NEW b \in Block, Swap(o, b) PROVE TypeOK'
  <2>1. barriers' \in Seq(Barrier)
    BY <1>16, <1>12 DEF Swap
  <2>2. buf[o] \in Block
    BY <1>16 DEF Swap, TypeOK
  <2>3. size' \in [Block -> Size \union {0}] /\ memUsed' \in Int
    BY <1>2, <1>16, <2>2 DEF Swap, Freed, TypeOK
  <2>4. QED
    BY <1>16, <2>1, <2>3 DEF Swap, Run, TypeOK, gcVars
<1>17. ASSUME NEW o \in Block, NEW p \in Block, Link(o, p) PROVE TypeOK'
  BY <1>17 DEF Link, Run, NoFree, TypeOK, gcVars
<1>18. ASSUME NEW o \in Block, NEW p \in Block, Unlink(o, p) PROVE TypeOK'
  BY <1>18 DEF Unlink, Run, NoFree, TypeOK, gcVars
<1>19. ASSUME NEW S \in SUBSET Block, SetRoots(S) PROVE TypeOK'
  BY <1>19 DEF SetRoots, Run, NoFree, TypeOK, gcVars
<1>20. QED
  BY <1>3, <1>4, <1>5, <1>6, <1>7, <1>8, <1>9, <1>10, <1>11, <1>13, <1>14,
     <1>15, <1>16, <1>17, <1>18, <1>19
  DEF Client

-------------------------------------------------------------------------------
(* The engine stays within its limit.                                      *)

\* A request that has got to the allocator fits, and one that waits for a
\* collection will: adjustHeap makes room for it above what was in use.
Fits ==
  /\ pc # "freed" => memUsed <= memLimit
  /\ pc = "alloc" \/ (pc = "strings" /\ after = "alloc") =>
       memUsed - OldSize(req) + req.nsz <= memLimit
  /\ pc = "sweep" /\ after = "alloc" => need = req.nsz

MemInv == TypeOK /\ Pending /\ Fits

LEMMA InitMem == Init => MemInv
<1>1. Init => TypeOK
  BY InitType
<1>2. Init => Pending /\ Fits
  BY LimitAssumption DEF Init, Pending, InAlloc, Fits
<1>3. QED
  BY <1>1, <1>2 DEF MemInv

\* Giving a block back does not use memory.
LEMMA FreedShrinks ==
  ASSUME TypeOK, NEW b \in Block, NEW x \in Nat, Freed(b, size[b] + x)
  PROVE  memUsed' <= memUsed
<1>1. size[b] \in Nat
  BY HelperTypes
<1>2. QED
  BY <1>1 DEF Freed, TypeOK

LEMMA InsidePending == MemInv /\ Inside => Pending'
<1>1. SUFFICES ASSUME MemInv, Inside PROVE Pending'
  OBVIOUS
<1> USE <1>1 DEF MemInv
<1>2. ASSUME NEW b \in Block, \/ Destruct(b) \/ Release(b) \/ FreeDead(b)
                              \/ ClearOne(b) \/ Allocated(b)
      PROVE  Pending'
  BY <1>2 DEF Pending, InAlloc, Destruct, Release, FreeDead, ClearOne, Allocated
<1>3. CASE Adjust \/ EndCollect \/ EndCollectFailed \/ EndClear \/ AllocFailed
  <2>6. CASE Adjust
    BY <2>6 DEF Pending, InAlloc, Adjust, Swept
  <2>1. CASE EndCollect
    BY <2>1 DEF Pending, InAlloc, EndCollect
  <2>2. CASE EndCollectFailed
    BY <2>2 DEF Pending, InAlloc, EndCollectFailed, Interrupt
  <2>3. CASE EndClear
    BY <2>3 DEF Pending, InAlloc, EndClear
  <2>4. CASE AllocFailed
    BY <2>4 DEF Pending, InAlloc, AllocFailed, StartCollect
  <2>5. QED
    BY <1>3, <2>1, <2>2, <2>3, <2>4, <2>6
<1>4. CASE FreeObjects \/ FreeBarriers \/ FreeSelf
  BY <1>4 DEF Pending, InAlloc, FreeObjects, FreeBarriers, FreeSelf
<1>5. QED
  BY <1>2, <1>3, <1>4 DEF Inside

LEMMA InsideFits == MemInv /\ Inside => Fits'
<1>1. SUFFICES ASSUME MemInv, Inside PROVE Fits'
  OBVIOUS
<1> USE <1>1 DEF MemInv
<1>2. memUsed \in Int /\ memLimit \in Nat /\ need \in Nat
  BY DEF TypeOK
<1>3. ASSUME NEW b \in Block, Destruct(b) PROVE Fits'
  <2>1. memUsed' <= memUsed /\ memUsed' \in Int
    <3>1. TypeOK'
      BY InsideType
    <3>2. buf[b] # None => buf[b] \in Block
      BY DEF TypeOK
    <3>3. QED
      BY <1>2, <1>3, <3>1, <3>2, HelperTypes DEF Destruct, Freed, TypeOK
  <2>2. QED
    BY <1>2, <1>3, <2>1 DEF Destruct, Fits
<1>4. ASSUME NEW b \in Block, Release(b) PROVE Fits'
  <2>1. PICK x \in Extra : Freed(b, size[b] + x)
    BY <1>4 DEF Release
  <2>2. memUsed' <= memUsed /\ memUsed' \in Int
    BY <2>1, FreedShrinks, InsideType, ExcessAssumption DEF TypeOK
  <2>3. QED
    BY <1>2, <1>4, <2>2 DEF Release, Fits
<1>9. ASSUME NEW b \in Block, ClearOne(b) PROVE Fits'
  <2>1. memUsed' <= memUsed /\ memUsed' \in Int
    BY <1>2, <1>9, HelperTypes DEF ClearOne, Freed
  <2>2. QED
    BY <1>2, <1>9, <2>1 DEF ClearOne, Fits, gcVars
<1>10. ASSUME NEW b \in Block, FreeDead(b) PROVE Fits'
  <2>1. memUsed' <= memUsed /\ memUsed' \in Int
    BY <1>2, <1>10, HelperTypes DEF FreeDead, Freed
  <2>2. OldSize(req)' = OldSize(req)
    BY <1>10 DEF FreeDead, Freed, OldSize, TypeOK, Request
  <2>3. OldSize(req) \in Nat /\ req.nsz \in Nat /\ req' = req
    BY <1>10, HelperTypes DEF FreeDead, TypeOK
  <2>4. QED
    BY <1>2, <1>10, <2>1, <2>2, <2>3 DEF FreeDead, Fits, gcVars
<1>5. ASSUME NEW b \in Block, Allocated(b) PROVE Fits'
  <2>1. size[b] \in Nat /\ req.nsz \in Nat
    BY HelperTypes DEF TypeOK
  <2>2. OldSize(req) = size[b]
    BY <1>5, NoneAssumption DEF Allocated, Pending, InAlloc, OldSize, Free
  <2>3. memUsed' <= memLimit
    BY <1>2, <1>5, <2>1, <2>2 DEF Allocated, Fits
  <2>4. QED
    BY <1>5, <2>3 DEF Allocated, Fits
<1>6. CASE Adjust
  <2>1. memUsed <= memLimit
    BY <1>6 DEF Adjust, Swept, Fits
  <2>2. memLimit + need <= memLimit' /\ memLimit' \in Nat
    BY <1>2, <1>6, Grows DEF Adjust, AdjustHeap
  <2>3. OldSize(req) \in Nat /\ req.nsz \in Nat
    BY HelperTypes DEF TypeOK
  <2>4. OldSize(req)' = OldSize(req)
    BY <1>6 DEF Adjust, OldSize
  <2>5. after = "alloc" => need = req.nsz
    BY <1>6 DEF Adjust, Swept, Fits
  <2>6. after = "alloc" => memUsed - OldSize(req) + req.nsz <= memLimit'
    BY <1>2, <2>1, <2>2, <2>3, <2>5
  <2>7. memUsed <= memLimit'
    BY <1>2, <2>1, <2>2
  <2>8. QED
    BY <1>6, <2>4, <2>6, <2>7 DEF Adjust, Fits
<1>7. CASE EndCollect
  <2>1. OldSize(req)' = OldSize(req)
    BY <1>7 DEF EndCollect, OldSize
  <2>2. QED
    BY <1>7, <2>1 DEF EndCollect, Fits
<1>8. CASE EndCollectFailed \/ EndClear \/ AllocFailed \/ FreeObjects \/ FreeBarriers
  BY <1>8 DEF EndCollectFailed, Interrupt, EndClear, Cleared, AllocFailed,
     StartCollect, FreeObjects, FreeBarriers, Swept, Fits
<1>11. CASE FreeSelf
  BY <1>11 DEF FreeSelf, Fits
<1>12. QED
  BY <1>3, <1>4, <1>5, <1>6, <1>7, <1>8, <1>9, <1>10, <1>11 DEF Inside

LEMMA ClientMem == MemInv /\ Client => Pending' /\ Fits'
<1>1. SUFFICES ASSUME MemInv, Client PROVE Pending' /\ Fits'
  OBVIOUS
<1> USE <1>1 DEF MemInv
<1>2. memUsed \in Int /\ memLimit \in Nat
  BY DEF TypeOK
<1>3. ASSUME NEW r \in Requests, Allocate(r) PROVE Pending' /\ Fits'
  <2>1. \/ r.kind = "grow" /\ r.block \in Block
        \/ r.kind \in {"obj", "raw"} /\ r.block = None
    <3>1. Growable \subseteq Block
      BY HelperTypes DEF Growable, TypeOK
    <3>2. QED
      BY <3>1 DEF Requests, Fresh, Growth
  <2>2. Pending'
    <3>1. req' = r /\ barriers' = barriers /\ barriers # <<>> /\ after = "run"
      BY <1>3 DEF Allocate, Pending
    <3>2. \/ pc' = "sweep" /\ after' = "alloc"
          \/ pc' = "alloc" /\ after' = after
      BY <1>3 DEF Allocate, StartCollect
    <3>3. \/ req'.kind = "grow" /\ req'.block \in Block
          \/ req'.kind \in {"obj", "raw"} /\ req'.block = None
      BY <2>1, <3>1
    <3>4. barriers' # <<>> /\ (pc' \in {"run", "alloc"} => after' = "run")
      BY <3>1, <3>2
    <3>5. pc' # "strings"
      BY <3>2
    <3>6. QED
      BY <3>3, <3>4, <3>5 DEF Pending
  <2>3. OldSize(r) = OldSize(req)'
    BY <1>3 DEF Allocate, OldSize
  <2>4. Fits'
    <3>1. /\ pc = "run" /\ req' = r
          /\ memUsed' = memUsed /\ memLimit' = memLimit /\ memUsed <= memLimit
      BY <1>3 DEF Allocate, Fits
    <3>2. CASE StartCollect(r.nsz, "alloc")
      BY <3>1, <3>2 DEF StartCollect, Fits
    <3>3. CASE ~Over(OldSize(r), r.nsz) /\ pc' = "alloc"
      <4>1. OldSize(r) \in Nat /\ r.nsz \in Nat
        <5>1. r \in Request
          <6>1. Growable \subseteq Block
            BY HelperTypes DEF Growable, TypeOK
          <6>2. QED
            BY <6>1 DEF Requests, Fresh, Growth, Request
        <5>2. QED
          BY <5>1, HelperTypes
      <4>2. memUsed - OldSize(r) + r.nsz <= memLimit
        BY <1>2, <3>3, <4>1 DEF Over
      <4>3. QED
        BY <2>3, <3>1, <3>3, <4>2 DEF Fits
    <3>4. QED
      BY <1>3, <3>2, <3>3 DEF Allocate
  <2>5. QED
    BY <2>2, <2>4
<1>4. ASSUME pc = "run", pc' = "run", after' = after, memUsed' \in Int,
             memUsed' <= memUsed, memLimit' = memLimit
      PROVE  Pending' /\ Fits'
  BY <1>2, <1>4 DEF Pending, InAlloc, Fits
<1>5. CASE PushBarrier \/ AddBucket \/ RemBucket
  BY <1>2, <1>4, <1>5 DEF PushBarrier, AddBucket, RemBucket, Run, NoFree
<1>6. CASE PopBarrier
  BY <1>6 DEF PopBarrier, Run, Interrupt, Pending, InAlloc, Fits
<1>7. CASE CollectNow \/ FreeEngine
  BY <1>7 DEF CollectNow, StartCollect, FreeEngine, Pending, InAlloc, Fits
<1>8. ASSUME NEW o \in Block, NEW b, NEW R, Commit(o, b, R)
      PROVE  Pending' /\ Fits'
  BY <1>2, <1>4, <1>8 DEF Commit, Run, NoFree
<1>9. ASSUME NEW b \in Block, CommitLoose(b) PROVE Pending' /\ Fits'
  BY <1>2, <1>4, <1>9 DEF CommitLoose, Run, NoFree
<1>15. ASSUME NEW b \in Block, CommitGrown(b) PROVE Pending' /\ Fits'
  BY <1>2, <1>4, <1>15 DEF CommitGrown
<1>10. \A b \in Block : size[b] \in Nat
  BY HelperTypes
<1>11. ASSUME NEW b \in Block, Cancel(b) \/ FreeRaw(b) PROVE Pending' /\ Fits'
  <2>1. memUsed' <= memUsed /\ memUsed' \in Int
    BY <1>2, <1>10, <1>11 DEF Cancel, FreeRaw, Freed
  <2>2. QED
    BY <1>4, <1>11, <2>1 DEF Cancel, FreeRaw, Run
<1>12. ASSUME NEW o \in Block, NEW b \in Block, Swap(o, b)
       PROVE  Pending' /\ Fits'
  <2>1. buf[o] \in Block
    BY <1>12 DEF Swap, TypeOK
  <2>2. memUsed' <= memUsed /\ memUsed' \in Int
    BY <1>2, <1>10, <1>12, <2>1 DEF Swap, Freed
  <2>3. QED
    BY <1>4, <1>12, <2>2 DEF Swap, Run
<1>13. ASSUME NEW o, NEW p, Link(o, p) \/ Unlink(o, p) PROVE Pending' /\ Fits'
  BY <1>2, <1>4, <1>13 DEF Link, Unlink, Run, NoFree
<1>14. ASSUME NEW S, SetRoots(S) PROVE Pending' /\ Fits'
  BY <1>2, <1>4, <1>14 DEF SetRoots, Run, NoFree
<1>16. QED
  BY <1>3, <1>5, <1>6, <1>7, <1>8, <1>9, <1>11, <1>12, <1>13, <1>14, <1>15
  DEF Client

LEMMA MemStutters == MemInv /\ UNCHANGED vars => MemInv'
BY DEF MemInv, TypeOK, Pending, InAlloc, Fits, Over, OldSize, vars, heapVars, gcVars

\* memUsed stays within memLimit whatever the running code asks for and
\* whichever allocation fails (reallocMem, adjustHeap).
THEOREM WithinLimit == Spec => []MemInv
<1>1. MemInv /\ [Next]_vars => MemInv'
  <2>1. MemInv /\ Inside => MemInv'
    BY InsideType, InsidePending, InsideFits DEF MemInv
  <2>2. MemInv /\ Client => MemInv'
    BY ClientType, ClientMem DEF MemInv
  <2>3. QED
    BY <2>1, <2>2, MemStutters DEF Next
<1>2. QED
  BY <1>1, InitMem, PTL DEF Spec

\* The state variables of the engine keep their types.
THEOREM TypeCorrect == Spec => []TypeOK
<1>1. MemInv => TypeOK
  BY DEF MemInv
<1>2. QED
  BY <1>1, WithinLimit, PTL

-------------------------------------------------------------------------------
(* What the roots lead to stays.                                           *)

\* What changes on the newest barrier changes only what that one roots.
LEMMA RootsOfTop ==
  ASSUME barriers \in Seq(Barrier), barriers # <<>>, NEW bar,
         barriers' = SetTop(bar), roots' = roots
  PROVE  RootSet' \subseteq RootSet \union Slots(bar)
<1>1. \A i \in DOMAIN barriers' :
        i \in DOMAIN barriers /\ barriers'[i] \in {barriers[i], bar}
  BY DEF SetTop
<1>2. QED
  BY <1>1 DEF RootSet

\* A barrier that is popped takes only its own buckets along.
LEMMA RootsBelow ==
  ASSUME barriers \in Seq(Barrier), barriers # <<>>, barriers' = Below,
         roots' = roots
  PROVE  RootSet' \subseteq RootSet
<1>1. Len(barriers) \in Nat \ {0}
  OBVIOUS
<1>2. \A i \in DOMAIN barriers' : i \in DOMAIN barriers /\ barriers'[i] = barriers[i]
  BY <1>1, SubSeqProperties DEF Below
<1>3. QED
  BY <1>2 DEF RootSet

\* The slots of the newest barrier are roots.
LEMMA TopSlots ==
  ASSUME barriers \in Seq(Barrier), barriers # <<>>
  PROVE  Slots(Top) \subseteq RootSet
<1>1. Len(barriers) \in DOMAIN barriers
  OBVIOUS
<1>2. QED
  BY <1>1 DEF Top, RootSet

Rooted == RootSet \subseteq objects /\ Closed(objects, refs)

\* All that can be reached is in the list of objects.
LEMMA ReachedObjects ==
  ASSUME TypeOK, Rooted
  PROVE  Reached \subseteq objects /\ RootSet \subseteq Reached
<1>1. RootSet \subseteq objects /\ objects \in SUBSET Block /\ Closed(objects, refs)
  BY DEF Rooted, TypeOK
<1>2. Reached \subseteq objects
  BY <1>1, ReachLeast DEF Reached
<1>3. RootSet \in SUBSET Block
  BY <1>1
<1>4. RootSet \subseteq Reached
  BY <1>3, ReachRoots DEF Reached
<1>5. QED
  BY <1>2, <1>4

\* The mark phase keeps what it must.
LEMMA MarkKeeps ==
  ASSUME TypeOK, Rooted, objects' = objects \cap Reached, refs' = refs,
         RootSet' = RootSet
  PROVE  Rooted'
<1>1. RootSet' \subseteq objects'
  BY ReachedObjects DEF Rooted
<1>2. Closed(Reached, refs)
  BY ReachClosed DEF Reached, TypeOK
<1>3. Closed(objects', refs')
  BY <1>2 DEF Closed, Rooted
<1>4. QED
  BY <1>1, <1>3 DEF Rooted

\* Roots and references may go, objects stay.
LEMMA FewerRoots ==
  ASSUME TypeOK, Rooted, RootSet' \subseteq RootSet, objects' = objects,
         \A o \in Block : refs'[o] \subseteq refs[o]
  PROVE  Rooted'
BY DEF Rooted, Closed, TypeOK

\* Without a new root or reference nothing can dangle that did not.
LEMMA SameRoots ==
  ASSUME TypeOK, Rooted, barriers' = barriers, roots' = roots,
         objects' = objects, \A o \in Block : refs'[o] \subseteq refs[o]
  PROVE  Rooted'
<1>1. RootSet' = RootSet
  BY DEF RootSet
<1>2. QED
  BY <1>1, FewerRoots

\* A barrier gets no more slots than it had.
LEMMA SameSlots ==
  ASSUME TypeOK, Rooted, barriers # <<>>, NEW bar, barriers' = SetTop(bar),
         Slots(bar) \subseteq Slots(Top), roots' = roots, objects' = objects,
         refs' = refs
  PROVE  Rooted'
<1>1. RootSet' \subseteq RootSet
  BY RootsOfTop, TopSlots DEF TypeOK
<1>2. QED
  BY <1>1, FewerRoots

\* The engine that is being torn down does not come back.
LEMMA NoReturn == Pending /\ TearingDown /\ Next => TearingDown'
<1>1. SUFFICES ASSUME Pending, TearingDown, Next PROVE TearingDown'
  OBVIOUS
<1> USE <1>1
<1>2. pc # "run" /\ pc # "alloc"
  BY DEF TearingDown, Pending
<1>3. ~Client
  BY <1>2 DEF Client, Allocate, PushBarrier, PopBarrier, AddBucket, RemBucket,
     CollectNow, FreeEngine, Commit, CommitLoose, CommitGrown, Cancel, FreeRaw,
     Swap, Link, Unlink, SetRoots, Run
<1>4. ASSUME NEW b \in Block, Destruct(b) \/ Release(b) \/ FreeDead(b) \/ ClearOne(b)
      PROVE  TearingDown'
  BY <1>4 DEF Destruct, Release, FreeDead, ClearOne, TearingDown
<1>5. CASE Adjust \/ EndCollect \/ EndCollectFailed \/ EndClear
  BY <1>5 DEF Adjust, EndCollect, EndCollectFailed, EndClear, Swept, Cleared,
     TearingDown, Pending
<1>6. CASE FreeObjects \/ FreeBarriers \/ FreeSelf
  BY <1>6 DEF FreeObjects, FreeBarriers, FreeSelf, TearingDown
<1>7. QED
  BY <1>2, <1>3, <1>4, <1>5, <1>6 DEF Next, Inside, Allocated, AllocFailed

LEMMA InsideRooted ==
  TypeOK /\ Pending /\ ~TearingDown /\ Rooted /\ Inside => Rooted' \/ TearingDown'
<1>1. SUFFICES ASSUME TypeOK, Pending, ~TearingDown, Rooted, Inside
               PROVE  Rooted' \/ TearingDown'
  OBVIOUS
<1> USE <1>1
<1>2. ASSUME NEW b \in Block, Destruct(b) \/ Release(b) \/ FreeDead(b) \/ ClearOne(b)
      PROVE  Rooted'
  <2>1. \A o \in Block : refs'[o] \subseteq refs[o]
    BY <1>2 DEF Destruct, Release, FreeDead, ClearOne, TypeOK
  <2>2. barriers' = barriers /\ roots' = roots /\ objects' = objects
    BY <1>2 DEF Destruct, Release, FreeDead, ClearOne
  <2>3. QED
    BY <2>1, <2>2, SameRoots
<1>3. ASSUME NEW b \in Block, Allocated(b) PROVE Rooted'
  <2>1. objects' = objects /\ refs' = refs /\ roots' = roots
    BY <1>3 DEF Allocated, heapVars
  <2>2. \/ barriers' = SetTop([Top EXCEPT !.objs = @ \union {b}])
        \/ barriers' = SetTop([Top EXCEPT !.raws = @ \union {b}])
    BY <1>3 DEF Allocated
  <2>3. barriers # <<>> /\ Top \in Barrier
    BY <1>3, StackFacts DEF Allocated, Pending, InAlloc, TypeOK
  <2>4. /\ [Top EXCEPT !.objs = @ \union {b}].buckets = Top.buckets
        /\ [Top EXCEPT !.raws = @ \union {b}].buckets = Top.buckets
    BY <2>3 DEF Barrier
  <2>5. QED
    BY <2>1, <2>2, <2>3, <2>4, SameSlots DEF Slots
<1>4. CASE Adjust \/ EndCollect \/ EndClear
  <2>1. barriers' = barriers /\ roots' = roots /\ objects' = objects /\ refs' = refs
    BY <1>4 DEF Adjust, EndCollect, EndClear, heapVars
  <2>2. QED
    BY <2>1, SameRoots
<1>5. CASE EndCollectFailed
  <2>1. /\ barriers # <<>> /\ barriers' = Below /\ roots' = roots
        /\ objects' = objects /\ refs' = refs
    BY <1>5 DEF EndCollectFailed, Interrupt, heapVars
  <2>2. QED
    BY <2>1, RootsBelow, FewerRoots DEF TypeOK
<1>6. CASE AllocFailed
  <2>1. RootSet' = RootSet
    BY <1>6 DEF AllocFailed, RootSet
  <2>2. QED
    BY <1>6, <2>1, MarkKeeps DEF AllocFailed, StartCollect
<1>7. CASE FreeObjects \/ FreeBarriers \/ FreeSelf
  BY <1>7 DEF FreeObjects, FreeBarriers, FreeSelf, TearingDown
<1>8. QED
  BY <1>2, <1>3, <1>4, <1>5, <1>6, <1>7 DEF Inside

LEMMA ClientRooted ==
  TypeOK /\ Rooted /\ Client => Rooted' \/ TearingDown'
<1>1. SUFFICES ASSUME TypeOK, Rooted, Client PROVE Rooted' \/ TearingDown'
  OBVIOUS
<1> USE <1>1
<1>2. Reached \subseteq objects /\ RootSet \subseteq Reached
  BY ReachedObjects
<1>3. ASSUME NEW nsz, NEW next, StartCollect(nsz, next), refs' = refs,
             roots' = roots, barriers' = barriers
      PROVE  Rooted'
  <2>1. RootSet' = RootSet
    BY <1>3 DEF RootSet
  <2>2. QED
    BY <1>3, <2>1, MarkKeeps DEF StartCollect
<1>4. ASSUME NEW r \in Requests, Allocate(r) PROVE Rooted'
  <2>1. refs' = refs /\ roots' = roots /\ barriers' = barriers
    BY <1>4 DEF Allocate
  <2>2. StartCollect(r.nsz, "alloc") \/ objects' = objects
    BY <1>4 DEF Allocate
  <2>3. QED
    BY <1>3, <2>1, <2>2, SameRoots
<1>5. CASE PushBarrier
  <2>1. /\ barriers' = Append(barriers, NewBarrier) /\ roots' = roots
        /\ objects' = objects /\ refs' = refs
    BY <1>5 DEF PushBarrier, heapVars
  <2>2. \A i \in DOMAIN barriers' :
          \/ i \in DOMAIN barriers /\ barriers'[i] = barriers[i]
          \/ barriers'[i] = NewBarrier
    BY <2>1 DEF TypeOK
  <2>3. Slots(NewBarrier) = {}
    BY DEF Slots, NewBarrier
  <2>4. RootSet' \subseteq RootSet
    BY <2>1, <2>2, <2>3 DEF RootSet
  <2>5. QED
    BY <2>1, <2>4, FewerRoots
<1>6. CASE PopBarrier
  <2>1. /\ barriers # <<>> /\ barriers' = Below /\ roots' = roots
        /\ objects' = objects /\ refs' = refs
    BY <1>6 DEF PopBarrier, Interrupt, heapVars
  <2>2. QED
    BY <2>1, RootsBelow, FewerRoots DEF TypeOK
<1>7. CASE AddBucket
  <2> DEFINE q == Append(Top.buckets, {})
             bar == [Top EXCEPT !.buckets = q]
  <2>1. /\ barriers # <<>> /\ barriers' = SetTop(bar) /\ roots' = roots
        /\ objects' = objects /\ refs' = refs
    BY <1>7 DEF AddBucket, heapVars
  <2>2. Top \in Barrier /\ Top.buckets \in Seq(SUBSET Block)
    BY <2>1, TopTypes
  <2>3. bar.buckets = q
    BY <2>2 DEF Barrier
  <2>4. \A i \in DOMAIN q :
          (i \in DOMAIN Top.buckets /\ q[i] = Top.buckets[i]) \/ q[i] = {}
    BY <2>2
  <2>5. Slots(bar) \subseteq Slots(Top)
    BY <2>3, <2>4 DEF Slots
  <2>6. QED
    BY <2>1, <2>5, SameSlots
<1>8. CASE RemBucket
  <2> DEFINE q == SubSeq(Top.buckets, 1, Len(Top.buckets) - 1)
             bar == [Top EXCEPT !.buckets = q]
  <2>1. /\ barriers # <<>> /\ barriers' = SetTop(bar) /\ roots' = roots
        /\ objects' = objects /\ refs' = refs /\ Top.buckets # <<>>
    BY <1>8 DEF RemBucket, heapVars
  <2>2. Top \in Barrier /\ Top.buckets \in Seq(SUBSET Block)
    BY <2>1, TopTypes
  <2>3. bar.buckets = q
    BY <2>2 DEF Barrier
  <2>4. \A i \in DOMAIN q : i \in DOMAIN Top.buckets /\ q[i] = Top.buckets[i]
    BY <2>1, <2>2, SubSeqProperties
  <2>5. Slots(bar) \subseteq Slots(Top)
    BY <2>3, <2>4 DEF Slots
  <2>6. QED
    BY <2>1, <2>5, SameSlots
<1>9. CASE CollectNow
  BY <1>3, <1>9 DEF CollectNow
<1>10. CASE FreeEngine
  BY <1>10 DEF FreeEngine, TearingDown
<1>11. ASSUME NEW o \in Block, NEW b \in Block \union {None},
              NEW R \in SUBSET Block, Commit(o, b, R)
       PROVE  Rooted'
  <2> DEFINE n == Len(Top.buckets)
             q == IF n = 0 THEN Top.buckets
                  ELSE [Top.buckets EXCEPT ![n] = @ \union {o}]
             bar == [objs |-> Top.objs \ {o}, raws |-> Top.raws \ {b}, buckets |-> q]
  <2>1. /\ barriers # <<>> /\ barriers' = SetTop(bar) /\ roots' = roots
        /\ objects' = objects \union {o} /\ refs' = [refs EXCEPT ![o] = R]
        /\ R \subseteq Reached
    BY <1>11 DEF Commit
  <2>2. Top.buckets \in Seq(SUBSET Block)
    BY <2>1, TopTypes
  <2>3. \A i \in DOMAIN q :
          i \in DOMAIN Top.buckets /\ q[i] \subseteq Top.buckets[i] \union {o}
    BY <2>2
  <2>4. Slots(bar) \subseteq Slots(Top) \union {o}
    BY <2>3 DEF Slots
  <2>5. RootSet' \subseteq RootSet \union Slots(bar)
    BY <2>1, RootsOfTop DEF TypeOK
  <2>6. RootSet' \subseteq objects'
    BY <2>1, <2>4, <2>5, TopSlots DEF TypeOK, Rooted
  <2>7. Closed(objects', refs')
    <3>1. SUFFICES ASSUME NEW x \in objects' PROVE refs'[x] \subseteq objects'
      BY DEF Closed
    <3>2. CASE x = o
      BY <1>2, <2>1, <3>2 DEF TypeOK
    <3>3. CASE x # o
      BY <2>1, <3>1, <3>3 DEF TypeOK, Rooted, Closed
    <3>4. QED
      BY <3>2, <3>3
  <2>8. QED
    BY <2>6, <2>7 DEF Rooted
<1>12. ASSUME NEW b \in Block, CommitLoose(b) PROVE Rooted'
  <2>1. /\ barriers # <<>> /\ roots' = roots /\ objects' = objects /\ refs' = refs
        /\ barriers' = SetTop([Top EXCEPT !.raws = @ \ {b}])
    BY <1>12 DEF CommitLoose
  <2>2. [Top EXCEPT !.raws = @ \ {b}].buckets = Top.buckets
    BY <2>1, TopTypes DEF Barrier
  <2>3. QED
    BY <2>1, <2>2, SameSlots DEF Slots
<1>20. ASSUME NEW b \in Block, CommitGrown(b) PROVE Rooted'
  <2>1. /\ roots' = roots /\ objects' = objects /\ refs' = refs
        /\ barriers' = SetTop([Top EXCEPT !.raws = @ \ {b}])
    BY <1>20 DEF CommitGrown, heapVars
  <2>2. CASE barriers = <<>>
    <3>1. barriers' = barriers
      BY <2>1, <2>2 DEF SetTop
    <3>2. QED
      BY <2>1, <3>1, SameRoots
  <2>3. CASE barriers # <<>>
    <3>1. [Top EXCEPT !.raws = @ \ {b}].buckets = Top.buckets
      BY <2>3, TopTypes DEF Barrier
    <3>2. QED
      BY <2>1, <2>3, <3>1, SameSlots DEF Slots
  <2>4. QED
    BY <2>2, <2>3
<1>13. ASSUME NEW b \in Block, Cancel(b) PROVE Rooted'
  <2> DEFINE bar == [objs |-> Top.objs \ {b}, raws |-> Top.raws \ {b},
                     buckets |-> Top.buckets]
  <2>1. /\ barriers # <<>> /\ roots' = roots /\ objects' = objects /\ refs' = refs
        /\ barriers' = SetTop(bar)
    BY <1>13 DEF Cancel, heapVars
  <2>2. bar.buckets = Top.buckets
    OBVIOUS
  <2>3. QED
    BY <2>1, <2>2, SameSlots DEF Slots
<1>14. ASSUME NEW b \in Block, FreeRaw(b) PROVE Rooted'
  BY <1>14, SameRoots DEF FreeRaw
<1>15. ASSUME NEW o \in Block, NEW b \in Block, Swap(o, b) PROVE Rooted'
  <2>1. /\ barriers # <<>> /\ roots' = roots /\ objects' = objects /\ refs' = refs
        /\ barriers' = SetTop([Top EXCEPT !.raws = @ \ {b}])
    BY <1>15 DEF Swap
  <2>2. [Top EXCEPT !.raws = @ \ {b}].buckets = Top.buckets
    BY <2>1, TopTypes DEF Barrier
  <2>3. QED
    BY <2>1, <2>2, SameSlots DEF Slots
<1>16. ASSUME NEW o \in Block, NEW p \in Block, Link(o, p) PROVE Rooted'
  <2>1. /\ barriers' = barriers /\ roots' = roots /\ objects' = objects
        /\ refs' = [refs EXCEPT ![o] = @ \union {p}] /\ p \in objects
    BY <1>2, <1>16 DEF Link
  <2>2. RootSet' = RootSet
    BY <2>1 DEF RootSet
  <2>3. Closed(objects', refs')
    BY <2>1 DEF TypeOK, Rooted, Closed
  <2>4. QED
    BY <2>1, <2>2, <2>3 DEF Rooted
<1>17. ASSUME NEW o \in Block, NEW p \in Block, Unlink(o, p) PROVE Rooted'
  <2>1. /\ barriers' = barriers /\ roots' = roots /\ objects' = objects
        /\ refs' = [refs EXCEPT ![o] = @ \ {p}]
    BY <1>17 DEF Unlink
  <2>2. \A x \in Block : refs'[x] \subseteq refs[x]
    BY <2>1 DEF TypeOK
  <2>3. QED
    BY <2>1, <2>2, SameRoots
<1>18. ASSUME NEW S \in SUBSET Block, SetRoots(S) PROVE Rooted'
  <2>1. /\ barriers' = barriers /\ roots' = S /\ objects' = objects /\ refs' = refs
        /\ S \subseteq objects
    BY <1>2, <1>18 DEF SetRoots
  <2>2. RootSet' \subseteq RootSet \union S
    BY <2>1 DEF RootSet
  <2>3. QED
    BY <2>1, <2>2 DEF Rooted
<1>19. QED
  BY <1>4, <1>5, <1>6, <1>7, <1>8, <1>9, <1>10, <1>11, <1>12, <1>13, <1>14,
     <1>15, <1>16, <1>17, <1>18, <1>20
  DEF Client

\* What a bucket, envState, apiState or the fiber leads to is never given back,
\* whichever call collects and whatever is interrupted, until the engine is
\* freed (collect, clearBarrier).
THEOREM NoDanglingHolds == Spec => []NoDangling
<1>1. Init => TearingDown \/ Rooted
  BY DEF Init, Rooted, RootSet, Closed
<1>2. MemInv /\ MemInv' /\ (TearingDown \/ Rooted) /\ [Next]_vars
        => (TearingDown \/ Rooted)'
  <2>1. SUFFICES ASSUME TypeOK, Pending, TearingDown \/ Rooted, [Next]_vars
                 PROVE  TearingDown' \/ Rooted'
    BY DEF MemInv
  <2>2. CASE UNCHANGED vars
    BY <2>1, <2>2 DEF vars, heapVars, TearingDown, Rooted, RootSet, Closed
  <2>3. CASE Next /\ TearingDown
    BY <2>1, <2>3, NoReturn
  <2>4. CASE Next /\ ~TearingDown
    BY <2>1, <2>4, InsideRooted, ClientRooted DEF Next
  <2>5. QED
    BY <2>1, <2>2, <2>3, <2>4
<1>3. TearingDown \/ Rooted => NoDangling
  BY DEF NoDangling, Rooted
<1>4. QED
  BY <1>1, <1>2, <1>3, WithinLimit, PTL DEF Spec
-------------------------------------------------------------------------------
(* Every allocated block has one owner.                                    *)

\* The buffers that finalizers will free.
Buffers == {buf[o] : o \in objects \union doomed} \ {None}

\* What is left to do belongs to the stage of the engine that does it, and an
\* engine that is torn down has nothing of what it has been through.
Stages ==
  /\ pc # "sweep" => doomed = {} /\ corpses = {}
  /\ pc # "clear" => clearing = {}
  /\ TearingDown => loose = {}
  /\ pc = "freed" \/ after = "barriers" => objects = {}
  /\ pc = "freed" => barriers = <<>> /\ after = "barriers"

\* A request is for a size that is not 0, and a block that grows is not
\* collected meanwhile.
Asked ==
  /\ InAlloc => req.nsz \in Size
  /\ InAlloc /\ after # "fail" /\ req.kind = "grow" =>
       req.block \in loose \union {buf[o] : o \in objects}

\* No anchor is on two lists.
StackApart ==
  /\ \A i \in DOMAIN barriers : barriers[i].objs \cap barriers[i].raws = {}
  /\ \A i, j \in DOMAIN barriers :
       i # j => Tentative(barriers[i]) \cap Tentative(barriers[j]) = {}

\* No two finalizers free one block.
BuffersApart ==
  \A o, p \in objects \union doomed : buf[o] = buf[p] /\ buf[o] # None => o = p

\* What the anchors alone hold, and what the string pool has for itself.
Held == AllTentative \ grown
Pool == loose \ exposed

\* A block that grows is on an anchor of the newest barrier, and its owner keeps
\* it until the call is over, which ends in commits or in an interrupt.  What an
\* interrupt takes with it was the string pool's.
Growing ==
  /\ grown # {} => /\ barriers # <<>> /\ grown \subseteq Top.raws
                   /\ exposed = {} /\ (pc = "run" \/ InAlloc)
  /\ grown \subseteq loose \union Buffers
  /\ InAlloc /\ grown # {} =>
       /\ grown \subseteq loose
       /\ req.kind = "grow" /\ req.block \in loose \ grown
  /\ exposed \subseteq loose
  /\ exposed \cap (objects \union doomed \union corpses \union AllTentative
                   \union Buffers) = {}
  /\ exposed # {} => after = "run" /\ pc \in {"run", "clear"}

\* The owners have no block in common,
Apart ==
  /\ objects \cap (doomed \union corpses \union clearing \union Pool
                     \union Held \union Buffers) = {}
  /\ doomed \cap (corpses \union clearing \union Pool \union Held
                     \union Buffers) = {}
  /\ corpses \cap (clearing \union Pool \union Held \union Buffers) = {}
  /\ clearing \cap (Pool \union Held \union Buffers) = {}
  /\ Pool \cap (Held \union Buffers) = {}
  /\ Held \cap Buffers = {}

\* and own what is allocated.
Live == {b \in Block : ~Free(b)}
Covered ==
  Live
    = objects \union doomed \union corpses \union clearing \union Pool
        \union Held \union Buffers

OwnInv ==
  Stages /\ Asked /\ Growing /\ StackApart /\ BuffersApart /\ Apart /\ Covered

\* What the anchors of a barrier are, once the newest has others,
LEMMA TopReplaced ==
  ASSUME barriers \in Seq(Barrier), barriers # <<>>, StackApart,
         NEW bar \in Barrier, barriers' = SetTop(bar),
         bar.objs \cap bar.raws = {},
         Tentative(bar) \cap (AllTentative \ Tentative(Top)) = {}
  PROVE  /\ StackApart'
         /\ AllTentative' = (AllTentative \ Tentative(Top)) \union Tentative(bar)
         /\ Tentative(Top) \subseteq AllTentative
<1> DEFINE n == Len(barriers)
<1>1. /\ n \in DOMAIN barriers /\ DOMAIN barriers' = DOMAIN barriers
      /\ barriers'[n] = bar /\ Top = barriers[n]
      /\ \A i \in DOMAIN barriers : i # n => barriers'[i] = barriers[i]
  BY DEF SetTop, Top
<1>2. \A i \in DOMAIN barriers : Tentative(barriers[i]) \subseteq AllTentative
  BY DEF AllTentative
<1>3. \A i \in DOMAIN barriers : i # n =>
         Tentative(barriers[i]) \subseteq AllTentative \ Tentative(Top)
  BY <1>1, <1>2 DEF StackApart
<1>4. StackApart'
  <2>1. \A i \in DOMAIN barriers' : barriers'[i].objs \cap barriers'[i].raws = {}
    BY <1>1 DEF StackApart
  <2>2. ASSUME NEW i \in DOMAIN barriers', NEW j \in DOMAIN barriers', i # j
        PROVE  Tentative(barriers'[i]) \cap Tentative(barriers'[j]) = {}
    <3>1. CASE i = n
      BY <1>1, <1>3, <2>2, <3>1
    <3>2. CASE j = n
      BY <1>1, <1>3, <2>2, <3>2
    <3>3. CASE i # n /\ j # n
      BY <1>1, <2>2, <3>3 DEF StackApart
    <3>4. QED
      BY <3>1, <3>2, <3>3
  <2>3. QED
    BY <2>1, <2>2 DEF StackApart, Tentative
<1>5. AllTentative' = (AllTentative \ Tentative(Top)) \union Tentative(bar)
  <2>1. AllTentative' = UNION {Tentative(barriers'[i]) : i \in DOMAIN barriers'}
    BY DEF AllTentative, Tentative
  <2>2. ASSUME NEW b \in AllTentative'
        PROVE  b \in (AllTentative \ Tentative(Top)) \union Tentative(bar)
    <3>1. PICK i \in DOMAIN barriers' : b \in Tentative(barriers'[i])
      BY <2>1, <2>2
    <3>2. QED
      BY <1>1, <1>3, <3>1
  <2>3. ASSUME NEW b \in AllTentative \ Tentative(Top)
        PROVE  b \in AllTentative'
    <3>1. PICK i \in DOMAIN barriers : b \in Tentative(barriers[i])
      BY <2>3 DEF AllTentative
    <3>2. QED
      BY <1>1, <2>1, <2>3, <3>1
  <2>4. Tentative(bar) \subseteq AllTentative'
    BY <1>1, <2>1
  <2>5. QED
    BY <2>2, <2>3, <2>4
<1>6. QED
  BY <1>1, <1>2, <1>4, <1>5

\* or is taken off the stack,
LEMMA TopRemoved ==
  ASSUME barriers \in Seq(Barrier), barriers # <<>>, StackApart,
         barriers' = Below
  PROVE  /\ StackApart'
         /\ AllTentative' = AllTentative \ Tentative(Top)
         /\ Tentative(Top) \subseteq AllTentative
<1> DEFINE n == Len(barriers)
<1>1. /\ n \in DOMAIN barriers /\ n \in Nat \ {0} /\ Top = barriers[n]
      /\ DOMAIN barriers = 1 .. n
  BY DEF Top
<1>2. /\ DOMAIN barriers' = 1 .. n - 1
      /\ \A i \in 1 .. n - 1 : barriers'[i] = barriers[i]
  BY <1>1, SubSeqProperties DEF Below
<1>3. StackApart'
  BY <1>1, <1>2 DEF StackApart, Tentative
<1>4. AllTentative' = UNION {Tentative(barriers'[i]) : i \in DOMAIN barriers'}
  BY DEF AllTentative, Tentative
<1>5. ASSUME NEW b \in AllTentative' PROVE b \in AllTentative \ Tentative(Top)
  <2>1. PICK i \in DOMAIN barriers' : b \in Tentative(barriers'[i])
    BY <1>4, <1>5
  <2>2. i \in DOMAIN barriers /\ i # n /\ b \in Tentative(barriers[i])
    BY <1>1, <1>2, <2>1
  <2>3. QED
    BY <1>1, <2>2 DEF AllTentative, StackApart
<1>6. ASSUME NEW b \in AllTentative \ Tentative(Top) PROVE b \in AllTentative'
  <2>1. PICK i \in DOMAIN barriers : b \in Tentative(barriers[i])
    BY <1>6 DEF AllTentative
  <2>2. i # n
    BY <1>1, <1>6, <2>1
  <2>3. i \in DOMAIN barriers' /\ b \in Tentative(barriers'[i])
    BY <1>1, <1>2, <2>1, <2>2
  <2>4. QED
    BY <1>4, <2>3
<1>7. Tentative(Top) \subseteq AllTentative
  BY <1>1 DEF AllTentative
<1>8. QED
  BY <1>3, <1>5, <1>6, <1>7

\* or a new one, without any, is put on top.
LEMMA TopAdded ==
  ASSUME barriers \in Seq(Barrier), StackApart,
         barriers' = Append(barriers, NewBarrier)
  PROVE  StackApart' /\ AllTentative' = AllTentative
<1> DEFINE n == Len(barriers) + 1
<1>1. /\ DOMAIN barriers' = 1 .. n /\ n \in Nat \ {0} /\ DOMAIN barriers = 1 .. n - 1
      /\ barriers'[n] = NewBarrier
      /\ \A i \in 1 .. n - 1 : barriers'[i] = barriers[i]
  BY AppendProperties
<1>2. NewBarrier.objs = {} /\ NewBarrier.raws = {} /\ Tentative(NewBarrier) = {}
  BY DEF NewBarrier, Tentative
<1>3. StackApart'
  <2>1. \A i \in DOMAIN barriers' : barriers'[i].objs \cap barriers'[i].raws = {}
    BY <1>1, <1>2 DEF StackApart
  <2>2. \A i, j \in DOMAIN barriers' :
          i # j => Tentative(barriers'[i]) \cap Tentative(barriers'[j]) = {}
    BY <1>1, <1>2 DEF StackApart
  <2>3. QED
    BY <2>1, <2>2 DEF StackApart, Tentative
<1>4. AllTentative' = UNION {Tentative(barriers'[i]) : i \in DOMAIN barriers'}
  BY DEF AllTentative, Tentative
<1>5. ASSUME NEW b \in AllTentative' PROVE b \in AllTentative
  BY <1>1, <1>2, <1>4, <1>5 DEF AllTentative
<1>6. ASSUME NEW b \in AllTentative PROVE b \in AllTentative'
  BY <1>1, <1>4, <1>6 DEF AllTentative
<1>7. QED
  BY <1>3, <1>5, <1>6

\* A block that is given back is not live any more, one that is given out is.
LEMMA LiveChanges ==
  ASSUME TypeOK, NEW b \in Block
  PROVE  /\ \A sz : Freed(b, sz) => Live' = Live \ {b}
         /\ \A n \in Size : size' = [size EXCEPT ![b] = n] => Live' = Live \union {b}
         /\ size' = size => Live' = Live
<1>1. \A x \in Block : Free(x) <=> size[x] = 0
  BY DEF Free
<1>2. \A x \in Block : Free(x)' <=> size'[x] = 0
  BY DEF Free
<1>3. size \in [Block -> Size \union {0}] /\ \A n \in Size : n # 0
  BY SizeAssumption DEF TypeOK
<1>4. \A sz : Freed(b, sz) => Live' = Live \ {b}
  BY <1>1, <1>2, <1>3 DEF Freed, Live
<1>5. \A n \in Size : size' = [size EXCEPT ![b] = n] => Live' = Live \union {b}
  BY <1>1, <1>2, <1>3 DEF Live
<1>6. size' = size => Live' = Live
  BY <1>1, <1>2 DEF Live
<1>7. QED
  BY <1>4, <1>5, <1>6

\* What the anchors and the buffers become when nothing of theirs changes.
LEMMA OwnSame ==
  /\ barriers' = barriers => AllTentative' = AllTentative /\ (StackApart => StackApart')
  /\ buf' = buf /\ objects' \union doomed' = objects \union doomed =>
       Buffers' = Buffers /\ (BuffersApart => BuffersApart')
  /\ AllTentative' = AllTentative /\ grown' = grown => Held' = Held
  /\ loose' = loose /\ exposed' = exposed => Pool' = Pool
<1>1. barriers' = barriers => AllTentative' = AllTentative /\ (StackApart => StackApart')
  BY DEF AllTentative, Tentative, StackApart
<1>2. buf' = buf /\ objects' \union doomed' = objects \union doomed =>
        Buffers' = Buffers /\ (BuffersApart => BuffersApart')
  BY DEF Buffers, BuffersApart
<1>3. QED
  BY <1>1, <1>2 DEF Held, Pool

\* Between two calls nothing grows.
LEMMA NothingGrows ==
  ASSUME grown = {}, exposed = {}
  PROVE  /\ Held = AllTentative /\ Pool = loose
         /\ (grown' = grown /\ exposed' = exposed =>
               Held' = AllTentative' /\ Pool' = loose' /\ Growing')
BY DEF Held, Pool, Growing

\* A step inside a call leaves alone what grows.
LEMMA GrowingStays ==
  ASSUME Growing, exposed = {}, grown' = grown, exposed' = exposed, req' = req,
         barriers' = barriers, InAlloc \/ grown = {}, InAlloc' \/ grown = {},
         \A b \in loose : b \in grown \union {req.block} => b \in loose'
  PROVE  Growing'
BY DEF Growing, Top

\* The sweep of one object.
LEMMA DestructOwn ==
  ASSUME TypeOK, OwnInv, NEW o \in Block, Destruct(o)
  PROVE  OwnInv'
<1> USE DEF OwnInv
<1>1. /\ pc = "sweep" /\ pc' = pc /\ after' = after /\ req' = req
      /\ o \in doomed /\ doomed' = doomed \ {o} /\ corpses' = corpses \union {o}
      /\ objects' = objects /\ loose' = loose /\ clearing' = clearing
      /\ barriers' = barriers /\ buf' = [buf EXCEPT ![o] = None]
      /\ grown' = grown /\ exposed' = exposed
  BY DEF Destruct
<1>2. StackApart' /\ Held' = Held /\ Pool' = Pool
  BY <1>1, OwnSame
<1>3. \A x \in objects \union doomed' : x \in Block /\ x # o /\ buf'[x] = buf[x]
  BY <1>1 DEF TypeOK, Apart
<1>4. BuffersApart'
  BY <1>1, <1>3 DEF BuffersApart
<1>5. Buffers' = Buffers \ {buf[o]}
  <2>1. ASSUME NEW b \in Buffers' PROVE b \in Buffers /\ b # buf[o]
    BY <1>1, <1>3, <2>1 DEF Buffers, BuffersApart
  <2>2. ASSUME NEW b \in Buffers, b # buf[o] PROVE b \in Buffers'
    BY <1>1, <1>3, <2>2 DEF Buffers
  <2>3. QED
    BY <2>1, <2>2
<1>6. Live' = Live \ {buf[o]}
  <2>1. CASE buf[o] = None
    BY <2>1, LiveChanges, NoneAssumption DEF Destruct, Live
  <2>2. CASE buf[o] # None
    BY <1>1, <2>2, LiveChanges DEF Destruct, TypeOK
  <2>3. QED
    BY <2>1, <2>2
<1>7. buf[o] # None => buf[o] \in Buffers
  BY <1>1 DEF Buffers
<1>8. None \notin Live /\ None \notin Buffers /\ Live \subseteq Block
  BY NoneAssumption DEF Live, Buffers
<1>9. Apart' /\ Covered'
  <2>1. Apart'
    BY <1>1, <1>2, <1>5 DEF Apart
  <2>2. Covered'
    BY <1>1, <1>2, <1>5, <1>6, <1>7, <1>8 DEF Covered, Apart
  <2>3. QED
    BY <2>1, <2>2
<1>10. Stages' /\ Asked'
  BY <1>1, <1>3 DEF Stages, Asked, InAlloc, TearingDown
<1>12. Growing'
  <2>1. exposed = {} /\ (InAlloc \/ grown = {}) /\ (InAlloc' \/ grown = {})
    BY <1>1 DEF Growing, InAlloc
  <2>2. QED
    BY <1>1, <2>1, GrowingStays
<1>11. QED
  BY <1>2, <1>4, <1>9, <1>10, <1>12

LEMMA ReleaseOwn ==
  ASSUME TypeOK, OwnInv, NEW o \in Block, Release(o)
  PROVE  OwnInv'
<1> USE DEF OwnInv
<1>1. /\ pc = "sweep" /\ pc' = pc /\ after' = after /\ req' = req
      /\ o \in corpses /\ corpses' = corpses \ {o} /\ doomed' = doomed
      /\ objects' = objects /\ loose' = loose /\ clearing' = clearing
      /\ barriers' = barriers /\ buf' = buf
      /\ grown' = grown /\ exposed' = exposed
  BY DEF Release
<1>2. /\ StackApart' /\ Held' = Held /\ Pool' = Pool
      /\ BuffersApart' /\ Buffers' = Buffers
  BY <1>1, OwnSame
<1>3. Live' = Live \ {o}
  BY LiveChanges DEF Release
<1>4. Apart' /\ Covered'
  BY <1>1, <1>2, <1>3 DEF Apart, Covered
<1>5. Stages' /\ Asked'
  BY <1>1 DEF Stages, Asked, InAlloc, TearingDown
<1>6. Growing'
  <2>1. exposed = {} /\ (InAlloc \/ grown = {}) /\ (InAlloc' \/ grown = {})
    BY <1>1 DEF Growing, InAlloc
  <2>2. QED
    BY <1>1, <2>1, GrowingStays
<1>7. QED
  BY <1>2, <1>4, <1>5, <1>6

\* The node of a dead string.
LEMMA FreeDeadOwn ==
  ASSUME TypeOK, OwnInv, NEW b \in Block, FreeDead(b)
  PROVE  OwnInv'
<1> USE DEF OwnInv
<1>1. /\ pc = "strings" /\ pc' = pc /\ after' = after /\ req' = req
      /\ b \in loose /\ b \notin grown /\ b # req.block /\ loose' = loose \ {b}
      /\ corpses' = corpses /\ doomed' = doomed
      /\ objects' = objects /\ clearing' = clearing
      /\ barriers' = barriers /\ buf' = buf
      /\ grown' = grown /\ exposed' = exposed
  BY DEF FreeDead, gcVars
<1>2. exposed = {} /\ (InAlloc \/ grown = {}) /\ (InAlloc' \/ grown = {})
  BY <1>1 DEF Growing, InAlloc
<1>3. /\ StackApart' /\ Held' = Held
      /\ BuffersApart' /\ Buffers' = Buffers
  BY <1>1, OwnSame
<1>4. b \in Pool /\ Pool' = Pool \ {b}
  BY <1>1, <1>2 DEF Pool
<1>5. Live' = Live \ {b}
  BY LiveChanges DEF FreeDead
<1>6. Apart' /\ Covered'
  BY <1>1, <1>3, <1>4, <1>5 DEF Apart, Covered
<1>7. Stages' /\ Asked'
  BY <1>1 DEF Stages, Asked, InAlloc, TearingDown
<1>8. Growing'
  BY <1>1, <1>2, GrowingStays
<1>9. QED
  BY <1>3, <1>6, <1>7, <1>8

LEMMA ClearOneOwn ==
  ASSUME TypeOK, OwnInv, NEW b \in Block, ClearOne(b)
  PROVE  OwnInv'
<1> USE DEF OwnInv
<1>1. /\ pc = "clear" /\ pc' = pc /\ after' = after /\ req' = req
      /\ b \in clearing /\ clearing' = clearing \ {b}
      /\ corpses' = corpses /\ doomed' = doomed
      /\ objects' = objects /\ loose' = loose
      /\ barriers' = barriers /\ buf' = [buf EXCEPT ![b] = None]
      /\ grown' = grown /\ exposed' = exposed
  BY DEF ClearOne, gcVars
<1>2. \A x \in objects \union doomed : x \in Block /\ x # b /\ buf'[x] = buf[x]
  BY <1>1 DEF TypeOK, Apart
<1>3. StackApart' /\ AllTentative' = AllTentative /\ Held' = Held /\ Pool' = Pool
  BY <1>1, OwnSame
<1>4. BuffersApart' /\ Buffers' = Buffers
  BY <1>1, <1>2 DEF BuffersApart, Buffers
<1>5. Live' = Live \ {b}
  BY LiveChanges DEF ClearOne
<1>6. Apart' /\ Covered'
  BY <1>1, <1>3, <1>4, <1>5 DEF Apart, Covered
<1>7. Stages' /\ Asked'
  BY <1>1, <1>2 DEF Stages, Asked, InAlloc, TearingDown
<1>8. Growing'
  BY <1>1, <1>3, <1>4 DEF Growing, InAlloc
<1>9. QED
  BY <1>3, <1>4, <1>6, <1>7, <1>8

\* The allocator's answer: a new anchor, or a block that was owned already.
LEMMA AllocatedOwn ==
  ASSUME TypeOK, Pending, OwnInv, NEW b \in Block, Allocated(b)
  PROVE  OwnInv'
<1> USE DEF OwnInv
<1>1. /\ pc = "alloc" /\ pc' = "run" /\ after' = after /\ after = "run"
      /\ clearing' = clearing /\ corpses' = corpses /\ doomed' = doomed
      /\ objects' = objects /\ loose' = loose /\ buf' = buf /\ req.nsz \in Size
      /\ size' = [size EXCEPT ![b] = req.nsz] /\ exposed' = exposed
  BY DEF Allocated, gcVars, heapVars, Pending, Asked, InAlloc
<1>2. BuffersApart' /\ Buffers' = Buffers /\ Pool' = Pool
  BY <1>1, OwnSame
<1>3. Live' = Live \union {b}
  BY <1>1, LiveChanges
<1>4. Stages' /\ Asked'
  BY <1>1 DEF Stages, Asked, InAlloc, TearingDown
<1>5. exposed = {} /\ Pool = loose
  BY <1>1 DEF Growing, Pool
<1>6. barriers # <<>> /\ Top \in Barrier
  BY <1>1, StackFacts DEF Pending, InAlloc, TypeOK
<1>7. /\ Top.objs \cap Top.raws = {} /\ Tentative(Top) \subseteq AllTentative
      /\ grown \subseteq Top.raws
  <2>1. Len(barriers) \in DOMAIN barriers
    BY <1>6 DEF TypeOK
  <2>2. QED
    BY <2>1 DEF StackApart, Top, AllTentative, Growing
<1>8. PICK bar : /\ bar \in {[Top EXCEPT !.objs = @ \union {b}],
                             [Top EXCEPT !.raws = @ \union {b}]}
                 /\ barriers' = SetTop(bar)
                 /\ \/ req.kind # "grow" /\ Free(b) /\ grown' = grown
                    \/ /\ req.kind = "grow" /\ b = req.block
                       /\ grown' = grown \union {b}
                       /\ bar = [Top EXCEPT !.raws = @ \union {b}]
  BY DEF Allocated
<1>9. /\ bar \in Barrier /\ Tentative(bar) = Tentative(Top) \union {b}
      /\ Top.raws \subseteq bar.raws
      /\ bar = [Top EXCEPT !.raws = @ \union {b}] => b \in bar.raws
  BY <1>6, <1>8 DEF Barrier, Tentative
<1>10. b \notin AllTentative
  <2>1. CASE Free(b)
    <3>1. b \notin Live
      BY <2>1 DEF Live
    <3>2. b \notin Held /\ b \notin Pool /\ b \notin Buffers
      BY <3>1 DEF Covered
    <3>3. b \notin grown
      BY <1>5, <3>2 DEF Growing
    <3>4. QED
      BY <3>2, <3>3 DEF Held
  <2>2. CASE req.kind = "grow" /\ b = req.block
    <3>1. b \in loose \union Buffers
      BY <1>1, <2>2, NoneAssumption DEF Asked, InAlloc, Buffers
    <3>2. b \notin Held
      BY <1>5, <3>1 DEF Apart
    <3>3. b \notin grown
      BY <1>1, <2>2 DEF Growing, InAlloc
    <3>4. QED
      BY <3>2, <3>3 DEF Held
  <2>3. QED
    BY <1>8, <2>1, <2>2
<1>11. bar.objs \cap bar.raws = {}
  BY <1>6, <1>7, <1>8, <1>10 DEF Barrier, Tentative
<1>12. StackApart' /\ AllTentative' = AllTentative \union {b}
  BY <1>6, <1>7, <1>8, <1>9, <1>10, <1>11, TopReplaced DEF TypeOK
<1>13. Top' = bar /\ barriers' # <<>>
  BY <1>6, <1>8 DEF Top, SetTop, TypeOK
<1>14. CASE req.kind = "grow" /\ b = req.block /\ grown' = grown \union {b}
            /\ bar = [Top EXCEPT !.raws = @ \union {b}]
  <2>1. Held' = Held
    BY <1>10, <1>12, <1>14 DEF Held
  <2>2. b \in loose \union Buffers
    BY <1>1, <1>14, NoneAssumption DEF Asked, InAlloc, Buffers
  <2>3. Apart' /\ Covered'
    BY <1>1, <1>2, <1>3, <1>5, <2>1, <2>2 DEF Apart, Covered
  <2>4. Growing'
    BY <1>1, <1>2, <1>5, <1>7, <1>9, <1>13, <1>14, <2>2 DEF Growing, InAlloc
  <2>5. QED
    BY <1>2, <1>4, <1>12, <2>3, <2>4
<1>15. CASE req.kind # "grow" /\ Free(b) /\ grown' = grown
  <2>1. grown = {}
    BY <1>1, <1>15 DEF Growing, InAlloc
  <2>2. Held' = Held \union {b} /\ b \notin Live
    BY <1>12, <1>15, <2>1 DEF Held, Live
  <2>3. Apart' /\ Covered'
    BY <1>1, <1>2, <1>3, <2>2 DEF Apart, Covered
  <2>4. Growing'
    BY <1>1, <1>5, <1>15, <2>1, NothingGrows
  <2>5. QED
    BY <1>2, <1>4, <1>12, <2>3, <2>4
<1>16. QED
  BY <1>8, <1>14, <1>15

\* A collection splits the list of objects.
LEMMA CollectOwn ==
  ASSUME TypeOK, OwnInv, pc # "sweep", pc # "clear", pc # "freed",
         NEW nsz, NEW next, next # "barriers", next # "objects", after = "run",
         StartCollect(nsz, next), barriers' = barriers, loose' = loose, buf' = buf,
         corpses' = corpses, clearing' = clearing, size' = size,
         grown' = grown, exposed' = exposed
  PROVE  StackApart' /\ BuffersApart' /\ Apart' /\ Covered' /\ Stages'
<1> USE DEF OwnInv
<1>1. /\ pc' = "sweep" /\ after' = next /\ doomed = {} /\ corpses = {} /\ clearing = {}
      /\ objects' = objects \cap Reached /\ doomed' = objects \ Reached
  BY DEF StartCollect, Stages
<1>2. objects' \union doomed' = objects \union doomed
  BY <1>1
<1>3. /\ StackApart' /\ Held' = Held /\ Pool' = Pool
      /\ BuffersApart' /\ Buffers' = Buffers
  BY <1>2, OwnSame
<1>4. Live' = Live
  BY DEF Live, Free
<1>5. Apart'
  BY <1>1, <1>3 DEF Apart
<1>6. Covered'
  BY <1>1, <1>3, <1>4 DEF Covered
<1>7. Stages'
  BY <1>1 DEF Stages, TearingDown
<1>8. QED
  BY <1>3, <1>5, <1>6, <1>7

\* The newest barrier is left for its anchors to be cleared; a block of the
\* string pool that grew goes with them.
LEMMA LeaveOwn ==
  ASSUME TypeOK, Growing, StackApart, BuffersApart, Apart, Covered, clearing = {},
         barriers # <<>>, barriers' = Below, clearing' = ToClear,
         objects' = objects, doomed' = doomed, corpses' = corpses,
         loose' = loose, buf' = buf, size' = size,
         exposed = {}, grown \subseteq loose, exposed' = grown, grown' = {},
         grown # {} => after' = "run" /\ pc' = "clear"
  PROVE  StackApart' /\ BuffersApart' /\ Apart' /\ Covered' /\ Growing'
<1>1. /\ StackApart' /\ AllTentative' = AllTentative \ Tentative(Top)
      /\ Tentative(Top) \subseteq AllTentative
  BY TopRemoved DEF TypeOK
<1>2. BuffersApart' /\ Buffers' = Buffers
  BY OwnSame
<1>3. Live' = Live
  BY DEF Live, Free
<1>4. grown \subseteq Tentative(Top)
  BY DEF Growing, Tentative
<1>5. /\ Held' = Held \ Tentative(Top) /\ Pool = loose /\ Pool' = loose \ grown
      /\ Tentative(Top) = (Held \cap Tentative(Top)) \union grown
  BY <1>1, <1>4 DEF Held, Pool
<1>6. Apart' /\ Covered'
  BY <1>1, <1>2, <1>3, <1>4, <1>5 DEF Apart, Covered
<1>7. Growing'
  BY <1>1, <1>2, <1>4, <1>5 DEF Growing, Apart
<1>8. QED
  BY <1>1, <1>2, <1>6, <1>7

\* Nobody's blocks change.
LEMMA UntouchedOwn ==
  ASSUME OwnInv, objects' = objects, doomed' = doomed, corpses' = corpses,
         clearing' = clearing, loose' = loose, buf' = buf, size' = size,
         AllTentative' = AllTentative, grown' = grown, exposed' = exposed
  PROVE  BuffersApart' /\ Apart' /\ Covered'
<1>1. BuffersApart' /\ Buffers' = Buffers /\ Held' = Held /\ Pool' = Pool
  BY OwnSame DEF OwnInv
<1>2. Live' = Live
  BY DEF Live, Free
<1>3. Apart' /\ Covered'
  BY <1>1, <1>2 DEF Apart, Covered, OwnInv
<1>4. QED
  BY <1>1, <1>3

LEMMA InsideOwn == TypeOK /\ Pending /\ OwnInv /\ Inside => OwnInv'
<1>1. SUFFICES ASSUME TypeOK, Pending, OwnInv, Inside PROVE OwnInv'
  OBVIOUS
<1> USE <1>1
<1>2. ASSUME NEW b \in Block, \/ Destruct(b) \/ Release(b) \/ FreeDead(b)
                              \/ ClearOne(b) \/ Allocated(b)
      PROVE  OwnInv'
  BY <1>2, DestructOwn, ReleaseOwn, FreeDeadOwn, ClearOneOwn, AllocatedOwn
<1>3. CASE Adjust \/ EndCollect \/ EndClear
  <2>1. /\ objects' = objects /\ doomed' = doomed /\ corpses' = corpses
        /\ clearing' = clearing /\ loose' = loose /\ buf' = buf /\ size' = size
        /\ barriers' = barriers /\ req' = req /\ grown' = grown /\ exposed' = exposed
    BY <1>3 DEF Adjust, EndCollect, EndClear, heapVars, gcVars
  <2>2. AllTentative' = AllTentative /\ Buffers' = Buffers /\ StackApart'
    BY <2>1, OwnSame DEF OwnInv
  <2>3. BuffersApart' /\ Apart' /\ Covered'
    BY <2>1, <2>2, UntouchedOwn
  <2>7. CASE Adjust
    <3>1. /\ after \in {"alloc", "run", "fail"} /\ pc = "sweep" /\ pc' = "strings"
          /\ after' = after /\ doomed = {} /\ corpses = {}
      BY <2>7 DEF Adjust, Swept
    <3>2. Stages' /\ Asked'
      BY <2>1, <3>1 DEF OwnInv, Stages, TearingDown, Asked, InAlloc
    <3>3. exposed = {} /\ (InAlloc \/ grown = {}) /\ (InAlloc' \/ grown = {})
      BY <3>1 DEF OwnInv, Growing, InAlloc
    <3>4. Growing'
      BY <2>1, <3>3, GrowingStays DEF OwnInv
    <3>5. QED
      BY <2>2, <2>3, <3>2, <3>4 DEF OwnInv
  <2>4. CASE EndCollect
    <3>1. /\ after \in {"alloc", "run"} /\ pc = "strings" /\ pc' = after
          /\ after' = "run"
      BY <2>4 DEF EndCollect
    <3>2. Stages'
      BY <2>1, <3>1 DEF OwnInv, Stages, TearingDown
    <3>3. Asked'
      BY <2>1, <3>1 DEF OwnInv, Asked, InAlloc
    <3>4. exposed = {} /\ (InAlloc \/ grown = {}) /\ (InAlloc' \/ grown = {})
      BY <3>1 DEF OwnInv, Growing, InAlloc
    <3>5. Growing'
      BY <2>1, <3>4, GrowingStays DEF OwnInv
    <3>6. QED
      BY <2>2, <2>3, <3>2, <3>3, <3>5 DEF OwnInv
  <2>5. CASE EndClear
    <3>1. /\ after = "run" /\ after' = after /\ pc = "clear" /\ pc' = "run"
          /\ clearing = {}
      BY <2>5 DEF EndClear, Cleared
    <3>2. Stages' /\ Asked'
      BY <2>1, <3>1 DEF OwnInv, Stages, Asked, InAlloc, TearingDown
    <3>3. Growing'
      BY <2>1, <2>2, <3>1 DEF OwnInv, Growing, InAlloc
    <3>4. QED
      BY <2>2, <2>3, <3>2, <3>3 DEF OwnInv
  <2>6. QED
    BY <1>3, <2>4, <2>5, <2>7
<1>4. CASE EndCollectFailed
  <2>1. /\ objects' = objects /\ doomed' = doomed /\ corpses' = corpses
        /\ loose' = loose /\ buf' = buf /\ size' = size
        /\ barriers # <<>> /\ barriers' = Below /\ clearing' = ToClear
        /\ pc = "strings" /\ pc' = "clear" /\ after = "fail" /\ after' = "run"
        /\ exposed' = exposed \union grown /\ grown' = {}
    BY <1>4 DEF EndCollectFailed, Interrupt, heapVars, gcVars
  <2>2. clearing = {} /\ doomed = {} /\ corpses = {}
    BY <2>1 DEF OwnInv, Stages
  <2>3. exposed = {} /\ grown \subseteq loose
    BY <2>1 DEF OwnInv, Growing, InAlloc
  <2>4. StackApart' /\ BuffersApart' /\ Apart' /\ Covered' /\ Growing'
    BY <2>1, <2>2, <2>3, LeaveOwn DEF OwnInv
  <2>5. Stages' /\ Asked'
    BY <2>1, <2>2 DEF OwnInv, Stages, Asked, InAlloc, TearingDown
  <2>6. QED
    BY <2>4, <2>5 DEF OwnInv
<1>5. CASE AllocFailed
  <2>1. /\ StartCollect(req.nsz, "fail") /\ pc = "alloc" /\ after = "run"
        /\ barriers' = barriers /\ loose' = loose /\ buf' = buf
        /\ corpses' = corpses /\ clearing' = clearing /\ size' = size /\ req' = req
        /\ grown' = grown /\ exposed' = exposed
    BY <1>5 DEF AllocFailed, Pending
  <2>2. StackApart' /\ BuffersApart' /\ Apart' /\ Covered' /\ Stages'
    BY <2>1, CollectOwn
  <2>3. Asked'
    BY <2>1 DEF OwnInv, Asked, InAlloc, StartCollect
  <2>4. exposed = {} /\ InAlloc /\ InAlloc'
    BY <2>1 DEF OwnInv, Growing, InAlloc, StartCollect
  <2>5. Growing'
    BY <2>1, <2>4, GrowingStays DEF OwnInv
  <2>6. QED
    BY <2>2, <2>3, <2>5 DEF OwnInv
<1>10. after \in {"objects", "barriers"} => grown = {} /\ exposed = {}
  BY DEF OwnInv, Growing, InAlloc, Pending
<1>6. CASE FreeObjects
  <2>1. /\ pc = "clear" /\ clearing = {} /\ after = "objects" /\ pc' = "sweep"
        /\ after' = "barriers" /\ doomed' = objects /\ objects' = {}
        /\ corpses' = corpses /\ clearing' = clearing /\ loose' = loose
        /\ buf' = buf /\ size' = size /\ barriers' = barriers /\ req' = req
        /\ grown' = grown /\ exposed' = exposed
    BY <1>6 DEF FreeObjects, Cleared
  <2>2. doomed = {} /\ corpses = {} /\ loose = {}
    BY <2>1 DEF OwnInv, Stages, TearingDown
  <2>3. /\ StackApart' /\ Held' = Held /\ Pool' = Pool
        /\ BuffersApart' /\ Buffers' = Buffers
    BY <2>1, <2>2, OwnSame DEF OwnInv
  <2>4. Live' = Live
    BY <2>1 DEF Live, Free
  <2>5. Apart' /\ Covered'
    BY <2>1, <2>2, <2>3, <2>4 DEF OwnInv, Apart, Covered
  <2>6. Stages' /\ Asked'
    BY <2>1, <2>2 DEF Stages, Asked, InAlloc, TearingDown
  <2>7. Growing'
    BY <1>10, <2>1, NothingGrows
  <2>8. QED
    BY <2>3, <2>5, <2>6, <2>7 DEF OwnInv
<1>7. CASE FreeBarriers
  <2>1. /\ after = "barriers" /\ after' = after /\ pc' = "clear"
        /\ (pc = "sweep" /\ doomed = {} /\ corpses = {}) \/ (pc = "clear" /\ clearing = {})
        /\ barriers # <<>> /\ barriers' = Below /\ clearing' = ToClear
        /\ objects' = objects /\ doomed' = doomed /\ corpses' = corpses
        /\ loose' = loose /\ buf' = buf /\ size' = size
        /\ grown' = grown /\ exposed' = exposed
    BY <1>7 DEF FreeBarriers, Swept, Cleared, heapVars, gcVars
  <2>2. clearing = {} /\ doomed = {} /\ corpses = {} /\ objects = {} /\ loose = {}
    BY <2>1 DEF OwnInv, Stages, TearingDown
  <2>3. StackApart' /\ BuffersApart' /\ Apart' /\ Covered' /\ Growing'
    BY <1>10, <2>1, <2>2, LeaveOwn DEF OwnInv
  <2>4. Stages' /\ Asked'
    BY <2>1, <2>2 DEF Stages, Asked, InAlloc, TearingDown
  <2>5. QED
    BY <2>3, <2>4 DEF OwnInv
<1>8. CASE FreeSelf
  <2>1. /\ after = "barriers" /\ after' = after /\ pc' = "freed"
        /\ (pc = "sweep" /\ doomed = {} /\ corpses = {}) \/ (pc = "clear" /\ clearing = {})
        /\ barriers = <<>> /\ barriers' = barriers /\ clearing' = clearing
        /\ objects' = objects /\ doomed' = doomed /\ corpses' = corpses
        /\ loose' = loose /\ buf' = buf /\ size' = size
        /\ grown' = grown /\ exposed' = exposed
    BY <1>8 DEF FreeSelf, Swept, Cleared, gcVars
  <2>2. clearing = {} /\ doomed = {} /\ corpses = {} /\ objects = {} /\ loose = {}
    BY <2>1 DEF OwnInv, Stages, TearingDown
  <2>3. AllTentative' = AllTentative /\ StackApart'
    BY <2>1, OwnSame DEF OwnInv
  <2>4. BuffersApart' /\ Apart' /\ Covered'
    BY <2>1, <2>3, UntouchedOwn
  <2>5. Stages' /\ Asked'
    BY <2>1, <2>2 DEF Stages, Asked, InAlloc, TearingDown
  <2>6. Growing'
    BY <1>10, <2>1, NothingGrows
  <2>7. QED
    BY <2>3, <2>4, <2>5, <2>6 DEF OwnInv
<1>9. QED
  BY <1>2, <1>3, <1>4, <1>5, <1>6, <1>7, <1>8 DEF Inside

\* A call of the running code finds nothing half done.
LEMMA QuietOwn ==
  ASSUME Pending, OwnInv, pc = "run"
  PROVE  /\ after = "run" /\ doomed = {} /\ corpses = {} /\ clearing = {}
         /\ ~TearingDown
         /\ (/\ pc' = "run" /\ after' = after /\ doomed' = doomed
             /\ corpses' = corpses /\ clearing' = clearing) => Stages' /\ Asked'
BY DEF Pending, OwnInv, Stages, Asked, InAlloc, TearingDown

\* Some anchors leave the newest barrier.
LEMMA AnchorsGo ==
  ASSUME TypeOK, OwnInv, barriers # <<>>, NEW O, NEW R, NEW q \in Seq(SUBSET Block),
         O \subseteq Top.objs, R \subseteq Top.raws,
         barriers' = SetTop([objs |-> O, raws |-> R, buckets |-> q])
  PROVE  /\ StackApart' /\ Tentative(Top) \subseteq AllTentative
         /\ AllTentative' = AllTentative \ (Tentative(Top) \ (O \union R))
         /\ Top.objs \cap Top.raws = {}
<1> DEFINE bar == [objs |-> O, raws |-> R, buckets |-> q]
<1>1. Top \in Barrier /\ Top.objs \in SUBSET Block /\ Top.raws \in SUBSET Block
  BY TopTypes
<1>2. bar \in Barrier /\ Tentative(bar) = O \union R
  BY <1>1 DEF Barrier, Tentative
<1>3. Len(barriers) \in DOMAIN barriers
  BY DEF TypeOK
<1>4. Top.objs \cap Top.raws = {}
  BY <1>3 DEF OwnInv, StackApart, Top
<1>5. bar.objs \cap bar.raws = {}
  BY <1>4
<1>6. O \union R \subseteq Tentative(Top)
  BY DEF Tentative
<1>7. /\ StackApart' /\ Tentative(Top) \subseteq AllTentative
      /\ AllTentative' = (AllTentative \ Tentative(Top)) \union Tentative(bar)
  BY <1>2, <1>5, <1>6, TopReplaced DEF TypeOK, OwnInv
<1>8. QED
  BY <1>2, <1>4, <1>6, <1>7

LEMMA CommitOwn ==
  ASSUME TypeOK, Pending, OwnInv, NEW o \in Block, NEW b \in Block \union {None},
         NEW R, Commit(o, b, R)
  PROVE  OwnInv'
<1> DEFINE q == IF Len(Top.buckets) = 0 THEN Top.buckets
                ELSE [Top.buckets EXCEPT ![Len(Top.buckets)] = @ \union {o}]
<1>1. /\ pc = "run" /\ pc' = pc /\ after' = after /\ clearing' = clearing
      /\ doomed' = doomed /\ corpses' = corpses /\ loose' = loose /\ size' = size
      /\ barriers # <<>> /\ o \in Top.objs /\ b \in Top.raws \union {None}
      /\ objects' = objects \union {o} /\ buf' = [buf EXCEPT ![o] = b]
      /\ barriers' = SetTop([objs |-> Top.objs \ {o}, raws |-> Top.raws \ {b},
                             buckets |-> q])
      /\ grown = {} /\ exposed = {} /\ grown' = grown /\ exposed' = exposed
  BY DEF Commit, Run, NoFree, gcVars
<1>2. /\ doomed = {} /\ corpses = {} /\ clearing = {} /\ Stages' /\ Asked'
  BY <1>1, QuietOwn
<1>16. /\ Held = AllTentative /\ Pool = loose
       /\ Held' = AllTentative' /\ Pool' = loose' /\ Growing'
  BY <1>1, NothingGrows
<1>3. /\ Top.buckets \in Seq(SUBSET Block)
      /\ Top.objs \subseteq Block /\ Top.raws \subseteq Block
  BY <1>1, TopTypes
<1>15. q \in Seq(SUBSET Block)
  BY <1>3
<1> HIDE DEF q
<1>4. /\ StackApart' /\ Tentative(Top) \subseteq AllTentative
      /\ AllTentative' = AllTentative
                           \ (Tentative(Top) \ ((Top.objs \ {o}) \union (Top.raws \ {b})))
      /\ Top.objs \cap Top.raws = {}
  BY <1>1, <1>15, AnchorsGo
<1>5. AllTentative' = AllTentative \ {o, b}
  <2>1. Tentative(Top) \ ((Top.objs \ {o}) \union (Top.raws \ {b}))
          = {o} \union ({b} \ {None})
    BY <1>1, <1>3, <1>4, NoneAssumption DEF Tentative
  <2>2. AllTentative \subseteq Block
    <3>1. \A i \in DOMAIN barriers : barriers[i] \in Barrier
      BY DEF TypeOK
    <3>2. \A bar \in Barrier : Tentative(bar) \subseteq Block
      BY DEF Tentative, Barrier
    <3>3. QED
      BY <3>1, <3>2 DEF AllTentative
  <2>3. QED
    BY <1>4, <2>1, <2>2, NoneAssumption
<1>6. o \in AllTentative /\ (b # None => b \in AllTentative) /\ o # b
  BY <1>1, <1>3, <1>4, NoneAssumption DEF Tentative
<1>7. /\ o \notin objects /\ b \notin Buffers
      /\ \A x \in objects : x \in Block /\ buf'[x] = buf[x]
      /\ buf'[o] = b
  BY <1>1, <1>6, <1>16 DEF TypeOK, OwnInv, Apart, Buffers
<1>8. Buffers' = Buffers \union ({b} \ {None})
  BY <1>1, <1>2, <1>7 DEF Buffers
<1>9. BuffersApart'
  <2>1. ASSUME NEW x \in objects, buf[x] = b PROVE b = None
    BY <1>7, <2>1 DEF Buffers
  <2>2. QED
    BY <1>1, <1>2, <1>7, <2>1 DEF OwnInv, BuffersApart
<1>10. Live' = Live
  BY <1>1 DEF Live, Free
<1>11. Apart'
  BY <1>1, <1>2, <1>5, <1>6, <1>7, <1>8, <1>16 DEF OwnInv, Apart
<1>12. None \notin Live
  BY NoneAssumption DEF Live
<1>13. Covered'
  BY <1>1, <1>2, <1>5, <1>6, <1>8, <1>10, <1>12, <1>16 DEF OwnInv, Covered
<1>14. QED
  BY <1>2, <1>4, <1>9, <1>11, <1>13, <1>16 DEF OwnInv

LEMMA SwapOwn ==
  ASSUME TypeOK, Pending, OwnInv, Rooted, NEW o \in Block, NEW b \in Block, Swap(o, b)
  PROVE  OwnInv'
<1>1. /\ pc = "run" /\ pc' = pc /\ after' = after /\ clearing' = clearing
      /\ doomed' = doomed /\ corpses' = corpses /\ loose' = loose
      /\ Freed(buf[o], size[buf[o]])
      /\ barriers # <<>> /\ b \in Top.raws /\ o \in Reached /\ buf[o] # None
      /\ objects' = objects /\ buf' = [buf EXCEPT ![o] = b]
      /\ barriers' = SetTop([Top EXCEPT !.raws = @ \ {b}])
      /\ grown = {} /\ exposed = {} /\ grown' = grown /\ exposed' = exposed
  BY DEF Swap, Run, gcVars
<1>13. /\ Held = AllTentative /\ Pool = loose
       /\ Held' = AllTentative' /\ Pool' = loose' /\ Growing'
  BY <1>1, NothingGrows
<1>2. /\ doomed = {} /\ corpses = {} /\ clearing = {} /\ Stages' /\ Asked'
  BY <1>1, QuietOwn
<1>3. o \in objects /\ buf[o] \in Block
  BY <1>1, ReachedObjects DEF TypeOK
<1>4. /\ barriers' = SetTop([objs |-> Top.objs, raws |-> Top.raws \ {b},
                             buckets |-> Top.buckets])
      /\ Top.buckets \in Seq(SUBSET Block)
  BY <1>1, TopTypes, Updates
<1>5. /\ StackApart' /\ AllTentative' = AllTentative \ {b} /\ b \in AllTentative
  <2>1. /\ StackApart' /\ Tentative(Top) \subseteq AllTentative
        /\ AllTentative' = AllTentative \ (Tentative(Top) \ (Top.objs \union (Top.raws \ {b})))
        /\ Top.objs \cap Top.raws = {}
    BY <1>1, <1>4, AnchorsGo
  <2>2. QED
    BY <1>1, <2>1 DEF Tentative
<1>6. /\ b \notin Buffers /\ buf'[o] = b /\ buf[o] \in Buffers
      /\ \A x \in objects : x # o => buf'[x] = buf[x]
  BY <1>1, <1>3, <1>5, <1>13 DEF TypeOK, OwnInv, Apart, Buffers
<1>7. Buffers' = (Buffers \ {buf[o]}) \union {b}
  <2>1. ASSUME NEW x \in Buffers' PROVE x \in (Buffers \ {buf[o]}) \union {b}
    BY <1>1, <1>2, <1>3, <1>6, <2>1 DEF Buffers, OwnInv, BuffersApart
  <2>2. ASSUME NEW x \in Buffers, x # buf[o] PROVE x \in Buffers'
    BY <1>1, <1>2, <1>3, <1>6, <2>2 DEF Buffers
  <2>3. b \in Buffers'
    BY <1>1, <1>3, <1>6, NoneAssumption DEF Buffers
  <2>4. QED
    BY <2>1, <2>2, <2>3
<1>8. BuffersApart'
  <2>1. \A x \in objects : buf[x] # b
    BY <1>6, NoneAssumption DEF Buffers
  <2>2. QED
    BY <1>1, <1>2, <1>6, <2>1 DEF OwnInv, BuffersApart
<1>9. Live' = Live \ {buf[o]}
  BY <1>1, <1>3, LiveChanges
<1>10. Apart'
  BY <1>1, <1>2, <1>5, <1>7, <1>13 DEF OwnInv, Apart
<1>11. Covered'
  BY <1>1, <1>2, <1>5, <1>6, <1>7, <1>9, <1>13 DEF OwnInv, Apart, Covered
<1>12. QED
  BY <1>2, <1>5, <1>8, <1>10, <1>11, <1>13 DEF OwnInv

\* A request for a block to grow.
LEMMA RequestGrows ==
  ASSUME TypeOK, Rooted, NEW r \in Requests
  PROVE  /\ r.nsz \in Size
         /\ r.kind = "grow" => r.block \in loose \union {buf[o] : o \in objects \cap Reached}
         /\ grown # {} => /\ grown \subseteq loose /\ r.kind = "grow"
                          /\ r.block \in loose \ grown
<1>1. r.nsz \in Size
  BY DEF Requests, Fresh, Growth
<1>2. r.kind = "grow" => r.block \in loose \union {buf[o] : o \in objects \cap Reached}
  BY ReachedObjects DEF Requests, Fresh, Growth, Growable
<1>3. grown # {} => /\ grown \subseteq loose /\ r.kind = "grow"
                    /\ r.block \in loose \ grown
  BY DEF Requests, Growth
<1>4. QED
  BY <1>1, <1>2, <1>3

LEMMA AllocateOwn ==
  ASSUME TypeOK, Pending, OwnInv, Rooted, NEW r \in Requests, Allocate(r)
  PROVE  OwnInv'
<1>1. /\ pc = "run" /\ after = "run" /\ doomed = {} /\ corpses = {} /\ clearing = {}
      /\ req' = r /\ size' = size /\ buf' = buf /\ loose' = loose
      /\ barriers' = barriers /\ corpses' = corpses /\ clearing' = clearing
      /\ exposed = {} /\ exposed' = exposed /\ grown' = grown
  BY QuietOwn DEF Allocate
<1>2. /\ r.nsz \in Size
      /\ r.kind = "grow" => r.block \in loose \union {buf[o] : o \in objects \cap Reached}
      /\ grown # {} => /\ grown \subseteq loose /\ r.kind = "grow"
                       /\ r.block \in loose \ grown
  BY RequestGrows
<1>3. ASSUME InAlloc' PROVE Growing'
  BY <1>1, <1>2, <1>3 DEF OwnInv, Growing, Top
<1>4. CASE StartCollect(r.nsz, "alloc")
  <2>1. StackApart' /\ BuffersApart' /\ Apart' /\ Covered' /\ Stages'
    BY <1>1, <1>4, CollectOwn
  <2>2. Asked'
    BY <1>1, <1>2, <1>4 DEF Asked, InAlloc, StartCollect
  <2>3. Growing'
    BY <1>3, <1>4 DEF InAlloc, StartCollect
  <2>4. QED
    BY <2>1, <2>2, <2>3 DEF OwnInv
<1>5. CASE /\ pc' = "alloc"
           /\ UNCHANGED <<objects, cycles, after, doomed, need>>
  <2>1. StackApart' /\ AllTentative' = AllTentative
    BY <1>1, OwnSame DEF OwnInv
  <2>2. BuffersApart' /\ Apart' /\ Covered'
    BY <1>1, <1>5, <2>1, UntouchedOwn
  <2>3. Stages'
    BY <1>1, <1>5 DEF Stages, TearingDown
  <2>4. Asked'
    BY <1>1, <1>2, <1>5 DEF Asked, InAlloc
  <2>5. Growing'
    BY <1>3, <1>5 DEF InAlloc
  <2>6. QED
    BY <2>1, <2>2, <2>3, <2>4, <2>5 DEF OwnInv
<1>6. QED
  BY <1>4, <1>5 DEF Allocate

\* The anchor of a block that has grown is taken off.
LEMMA CommitGrownOwn ==
  ASSUME TypeOK, Pending, OwnInv, NEW b \in Block, CommitGrown(b)
  PROVE  OwnInv'
<1>1. /\ pc = "run" /\ pc' = pc /\ after' = after /\ clearing' = clearing
      /\ doomed' = doomed /\ corpses' = corpses /\ objects' = objects
      /\ buf' = buf /\ size' = size /\ loose' = loose /\ exposed' = exposed
      /\ b \in grown /\ grown' = grown \ {b}
      /\ barriers' = SetTop([Top EXCEPT !.raws = @ \ {b}])
  BY DEF CommitGrown, heapVars, gcVars
<1>2. barriers # <<>> /\ grown \subseteq Top.raws /\ exposed = {}
  BY <1>1 DEF OwnInv, Growing
<1>3. Stages' /\ Asked'
  BY <1>1, QuietOwn
<1>4. /\ barriers' = SetTop([objs |-> Top.objs, raws |-> Top.raws \ {b},
                             buckets |-> Top.buckets])
      /\ Top.buckets \in Seq(SUBSET Block)
  BY <1>1, <1>2, TopTypes, Updates
<1>5. StackApart' /\ AllTentative' = AllTentative \ {b}
  <2>1. /\ StackApart' /\ Tentative(Top) \subseteq AllTentative
        /\ AllTentative' = AllTentative
                              \ (Tentative(Top) \ (Top.objs \union (Top.raws \ {b})))
        /\ Top.objs \cap Top.raws = {}
    BY <1>2, <1>4, AnchorsGo
  <2>2. QED
    BY <1>1, <1>2, <2>1 DEF Tentative
<1>6. BuffersApart' /\ Buffers' = Buffers /\ Pool' = Pool
  BY <1>1, OwnSame DEF OwnInv
<1>7. Held' = Held
  BY <1>1, <1>5 DEF Held
<1>8. Live' = Live
  BY <1>1 DEF Live, Free
<1>9. Apart' /\ Covered'
  BY <1>1, <1>6, <1>7, <1>8 DEF OwnInv, Apart, Covered
<1>10. Growing'
  <2>1. PICK bar : bar.raws = Top.raws \ {b} /\ barriers' = SetTop(bar)
    BY <1>4
  <2>2. Top' = bar /\ barriers' # <<>>
    BY <1>2, <2>1 DEF Top, SetTop, TypeOK
  <2>3. ~InAlloc' /\ grown' \subseteq Top'.raws
    BY <1>1, <1>2, <2>1, <2>2, QuietOwn DEF InAlloc
  <2>4. QED
    BY <1>1, <1>2, <1>6, <1>5, <2>2, <2>3 DEF OwnInv, Growing
<1>11. QED
  BY <1>3, <1>5, <1>6, <1>9, <1>10 DEF OwnInv

LEMMA ClientOwn == TypeOK /\ Pending /\ OwnInv /\ Rooted /\ Client => OwnInv'
<1>1. SUFFICES ASSUME TypeOK, Pending, OwnInv, Rooted, Client PROVE OwnInv'
  OBVIOUS
<1> USE <1>1
<1>2. ASSUME NEW r \in Requests, Allocate(r) PROVE OwnInv'
  BY <1>2, AllocateOwn
<1>3. ASSUME pc = "run", pc' = pc, after' = after, clearing' = clearing,
             doomed' = doomed, corpses' = corpses, objects' = objects,
             loose' = loose, buf' = buf, size' = size,
             grown = {}, exposed = {}, grown' = grown, exposed' = exposed,
             StackApart', AllTentative' = AllTentative
      PROVE  OwnInv'
  BY <1>3, QuietOwn, UntouchedOwn, NothingGrows DEF OwnInv
<1>4. CASE PushBarrier
  <2>1. StackApart' /\ AllTentative' = AllTentative
    BY <1>4, TopAdded DEF PushBarrier, TypeOK, OwnInv
  <2>2. QED
    BY <1>3, <1>4, <2>1 DEF PushBarrier, Run, NoFree, heapVars, gcVars
<1>5. CASE PopBarrier
  <2>1. /\ pc = "run" /\ pc' = "clear" /\ after' = "run" /\ clearing' = ToClear
        /\ doomed' = doomed /\ corpses' = corpses /\ objects' = objects
        /\ loose' = loose /\ buf' = buf /\ size' = size
        /\ barriers # <<>> /\ barriers' = Below
        /\ grown = {} /\ exposed = {} /\ grown' = {} /\ exposed' = grown
    BY <1>5 DEF PopBarrier, Run, Interrupt, heapVars, gcVars
  <2>2. /\ doomed = {} /\ corpses = {} /\ clearing = {}
    BY <2>1, QuietOwn
  <2>3. StackApart' /\ BuffersApart' /\ Apart' /\ Covered' /\ Growing'
    BY <2>1, <2>2, LeaveOwn DEF OwnInv
  <2>4. Stages' /\ Asked'
    BY <2>1, <2>2 DEF Stages, Asked, InAlloc, TearingDown
  <2>5. QED
    BY <2>3, <2>4 DEF OwnInv
<1>6. ASSUME NEW q \in Seq(SUBSET Block), barriers # <<>>,
             barriers' = SetTop([Top EXCEPT !.buckets = q])
      PROVE  StackApart' /\ AllTentative' = AllTentative
  <2>1. barriers' = SetTop([objs |-> Top.objs, raws |-> Top.raws, buckets |-> q])
    BY <1>6, TopTypes, Updates
  <2>2. /\ StackApart'
        /\ AllTentative' = AllTentative \ (Tentative(Top) \ (Top.objs \union Top.raws))
    BY <1>6, <2>1, AnchorsGo
  <2>3. QED
    BY <2>2 DEF Tentative
<1>7. CASE AddBucket
  <2>1. Append(Top.buckets, {}) \in Seq(SUBSET Block)
    BY <1>7, TopTypes, AppendProperties DEF AddBucket
  <2>2. /\ barriers # <<>> 
        /\ barriers' = SetTop([Top EXCEPT !.buckets = Append(Top.buckets, {})])
    BY <1>7, TopTypes DEF AddBucket, Barrier
  <2>3. StackApart' /\ AllTentative' = AllTentative
    BY <1>6, <2>1, <2>2
  <2>4. QED
    BY <1>3, <1>7, <2>3 DEF AddBucket, Run, NoFree, heapVars, gcVars
<1>8. CASE RemBucket
  <2>1. SubSeq(Top.buckets, 1, Len(Top.buckets) - 1) \in Seq(SUBSET Block)
    BY <1>8, TopTypes, SubSeqProperties DEF RemBucket
  <2>2. StackApart' /\ AllTentative' = AllTentative
    BY <1>6, <1>8, <2>1 DEF RemBucket
  <2>3. QED
    BY <1>3, <1>8, <2>2 DEF RemBucket, Run, NoFree, heapVars, gcVars
<1>9. CASE CollectNow
  <2>1. /\ StartCollect(0, "run") /\ pc = "run"
        /\ barriers' = barriers /\ loose' = loose /\ buf' = buf
        /\ corpses' = corpses /\ clearing' = clearing /\ size' = size
        /\ grown = {} /\ exposed = {} /\ grown' = grown /\ exposed' = exposed
    BY <1>9 DEF CollectNow
  <2>2. after = "run"
    BY <2>1, QuietOwn
  <2>3. StackApart' /\ BuffersApart' /\ Apart' /\ Covered' /\ Stages'
    BY <2>1, <2>2, CollectOwn
  <2>4. Asked'
    BY <2>1 DEF Asked, InAlloc, StartCollect
  <2>5. QED
    BY <2>1, <2>3, <2>4, NothingGrows DEF OwnInv
<1>10. CASE FreeEngine
  <2>1. /\ pc = "run" /\ pc' = "clear" /\ after' = "objects" /\ clearing' = loose
        /\ loose' = {} /\ size' = size /\ objects' = objects /\ buf' = buf
        /\ barriers' = barriers /\ doomed' = doomed /\ corpses' = corpses
        /\ grown = {} /\ exposed = {} /\ grown' = grown /\ exposed' = exposed
    BY <1>10 DEF FreeEngine, gcVars
  <2>8. /\ Held = AllTentative /\ Pool = loose
        /\ Held' = AllTentative' /\ Pool' = loose' /\ Growing'
    BY <2>1, NothingGrows
  <2>2. doomed = {} /\ corpses = {} /\ clearing = {}
    BY <2>1, QuietOwn
  <2>3. /\ StackApart' /\ AllTentative' = AllTentative
        /\ BuffersApart' /\ Buffers' = Buffers
    BY <2>1, OwnSame DEF OwnInv
  <2>4. Live' = Live
    BY <2>1 DEF Live, Free
  <2>5. Apart' /\ Covered'
    BY <2>1, <2>2, <2>3, <2>4, <2>8 DEF OwnInv, Apart, Covered
  <2>6. Stages' /\ Asked'
    BY <2>1, <2>2 DEF Stages, Asked, InAlloc, TearingDown
  <2>7. QED
    BY <2>3, <2>5, <2>6, <2>8 DEF OwnInv
<1>11. ASSUME NEW o \in Block, NEW b \in Block \union {None}, NEW R, Commit(o, b, R)
       PROVE  OwnInv'
  BY <1>11, CommitOwn
<1>12. ASSUME NEW b \in Block, CommitLoose(b) PROVE OwnInv'
  <2>1. /\ pc = "run" /\ pc' = pc /\ after' = after /\ clearing' = clearing
        /\ doomed' = doomed /\ corpses' = corpses /\ objects' = objects
        /\ buf' = buf /\ size' = size /\ loose' = loose \union {b}
        /\ barriers # <<>> /\ b \in Top.raws
        /\ barriers' = SetTop([Top EXCEPT !.raws = @ \ {b}])
        /\ grown = {} /\ exposed = {} /\ grown' = grown /\ exposed' = exposed
    BY <1>12 DEF CommitLoose, Run, NoFree, gcVars
  <2>9. /\ Held = AllTentative /\ Pool = loose
        /\ Held' = AllTentative' /\ Pool' = loose' /\ Growing'
    BY <2>1, NothingGrows
  <2>2. Stages' /\ Asked'
    BY <2>1, QuietOwn
  <2>3. /\ barriers' = SetTop([objs |-> Top.objs, raws |-> Top.raws \ {b},
                               buckets |-> Top.buckets])
        /\ Top.buckets \in Seq(SUBSET Block)
    BY <2>1, TopTypes, Updates
  <2>4. /\ StackApart' /\ AllTentative' = AllTentative \ {b} /\ b \in AllTentative
    <3>1. /\ StackApart' /\ Tentative(Top) \subseteq AllTentative
          /\ AllTentative' = AllTentative
                                \ (Tentative(Top) \ (Top.objs \union (Top.raws \ {b})))
          /\ Top.objs \cap Top.raws = {}
      BY <2>1, <2>3, AnchorsGo
    <3>2. QED
      BY <2>1, <3>1 DEF Tentative
  <2>5. BuffersApart' /\ Buffers' = Buffers
    BY <2>1, OwnSame DEF OwnInv
  <2>6. Live' = Live
    BY <2>1 DEF Live, Free
  <2>7. Apart' /\ Covered'
    BY <2>1, <2>4, <2>5, <2>6, <2>9 DEF OwnInv, Apart, Covered
  <2>8. QED
    BY <2>2, <2>4, <2>5, <2>7, <2>9 DEF OwnInv
<1>13. ASSUME NEW b \in Block, Cancel(b) PROVE OwnInv'
  <2>1. /\ pc = "run" /\ pc' = pc /\ after' = after /\ clearing' = clearing
        /\ doomed' = doomed /\ corpses' = corpses /\ objects' = objects
        /\ buf' = buf /\ Freed(b, size[b]) /\ loose' = loose
        /\ barriers # <<>> /\ b \in Tentative(Top)
        /\ barriers' = SetTop([objs |-> Top.objs \ {b}, raws |-> Top.raws \ {b},
                               buckets |-> Top.buckets])
        /\ grown = {} /\ exposed = {} /\ grown' = grown /\ exposed' = exposed
    BY <1>13 DEF Cancel, Run, gcVars, heapVars
  <2>9. /\ Held = AllTentative /\ Pool = loose
        /\ Held' = AllTentative' /\ Pool' = loose' /\ Growing'
    BY <2>1, NothingGrows
  <2>2. Stages' /\ Asked'
    BY <2>1, QuietOwn
  <2>3. Top.buckets \in Seq(SUBSET Block)
    BY <2>1, TopTypes
  <2>4. /\ StackApart' /\ AllTentative' = AllTentative \ {b} /\ b \in AllTentative
    <3>1. /\ StackApart' /\ Tentative(Top) \subseteq AllTentative
          /\ AllTentative' = AllTentative
               \ (Tentative(Top) \ ((Top.objs \ {b}) \union (Top.raws \ {b})))
      BY <2>1, <2>3, AnchorsGo
    <3>2. QED
      BY <2>1, <3>1 DEF Tentative
  <2>5. BuffersApart' /\ Buffers' = Buffers
    BY <2>1, OwnSame DEF OwnInv
  <2>6. Live' = Live \ {b}
    BY <2>1, LiveChanges
  <2>7. Apart' /\ Covered'
    BY <2>1, <2>4, <2>5, <2>6, <2>9 DEF OwnInv, Apart, Covered
  <2>8. QED
    BY <2>2, <2>4, <2>5, <2>7, <2>9 DEF OwnInv
<1>14. ASSUME NEW b \in Block, FreeRaw(b) PROVE OwnInv'
  <2>1. /\ pc = "run" /\ pc' = pc /\ after' = after /\ clearing' = clearing
        /\ doomed' = doomed /\ corpses' = corpses /\ objects' = objects
        /\ buf' = buf /\ Freed(b, size[b]) /\ b \in loose /\ loose' = loose \ {b}
        /\ barriers' = barriers
        /\ grown = {} /\ exposed = {} /\ grown' = grown /\ exposed' = exposed
    BY <1>14 DEF FreeRaw, Run, gcVars
  <2>7. /\ Held = AllTentative /\ Pool = loose
        /\ Held' = AllTentative' /\ Pool' = loose' /\ Growing'
    BY <2>1, NothingGrows
  <2>2. Stages' /\ Asked'
    BY <2>1, QuietOwn
  <2>3. /\ StackApart' /\ AllTentative' = AllTentative
        /\ BuffersApart' /\ Buffers' = Buffers
    BY <2>1, OwnSame DEF OwnInv
  <2>4. Live' = Live \ {b}
    BY <2>1, LiveChanges
  <2>5. Apart' /\ Covered'
    BY <2>1, <2>3, <2>4, <2>7 DEF OwnInv, Apart, Covered
  <2>6. QED
    BY <2>2, <2>3, <2>5, <2>7 DEF OwnInv
<1>15. ASSUME NEW o \in Block, NEW b \in Block, Swap(o, b) PROVE OwnInv'
  BY <1>15, SwapOwn
<1>16. ASSUME NEW o, NEW p, NEW S, Link(o, p) \/ Unlink(o, p) \/ SetRoots(S)
       PROVE  OwnInv'
  <2>1. /\ pc = "run" /\ pc' = pc /\ after' = after /\ clearing' = clearing
        /\ doomed' = doomed /\ corpses' = corpses /\ objects' = objects
        /\ loose' = loose /\ buf' = buf /\ size' = size /\ barriers' = barriers
        /\ grown = {} /\ exposed = {} /\ grown' = grown /\ exposed' = exposed
    BY <1>16 DEF Link, Unlink, SetRoots, Run, NoFree, gcVars
  <2>2. QED
    BY <1>3, <2>1, OwnSame DEF OwnInv
<1>17. QED
  BY <1>2, <1>4, <1>5, <1>7, <1>8, <1>9, <1>10, <1>11, <1>12, <1>13, <1>14,
     <1>15, <1>16, CommitGrownOwn
  DEF Client

LEMMA InitOwn == Init => OwnInv
<1>1. SUFFICES ASSUME Init PROVE OwnInv
  OBVIOUS
<1>2. /\ objects = {} /\ doomed = {} /\ corpses = {} /\ clearing = {} /\ loose = {}
      /\ barriers = <<>> /\ pc = "run" /\ after = "run" /\ grown = {} /\ exposed = {}
      /\ \A b \in Block : size[b] = 0
  BY <1>1 DEF Init
<1>3. Held = {} /\ Pool = {} /\ Buffers = {} /\ Live = {} /\ Growing
  BY <1>2 DEF AllTentative, Held, Pool, Buffers, Live, Free, Growing
<1>4. Stages /\ Asked /\ StackApart /\ BuffersApart
  BY <1>2 DEF Stages, Asked, StackApart, BuffersApart, TearingDown, InAlloc
<1>5. Apart /\ Covered
  BY <1>2, <1>3 DEF Apart, Covered
<1>6. QED
  BY <1>3, <1>4, <1>5 DEF OwnInv

LEMMA OwnStutters == OwnInv /\ UNCHANGED vars => OwnInv'
<1>1. SUFFICES ASSUME OwnInv, UNCHANGED vars PROVE OwnInv'
  OBVIOUS
<1>2. /\ objects' = objects /\ doomed' = doomed /\ corpses' = corpses
      /\ clearing' = clearing /\ loose' = loose /\ buf' = buf /\ size' = size
      /\ barriers' = barriers /\ pc' = pc /\ after' = after /\ req' = req
      /\ grown' = grown /\ exposed' = exposed
  BY <1>1 DEF vars, heapVars, gcVars
<1>3. StackApart' /\ AllTentative' = AllTentative /\ Buffers' = Buffers
  BY <1>1, <1>2, OwnSame DEF OwnInv
<1>4. BuffersApart' /\ Apart' /\ Covered'
  BY <1>1, <1>2, <1>3, UntouchedOwn
<1>5. Stages' /\ Asked'
  BY <1>1, <1>2 DEF OwnInv, Stages, Asked, InAlloc, TearingDown
<1>6. Growing'
  BY <1>1, <1>2, <1>3 DEF OwnInv, Growing, InAlloc, Top
<1>7. QED
  BY <1>3, <1>4, <1>5, <1>6 DEF OwnInv

\* Objects, anchors, the string pool and finalizers divide the allocated blocks
\* among themselves, through every collection and every interrupt, once a block
\* that grows is counted for its owner and one that an interrupt took from the
\* pool for the barrier that is cleared.
THEOREM OwnersDivide == Spec => []OwnInv
<1>1. MemInv /\ NoDangling /\ OwnInv /\ [Next]_vars => OwnInv'
  <2>1. SUFFICES ASSUME TypeOK, Pending, NoDangling, OwnInv, [Next]_vars PROVE OwnInv'
    BY DEF MemInv
  <2>2. CASE Inside
    BY <2>1, <2>2, InsideOwn
  <2>3. CASE Client
    <3>1. pc = "run"
      BY <2>3 DEF Client, Allocate, PushBarrier, PopBarrier, AddBucket, RemBucket,
         CollectNow, FreeEngine, Commit, CommitLoose, CommitGrown, Cancel, FreeRaw,
         Swap, Link, Unlink, SetRoots, Run
    <3>2. Rooted
      BY <2>1, <3>1, QuietOwn DEF NoDangling, Rooted
    <3>3. QED
      BY <2>1, <2>3, <3>2, ClientOwn
  <2>4. CASE UNCHANGED vars
    BY <2>1, <2>4, OwnStutters
  <2>5. QED
    BY <2>1, <2>2, <2>3, <2>4 DEF Next
<1>2. QED
  BY <1>1, InitOwn, WithinLimit, NoDanglingHolds, PTL DEF Spec

\* An engine that has been freed has given back all it allocated, whatever was
\* tentative, rooted or garbage (tazE_freeEngine).
THEOREM NothingLeftHolds == Spec => []NothingLeft
<1>1. OwnInv => NothingLeft
  <2>1. SUFFICES ASSUME OwnInv, pc = "freed" PROVE \A b \in Block : Free(b)
    BY DEF NothingLeft
  <2>2. /\ objects = {} /\ doomed = {} /\ corpses = {} /\ clearing = {}
        /\ loose = {} /\ barriers = <<>>
    BY <2>1 DEF OwnInv, Stages, TearingDown
  <2>3. Held = {} /\ Pool = {} /\ Buffers = {}
    BY <2>2 DEF AllTentative, Held, Pool, Buffers
  <2>4. QED
    BY <2>1, <2>2, <2>3 DEF OwnInv, Covered, Live
<1>2. QED
  BY <1>1, OwnersDivide, PTL

\* Where the elements of three sequences come to stand in their concatenation.
LEMMA ConcatThree ==
  ASSUME NEW S, NEW s \in Seq(S), NEW t \in Seq(S), NEW u \in Seq(S)
  PROVE  /\ DOMAIN (s \o t \o u) = 1 .. Len(s) + Len(t) + Len(u)
         /\ \A i \in 1 .. Len(s) : (s \o t \o u)[i] = s[i]
         /\ \A i \in 1 .. Len(t) : (s \o t \o u)[Len(s) + i] = t[i]
         /\ \A i \in 1 .. Len(u) : (s \o t \o u)[Len(s) + Len(t) + i] = u[i]
<1>1. /\ Len(s) \in Nat /\ Len(t) \in Nat /\ Len(u) \in Nat
  OBVIOUS
<1>2. /\ s \o t \in Seq(S) /\ Len(s \o t) = Len(s) + Len(t)
      /\ \A i \in 1 .. Len(s) + Len(t) :
           (s \o t)[i] = IF i <= Len(s) THEN s[i] ELSE t[i - Len(s)]
  BY ConcatProperties
<1>3. /\ s \o t \o u \in Seq(S) /\ Len(s \o t \o u) = Len(s \o t) + Len(u)
      /\ \A i \in 1 .. Len(s \o t) + Len(u) :
           (s \o t \o u)[i] = IF i <= Len(s \o t) THEN (s \o t)[i]
                              ELSE u[i - Len(s \o t)]
  BY <1>2, ConcatProperties
<1>4. DOMAIN (s \o t \o u) = 1 .. Len(s) + Len(t) + Len(u)
  BY <1>2, <1>3
<1>5. \A i \in 1 .. Len(s) : (s \o t \o u)[i] = s[i]
  BY <1>1, <1>2, <1>3
<1>6. ASSUME NEW i \in 1 .. Len(t) PROVE (s \o t \o u)[Len(s) + i] = t[i]
  BY <1>1, <1>2, <1>3
<1>7. ASSUME NEW i \in 1 .. Len(u) PROVE (s \o t \o u)[Len(s) + Len(t) + i] = u[i]
  BY <1>1, <1>2, <1>3
<1>8. QED
  BY <1>4, <1>5, <1>6, <1>7

\* The list in which SoleOwner counts: five owners, then the two anchor lists of
\* every barrier.
LEMMA OwnedByIs ==
  ASSUME TypeOK, NEW b, NEW n, n = Len(barriers)
  PROVE  /\ n \in Nat /\ DOMAIN barriers = 1 .. n
         /\ DOMAIN OwnedBy(b) = 1 .. 5 + n + n
         /\ OwnedBy(b)[1] <=> b \in objects
         /\ OwnedBy(b)[2] <=> b \in doomed
         /\ OwnedBy(b)[3] <=> b \in corpses
         /\ OwnedBy(b)[4] <=> b \in clearing
         /\ OwnedBy(b)[5] <=> b \in loose
         /\ \A i \in 1 .. n : OwnedBy(b)[5 + i] <=> b \in barriers[i].objs
         /\ \A i \in 1 .. n : OwnedBy(b)[5 + n + i] <=> b \in barriers[i].raws
<1> DEFINE A == <<b \in objects, b \in doomed, b \in corpses, b \in clearing, b \in loose>>
           B == [i \in DOMAIN barriers |-> b \in barriers[i].objs]
           C == [i \in DOMAIN barriers |-> b \in barriers[i].raws]
<1>1. n \in Nat /\ DOMAIN barriers = 1 .. n
  BY DEF TypeOK
<1>2. A \in Seq(BOOLEAN) /\ Len(A) = 5
  OBVIOUS
<1>3. /\ A[1] <=> b \in objects
      /\ A[2] <=> b \in doomed
      /\ A[3] <=> b \in corpses
      /\ A[4] <=> b \in clearing
      /\ A[5] <=> b \in loose
  OBVIOUS
<1>4. B \in [1 .. n -> BOOLEAN] /\ C \in [1 .. n -> BOOLEAN]
  BY <1>1
<1>5. B \in Seq(BOOLEAN) /\ C \in Seq(BOOLEAN) /\ Len(B) = n /\ Len(C) = n
  BY <1>1, <1>4
<1>6. \A i \in 1 .. n : (B[i] <=> b \in barriers[i].objs) /\ (C[i] <=> b \in barriers[i].raws)
  BY <1>1
<1>7. OwnedBy(b) = A \o B \o C
  BY DEF OwnedBy
<1> HIDE DEF A, B, C
<1>8. /\ DOMAIN OwnedBy(b) = 1 .. Len(A) + Len(B) + Len(C)
      /\ \A i \in 1 .. Len(A) : OwnedBy(b)[i] = A[i]
      /\ \A i \in 1 .. Len(B) : OwnedBy(b)[Len(A) + i] = B[i]
      /\ \A i \in 1 .. Len(C) : OwnedBy(b)[Len(A) + Len(B) + i] = C[i]
  <2>1. /\ DOMAIN (A \o B \o C) = 1 .. Len(A) + Len(B) + Len(C)
        /\ \A i \in 1 .. Len(A) : (A \o B \o C)[i] = A[i]
        /\ \A i \in 1 .. Len(B) : (A \o B \o C)[Len(A) + i] = B[i]
        /\ \A i \in 1 .. Len(C) : (A \o B \o C)[Len(A) + Len(B) + i] = C[i]
    <3>1. A \in Seq(BOOLEAN) /\ B \in Seq(BOOLEAN) /\ C \in Seq(BOOLEAN)
      BY <1>2, <1>5, Zenon
    <3>2. QED
      <4>1. ASSUME NEW s \in Seq(BOOLEAN), NEW t \in Seq(BOOLEAN), NEW u \in Seq(BOOLEAN)
            PROVE  /\ DOMAIN (s \o t \o u) = 1 .. Len(s) + Len(t) + Len(u)
                   /\ \A i \in 1 .. Len(s) : (s \o t \o u)[i] = s[i]
                   /\ \A i \in 1 .. Len(t) : (s \o t \o u)[Len(s) + i] = t[i]
                   /\ \A i \in 1 .. Len(u) : (s \o t \o u)[Len(s) + Len(t) + i] = u[i]
        BY ConcatThree
      <4>2. QED
        BY <3>1, <4>1, Zenon
  <2>2. QED
    BY <2>1, <1>7, Zenon
<1>9. /\ OwnedBy(b)[1] = A[1] /\ OwnedBy(b)[2] = A[2] /\ OwnedBy(b)[3] = A[3]
      /\ OwnedBy(b)[4] = A[4] /\ OwnedBy(b)[5] = A[5]
  <2>1. Len(A) = 5 /\ \A i \in 1 .. Len(A) : OwnedBy(b)[i] = A[i]
    BY <1>2, <1>8
  <2>2. 1 \in 1 .. 5 /\ 2 \in 1 .. 5 /\ 3 \in 1 .. 5 /\ 4 \in 1 .. 5 /\ 5 \in 1 .. 5
    OBVIOUS
  <2>3. QED
    BY <2>1, <2>2, Zenon
<1>10. QED
  <2>1. \A i \in 1 .. n : OwnedBy(b)[5 + i] <=> b \in barriers[i].objs
    BY <1>2, <1>5, <1>6, <1>8, Zenon
  <2>2. \A i \in 1 .. n : OwnedBy(b)[5 + n + i] <=> b \in barriers[i].raws
    BY <1>2, <1>5, <1>6, <1>8, Zenon
  <2>3. DOMAIN OwnedBy(b) = 1 .. 5 + n + n
    BY <1>2, <1>5, <1>8, Zenon
  <2>4. QED
    BY <1>1, <1>3, <1>9, <2>1, <2>2, <2>3, Zenon

\* A set in which any two elements are equal has at most one.
LEMMA CountOne ==
  ASSUME NEW S, \A x, y \in S : x = y
  PROVE  Cardinality(S) = IF S = {} THEN 0 ELSE 1
<1>1. CASE S = {}
  BY <1>1, FS_EmptySet
<1>2. CASE S # {}
  <2>1. PICK x \in S : S = {x}
    BY <1>2
  <2>2. QED
    BY <1>2, <2>1, FS_Singleton
<1>3. QED
  BY <1>1, <1>2

\* One more element makes a set one larger.
LEMMA CountWithout ==
  ASSUME NEW S, IsFiniteSet(S), NEW x \in S
  PROVE  Cardinality(S) = Cardinality(S \ {x}) + 1
<1>1. Cardinality(S \ {x}) = Cardinality(S) - 1 /\ Cardinality(S) \in Nat
  BY FS_RemoveElement, FS_CardinalityType
<1>2. QED
  BY <1>1

\* The entries of the list that SoleOwner counts, without the second one that a
\* growing block, or one an interrupt took from the string pool, has.
Second(b, i) ==
  \/ i = 5 /\ b \in exposed
  \/ i = 5 + Len(barriers) + Len(barriers) /\ b \in grown
Listings(b) == {i \in DOMAIN OwnedBy(b) : OwnedBy(b)[i]}
Firsts(b) == {i \in Listings(b) : ~Second(b, i)}
Listed(b) ==
  b \in objects \union doomed \union corpses \union clearing \union Pool \union Held

\* What a listing says.
LEMMA ListingsSay ==
  ASSUME TypeOK, OwnInv, NEW b \in Block, NEW n, n = Len(barriers)
  PROVE  /\ n \in Nat /\ DOMAIN barriers = 1 .. n
         /\ \A i \in Listings(b) :
              \/ i = 1 /\ b \in objects
              \/ i = 2 /\ b \in doomed
              \/ i = 3 /\ b \in corpses
              \/ i = 4 /\ b \in clearing
              \/ i = 5 /\ b \in loose
              \/ \E k \in 1 .. n : i = 5 + k /\ b \in barriers[k].objs
              \/ \E k \in 1 .. n : i = 5 + n + k /\ b \in barriers[k].raws
         /\ b \in objects => 1 \in Listings(b)
         /\ b \in doomed => 2 \in Listings(b)
         /\ b \in corpses => 3 \in Listings(b)
         /\ b \in clearing => 4 \in Listings(b)
         /\ b \in loose => 5 \in Listings(b)
         /\ \A k \in 1 .. n : b \in barriers[k].objs => 5 + k \in Listings(b)
         /\ \A k \in 1 .. n : b \in barriers[k].raws => 5 + n + k \in Listings(b)
<1>1. /\ n \in Nat /\ DOMAIN barriers = 1 .. n
      /\ DOMAIN OwnedBy(b) = 1 .. 5 + n + n
      /\ OwnedBy(b)[1] <=> b \in objects
      /\ OwnedBy(b)[2] <=> b \in doomed
      /\ OwnedBy(b)[3] <=> b \in corpses
      /\ OwnedBy(b)[4] <=> b \in clearing
      /\ OwnedBy(b)[5] <=> b \in loose
      /\ \A i \in 1 .. n : OwnedBy(b)[5 + i] <=> b \in barriers[i].objs
      /\ \A i \in 1 .. n : OwnedBy(b)[5 + n + i] <=> b \in barriers[i].raws
  BY OwnedByIs, Zenon
<1>2. \A i \in DOMAIN OwnedBy(b) :
        \/ i = 1 \/ i = 2 \/ i = 3 \/ i = 4 \/ i = 5
        \/ \E k \in 1 .. n : i = 5 + k
        \/ \E k \in 1 .. n : i = 5 + n + k
  <2>1. SUFFICES ASSUME NEW i \in 1 .. 5 + n + n
                 PROVE  \/ i = 1 \/ i = 2 \/ i = 3 \/ i = 4 \/ i = 5
                        \/ \E k \in 1 .. n : i = 5 + k
                        \/ \E k \in 1 .. n : i = 5 + n + k
    BY <1>1, Zenon
  <2>2. n \in Nat
    BY <1>1, Zenon
  <2>3. CASE i > 5 /\ i <= 5 + n
    <3>1. i - 5 \in 1 .. n /\ i = 5 + (i - 5)
      BY <2>2, <2>3
    <3>2. QED
      BY <3>1
  <2>4. CASE i > 5 + n
    <3>1. i - (5 + n) \in 1 .. n /\ i = 5 + n + (i - (5 + n))
      BY <2>2, <2>4
    <3>2. QED
      BY <3>1
  <2>5. QED
    BY <2>2, <2>3, <2>4
<1>3. \A i \in Listings(b) :
        \/ i = 1 /\ b \in objects
        \/ i = 2 /\ b \in doomed
        \/ i = 3 /\ b \in corpses
        \/ i = 4 /\ b \in clearing
        \/ i = 5 /\ b \in loose
        \/ \E k \in 1 .. n : i = 5 + k /\ b \in barriers[k].objs
        \/ \E k \in 1 .. n : i = 5 + n + k /\ b \in barriers[k].raws
  <2>1. SUFFICES ASSUME NEW i, i \in Listings(b)
                 PROVE  \/ i = 1 /\ b \in objects
                        \/ i = 2 /\ b \in doomed
                        \/ i = 3 /\ b \in corpses
                        \/ i = 4 /\ b \in clearing
                        \/ i = 5 /\ b \in loose
                        \/ \E k \in 1 .. n : i = 5 + k /\ b \in barriers[k].objs
                        \/ \E k \in 1 .. n : i = 5 + n + k /\ b \in barriers[k].raws
    BY Zenon
  <2>2. i \in DOMAIN OwnedBy(b) /\ OwnedBy(b)[i]
    BY <2>1, Zenon DEF Listings
  <2>3. CASE \E k \in 1 .. n : i = 5 + k
    BY <1>1, <2>2, <2>3, Zenon
  <2>4. CASE \E k \in 1 .. n : i = 5 + n + k
    BY <1>1, <2>2, <2>4, Zenon
  <2>5. CASE i = 1 \/ i = 2 \/ i = 3 \/ i = 4 \/ i = 5
    BY <1>1, <2>2, <2>5, Zenon
  <2>6. QED
    BY <1>2, <2>2, <2>3, <2>4, <2>5, Zenon
<1>4. /\ 1 \in DOMAIN OwnedBy(b) /\ 2 \in DOMAIN OwnedBy(b) /\ 3 \in DOMAIN OwnedBy(b)
      /\ 4 \in DOMAIN OwnedBy(b) /\ 5 \in DOMAIN OwnedBy(b)
      /\ \A k \in 1 .. n : 5 + k \in DOMAIN OwnedBy(b) /\ 5 + n + k \in DOMAIN OwnedBy(b)
  <2>1. n \in Nat
    BY <1>1, Zenon
  <2>2. /\ 1 \in 1 .. 5 + n + n /\ 2 \in 1 .. 5 + n + n /\ 3 \in 1 .. 5 + n + n
        /\ 4 \in 1 .. 5 + n + n /\ 5 \in 1 .. 5 + n + n
        /\ \A k \in 1 .. n : 5 + k \in 1 .. 5 + n + n /\ 5 + n + k \in 1 .. 5 + n + n
    BY <2>1
  <2>3. QED
    BY <1>1, <2>2, Zenon
<1>5. QED
  BY <1>1, <1>3, <1>4, Zenon DEF Listings

\* There is one such entry, and only for a block that has an owner among them.
LEMMA OneFirst ==
  ASSUME TypeOK, OwnInv, NEW b \in Block
  PROVE  /\ \A i, j \in Firsts(b) : i = j
         /\ Firsts(b) # {} <=> Listed(b)
<1> DEFINE n == Len(barriers)
<1>1. /\ n \in Nat /\ DOMAIN barriers = 1 .. n
      /\ \A i \in Listings(b) :
           \/ i = 1 /\ b \in objects
           \/ i = 2 /\ b \in doomed
           \/ i = 3 /\ b \in corpses
           \/ i = 4 /\ b \in clearing
           \/ i = 5 /\ b \in loose
           \/ \E k \in 1 .. n : i = 5 + k /\ b \in barriers[k].objs
           \/ \E k \in 1 .. n : i = 5 + n + k /\ b \in barriers[k].raws
      /\ b \in objects => 1 \in Listings(b)
      /\ b \in doomed => 2 \in Listings(b)
      /\ b \in corpses => 3 \in Listings(b)
      /\ b \in clearing => 4 \in Listings(b)
      /\ b \in loose => 5 \in Listings(b)
      /\ \A k \in 1 .. n : b \in barriers[k].objs => 5 + k \in Listings(b)
      /\ \A k \in 1 .. n : b \in barriers[k].raws => 5 + n + k \in Listings(b)
  BY ListingsSay, Zenon
<1>2. \A k, l \in 1 .. n :
        /\ b \in barriers[k].objs /\ b \in barriers[l].objs => k = l
        /\ b \in barriers[k].raws /\ b \in barriers[l].raws => k = l
        /\ ~(b \in barriers[k].objs /\ b \in barriers[l].raws)
  BY <1>1 DEF OwnInv, StackApart, Tentative
<1>3. \A k \in 1 .. n : /\ b \in barriers[k].objs => b \in AllTentative
                        /\ b \in barriers[k].raws => b \in AllTentative
  <2>1. DOMAIN barriers = 1 .. n
    BY <1>1, Zenon
  <2>2. QED
    BY <2>1 DEF AllTentative, Tentative
<1>4. b \in grown => n \in 1 .. n /\ b \in barriers[n].raws
  <2>1. ASSUME b \in grown PROVE n \in 1 .. n /\ b \in barriers[n].raws
    <3>1. barriers # <<>> /\ b \in Top.raws /\ barriers \in Seq(Barrier)
      BY <2>1 DEF OwnInv, Growing, TypeOK
    <3>2. QED
      BY <3>1 DEF Top
  <2>2. QED
    BY <2>1
<1>5. \A k \in 1 .. n : /\ b \in barriers[k].objs => b \in Held
                        /\ b \in barriers[k].raws => b \in Held \/ (b \in grown /\ k = n)
  BY <1>2, <1>3, <1>4, Zenon DEF Held
<1>6. \A i \in Firsts(b) :
        \/ i = 1 /\ b \in objects
        \/ i = 2 /\ b \in doomed
        \/ i = 3 /\ b \in corpses
        \/ i = 4 /\ b \in clearing
        \/ i = 5 /\ b \in Pool
        \/ \E k \in 1 .. n : i = 5 + k /\ b \in barriers[k].objs /\ b \in Held
        \/ \E k \in 1 .. n : i = 5 + n + k /\ b \in barriers[k].raws /\ b \in Held
  <2>1. SUFFICES ASSUME NEW i \in Firsts(b)
                 PROVE  \/ i = 1 /\ b \in objects
                        \/ i = 2 /\ b \in doomed
                        \/ i = 3 /\ b \in corpses
                        \/ i = 4 /\ b \in clearing
                        \/ i = 5 /\ b \in Pool
                        \/ \E k \in 1 .. n : i = 5 + k /\ b \in barriers[k].objs /\ b \in Held
                        \/ \E k \in 1 .. n : i = 5 + n + k /\ b \in barriers[k].raws /\ b \in Held
    OBVIOUS
  <2>2. i \in Listings(b) /\ ~(i = 5 /\ b \in exposed) /\ ~(i = 5 + n + n /\ b \in grown)
    BY DEF Firsts, Second
  <2>3. QED
    BY <1>1, <1>5, <2>2, Zenon DEF Pool
<1>7. \A i, j \in Firsts(b) : i = j
  <2>1. SUFFICES ASSUME NEW i \in Firsts(b), NEW j \in Firsts(b) PROVE i = j
    OBVIOUS
  <2>2. CASE b \in Held
    <3>1. ~(b \in objects \/ b \in doomed \/ b \in corpses \/ b \in clearing \/ b \in Pool)
      BY <2>2 DEF OwnInv, Apart
    <3>2. CASE \E k \in 1 .. n : i = 5 + k /\ b \in barriers[k].objs
      BY <1>2, <1>6, <3>1, <3>2, Zenon
    <3>3. CASE \E k \in 1 .. n : i = 5 + n + k /\ b \in barriers[k].raws
      BY <1>2, <1>6, <3>1, <3>3, Zenon
    <3>4. QED
      BY <1>6, <3>1, <3>2, <3>3, Zenon
  <2>3. CASE b \notin Held
    <3>1. \/ i = 1 /\ b \in objects
          \/ i = 2 /\ b \in doomed
          \/ i = 3 /\ b \in corpses
          \/ i = 4 /\ b \in clearing
          \/ i = 5 /\ b \in Pool
      BY <1>6, <2>3, Zenon
    <3>2. \/ j = 1 /\ b \in objects
          \/ j = 2 /\ b \in doomed
          \/ j = 3 /\ b \in corpses
          \/ j = 4 /\ b \in clearing
          \/ j = 5 /\ b \in Pool
      BY <1>6, <2>3, Zenon
    <3>3. QED
      BY <3>1, <3>2 DEF OwnInv, Apart
  <2>4. QED
    BY <2>2, <2>3
<1>8. ASSUME NEW i \in Firsts(b) PROVE Listed(b)
  BY <1>6, Zenon DEF Listed
<1>9. ASSUME Listed(b) PROVE Firsts(b) # {}
  <2>1. n \in Nat
    BY <1>1, Zenon
  <2>2. /\ 1 # 5 /\ 2 # 5 /\ 3 # 5 /\ 4 # 5
        /\ b \in grown => n > 0
        /\ n > 0 => \A i \in 1 .. 5 : i # 5 + n + n
    BY <1>4, <2>1
  <2>3. CASE b \in objects \union doomed \union corpses \union clearing
    <3>1. \E i \in 1 .. 4 : i \in Listings(b)
      <4>1. 1 \in 1 .. 4 /\ 2 \in 1 .. 4 /\ 3 \in 1 .. 4 /\ 4 \in 1 .. 4
        OBVIOUS
      <4>2. QED
        BY <1>1, <2>3, <4>1, Zenon
    <3>2. PICK i \in 1 .. 4 : i \in Listings(b)
      BY <3>1, Zenon
    <3>3. i # 5 /\ (b \in grown => i # 5 + n + n)
      BY <2>1, <2>2
    <3>4. QED
      BY <3>2, <3>3, Zenon DEF Firsts, Second
  <2>4. CASE b \in Pool
    <3>1. 5 \in Listings(b) /\ b \notin exposed
      BY <1>1, <2>4, Zenon DEF Pool
    <3>2. b \in grown => 5 # 5 + n + n
      BY <2>1, <2>2
    <3>3. QED
      BY <3>1, <3>2, Zenon DEF Firsts, Second
  <2>5. CASE b \in Held
    <3>1. PICK k \in 1 .. n : b \in barriers[k].objs \/ b \in barriers[k].raws
      <4>1. DOMAIN barriers = 1 .. n
        BY <1>1, Zenon
      <4>2. QED
        BY <2>5, <4>1 DEF Held, AllTentative, Tentative
    <3>2. b \notin grown /\ 5 + k # 5 /\ 5 + n + k # 5
      BY <2>1, <2>5 DEF Held
    <3>3. 5 + k \in Listings(b) \/ 5 + n + k \in Listings(b)
      BY <1>1, <3>1, Zenon
    <3>4. QED
      BY <3>2, <3>3, Zenon DEF Firsts, Second
  <2>6. QED
    BY <1>9, <2>3, <2>4, <2>5 DEF Listed
<1>10. QED
  BY <1>7, <1>8, <1>9, Zenon

\* The second entry counts once more.
LEMMA SecondsCount ==
  ASSUME TypeOK, OwnInv, NEW b \in Block
  PROVE  Cardinality(Listings(b))
           = Cardinality(Firsts(b)) + (IF b \in grown \union exposed THEN 1 ELSE 0)
<1> DEFINE n == Len(barriers)
           e == IF b \in exposed THEN 5 ELSE 5 + n + n
<1>1. /\ n \in Nat /\ DOMAIN barriers = 1 .. n
      /\ b \in loose => 5 \in Listings(b)
      /\ \A k \in 1 .. n : b \in barriers[k].raws => 5 + n + k \in Listings(b)
  BY ListingsSay, Zenon
<1>2. ~(b \in grown /\ b \in exposed)
  BY DEF OwnInv, Growing
<1>3. CASE b \in grown \union exposed
  <2>1. e \in Listings(b)
    <3>1. CASE b \in exposed
      <4>1. b \in loose
        BY <3>1 DEF OwnInv, Growing
      <4>2. QED
        BY <1>1, <3>1, <4>1
    <3>2. CASE b \in grown
      <4>1. barriers # <<>> /\ b \in Top.raws /\ barriers \in Seq(Barrier)
        BY <3>2 DEF OwnInv, Growing, TypeOK
      <4>2. n \in 1 .. n /\ b \in barriers[n].raws
        BY <4>1 DEF Top
      <4>3. 5 + n + n \in Listings(b)
        BY <1>1, <4>2, Zenon
      <4>4. QED
        BY <1>2, <3>2, <4>3
    <3>3. QED
      BY <1>3, <3>1, <3>2
  <2>2. \A i : Second(b, i) <=> i = e
    BY <1>2, <1>3 DEF Second
  <2>3. Firsts(b) = Listings(b) \ {e}
    BY <2>2 DEF Firsts
  <2>4. IsFiniteSet(Listings(b))
    <3>1. DOMAIN OwnedBy(b) = 1 .. 5 + n + n
      BY OwnedByIs, Zenon
    <3>2. IsFiniteSet(1 .. 5 + n + n)
      BY <1>1, FS_Interval
    <3>3. QED
      BY <3>1, <3>2, FS_Subset DEF Listings
  <2> HIDE DEF e
  <2>5. Cardinality(Listings(b)) = Cardinality(Firsts(b)) + 1
    BY <2>1, <2>3, <2>4, CountWithout
  <2>6. QED
    BY <1>3, <2>5
<1>4. CASE b \notin grown \union exposed
  <2>1. Firsts(b) = Listings(b)
    BY <1>4 DEF Firsts, Second
  <2>2. Firsts(b) = {} \/ \E i \in Firsts(b) : Firsts(b) = {i}
    BY OneFirst
  <2>3. Cardinality(Firsts(b)) \in Nat
    BY <2>2, FS_EmptySet, FS_Singleton
  <2>4. QED
    BY <1>4, <2>1, <2>3
<1>5. QED
  BY <1>3, <1>4

\* Every allocated block has exactly one owner and a free one has none, whatever
\* is interrupted where, apart from the blocks that are being grown, and the one
\* that a barrier takes when makeStrId fails between its two growths.
THEOREM SoleOwnerHolds == Spec => []SoleOwner
<1>1. TypeOK /\ OwnInv => SoleOwner
  <2>1. SUFFICES ASSUME TypeOK, OwnInv, NEW b \in Block
                 PROVE  OwnerCount(b) = (IF Free(b) THEN 0 ELSE 1)
                          + (IF b \in grown \union exposed THEN 1 ELSE 0)
    BY DEF SoleOwner
  <2> DEFINE G == {o \in objects \union doomed : buf[o] = b}
             H == Firsts(b)
             x == IF b \in grown \union exposed THEN 1 ELSE 0
  <2>2. (\A i, j \in H : i = j) /\ (H # {} <=> Listed(b))
    BY <2>1, OneFirst
  <2>3. (\A o, p \in G : o = p) /\ (G # {} <=> b \in Buffers)
    BY <2>1, NoneAssumption DEF OwnInv, BuffersApart, Buffers
  <2>4. OwnerCount(b) = Cardinality(H) + x + Cardinality(G)
    BY <2>1, SecondsCount DEF OwnerCount, Listings
  <2>5. /\ Cardinality(H) = IF H = {} THEN 0 ELSE 1
        /\ Cardinality(G) = IF G = {} THEN 0 ELSE 1
    BY <2>2, <2>3, CountOne, Zenon
  <2>6. ~(Listed(b) /\ b \in Buffers)
    BY <2>1 DEF OwnInv, Apart, Listed
  <2>7. ~Free(b) <=> Listed(b) \/ b \in Buffers
    BY <2>1 DEF OwnInv, Covered, Live, Listed
  <2>8. x \in Nat
    OBVIOUS
  <2> HIDE DEF H, G, x
  <2>9. OwnerCount(b) = (IF Free(b) THEN 0 ELSE 1) + x
    BY <2>2, <2>3, <2>4, <2>5, <2>6, <2>7, <2>8
  <2>10. QED
    BY <2>9 DEF x
<1>2. QED
  BY <1>1, OwnersDivide, TypeCorrect, PTL

-------------------------------------------------------------------------------
(* The accounting.                                                         *)

\* One pair for every byte of every block of s, and the number of these.
Units(f, s) == UNION {{b} \X (1 .. f[b]) : b \in s}
Total(f, S) == Cardinality(Units(f, S))

LEMMA UnitsFinite ==
  ASSUME NEW f, NEW S, IsFiniteSet(S), \A b \in S : f[b] \in Nat
  PROVE  IsFiniteSet(Units(f, S))
<1> DEFINE T == {{b} \X (1 .. f[b]) : b \in S}
           F == [b \in S |-> {b} \X (1 .. f[b])]
<1>1. F \in Surjection(S, T)
  BY DEF Surjection
<1>2. IsFiniteSet(T)
  BY <1>1, FS_Surjection
<1>3. ASSUME NEW b \in S PROVE IsFiniteSet({b} \X (1 .. f[b]))
  <2>1. IsFiniteSet({b}) /\ Cardinality({b}) = 1
    BY FS_Singleton
  <2>2. IsFiniteSet(1 .. f[b]) /\ Cardinality(1 .. f[b]) = f[b]
    BY FS_Interval
  <2>3. /\ IsFiniteSet({b} \X (1 .. f[b]))
        /\ Cardinality({b} \X (1 .. f[b])) = f[b]
    BY <2>1, <2>2, FS_Product
  <2>4. QED
    BY <2>3
<1>4. QED
  BY <1>2, <1>3, FS_UNION DEF Units

LEMMA UnitsSplit ==
  ASSUME NEW f, NEW S, IsFiniteSet(S), \A b \in S : f[b] \in Nat, NEW x \in S
  PROVE  /\ Cardinality(Units(f, S)) = f[x] + Cardinality(Units(f, S \ {x}))
         /\ Cardinality(Units(f, S \ {x})) \in Nat
<1> DEFINE A == {x} \X (1 .. f[x])
           B == Units(f, S \ {x})
<1>1. IsFiniteSet(A) /\ Cardinality(A) = f[x]
  <2>1. IsFiniteSet({x}) /\ Cardinality({x}) = 1
    BY FS_Singleton
  <2>2. IsFiniteSet(1 .. f[x]) /\ Cardinality(1 .. f[x]) = f[x]
    BY FS_Interval
  <2>3. QED
    BY <2>1, <2>2, FS_Product
<1>2. IsFiniteSet(B) /\ Cardinality(B) \in Nat
  <2>1. IsFiniteSet(S \ {x})
    BY FS_RemoveElement
  <2>2. IsFiniteSet(B)
    BY <2>1, UnitsFinite
  <2>3. QED
    BY <2>2, FS_CardinalityType
<1>3. Units(f, S) = A \union B /\ A \cap B = {}
  BY DEF Units
<1>4. Cardinality(A \union B) = Cardinality(A) + Cardinality(B) - Cardinality(A \cap B)
  BY <1>1, <1>2, FS_Union
<1> HIDE DEF A, B
<1>5. QED
  <2>1. Cardinality(A \cap B) = 0
    BY <1>3, FS_EmptySet
  <2>2. f[x] \in Nat
    OBVIOUS
  <2>3. Cardinality(Units(f, S)) = f[x] + Cardinality(B)
    BY <1>1, <1>2, <1>3, <1>4, <2>1, <2>2
  <2>4. QED
    BY <1>2, <2>3 DEF B

LEMMA UnitsOfNone == ASSUME NEW f PROVE Cardinality(Units(f, {})) = 0
BY FS_EmptySet DEF Units

\* Only the difference counts when one block gets another size.
LEMMA TotalChanges ==
  ASSUME NEW f \in [Block -> Nat], NEW x \in Block, NEW v \in Nat
  PROVE  /\ Total([f EXCEPT ![x] = v], Block) = Total(f, Block) - f[x] + v
         /\ Total(f, Block) \in Nat
<1> DEFINE g == [f EXCEPT ![x] = v]
<1>1. g \in [Block -> Nat] /\ g[x] = v /\ \A b \in Block \ {x} : g[b] = f[b]
  OBVIOUS
<1>2. Units(g, Block \ {x}) = Units(f, Block \ {x})
  BY <1>1 DEF Units
<1>3. /\ Total(f, Block) = Cardinality(Units(f, Block))
      /\ Total(g, Block) = Cardinality(Units(g, Block))
  BY DEF Total
<1>4. /\ Cardinality(Units(f, Block)) = f[x] + Cardinality(Units(f, Block \ {x}))
      /\ Cardinality(Units(f, Block \ {x})) \in Nat
  BY UnitsSplit, FiniteAssumption
<1>5. Cardinality(Units(g, Block)) = g[x] + Cardinality(Units(g, Block \ {x}))
  BY <1>1, UnitsSplit, FiniteAssumption
<1> HIDE DEF g
<1>6. f[x] \in Nat
  OBVIOUS
<1>7. QED
  BY <1>1, <1>2, <1>3, <1>4, <1>5, <1>6 DEF g

\* Nothing adds up to nothing.
LEMMA TotalOfZeros ==
  ASSUME NEW S
  PROVE  Total([b \in S |-> 0], S) = 0
<1> DEFINE f == [b \in S |-> 0]
<1>1. Units(f, S) = {}
  BY DEF Units
<1>2. QED
  BY <1>1, FS_EmptySet DEF Total

\* memUsed is the sum of what is allocated, less what the size routines of
\* released objects have overstated.
Owed(at) == IF at = "freed" THEN 0 ELSE EngineSize
Accounted(s, used, ex, at) ==
  used = Total(s, Block) + Owed(at) - ex /\ ex \in Nat /\ ex <= MaxExcess
Accounting == Accounted(size, memUsed, excess, pc)

LEMMA SizesAre ==
  ASSUME TypeOK
  PROVE  /\ size \in [Block -> Nat] /\ memUsed \in Int /\ EngineSize \in Nat
         /\ req.nsz \in Nat
         /\ Total(size, Block) \in Nat
         /\ \A b \in Block : size[b] \in Nat /\ size[b] <= Total(size, Block)
<1>1. \A n \in Size \union {0} : n \in Nat
  BY SizeAssumption
<1>2. size \in [Block -> Size \union {0}] /\ memUsed \in Int /\ req \in Request
  BY DEF TypeOK
<1>3. size \in [Block -> Nat]
  BY <1>1, <1>2
<1>4. Total(size, Block) \in Nat
  <2>1. \A b \in Block : size[b] \in Nat
    BY <1>3
  <2>2. IsFiniteSet(Units(size, Block))
    BY <2>1, FiniteAssumption, UnitsFinite
  <2>3. QED
    BY <2>2, FS_CardinalityType DEF Total
<1>5. ASSUME NEW b \in Block PROVE size[b] \in Nat /\ size[b] <= Total(size, Block)
  <2>1. size[b] \in Nat /\ IsFiniteSet(Block) /\ 0 \in Nat
    BY <1>3, FiniteAssumption
  <2>2. \A c \in Block : size[c] \in Nat
    BY <1>3
  <2>3. /\ Cardinality(Units(size, Block))
             = size[b] + Cardinality(Units(size, Block \ {b}))
        /\ Cardinality(Units(size, Block \ {b})) \in Nat
    BY <2>1, <2>2, UnitsSplit
  <2>4. QED
    BY <2>1, <2>3 DEF Total
<1>6. req.nsz \in Nat
  BY <1>1, <1>2 DEF Request
<1>7. QED
  BY <1>2, <1>3, <1>4, <1>5, <1>6, LimitAssumption

\* A step that neither allocates nor frees.
LEMMA SameAccount ==
  ASSUME Accounting, UNCHANGED usedVars, pc = "freed" <=> pc' = "freed"
  PROVE  Accounting'
<1>1. size' = size /\ memUsed' = memUsed /\ excess' = excess /\ Owed(pc') = Owed(pc)
  BY DEF Owed
<1>2. QED
  BY <1>1, Zenon DEF Accounting, Accounted

\* A step that gives one block another size, stating the old one x too large.
LEMMA SizedAccount ==
  ASSUME TypeOK, Accounting, pc # "freed", pc' # "freed",
         NEW b \in Block, NEW v \in Nat, NEW x \in Nat,
         size' = [size EXCEPT ![b] = v], memUsed' = memUsed - (size[b] + x) + v,
         excess' = excess + x, excess + x <= MaxExcess
  PROVE  Accounting'
<1>1. size \in [Block -> Nat] /\ EngineSize \in Nat /\ size[b] \in Nat
  BY SizesAre
<1>2. /\ Total(size', Block) = Total(size, Block) - size[b] + v
      /\ Total(size, Block) \in Nat
  <2>1. size \in [Block -> Nat] /\ IsFiniteSet(Block)
    BY <1>1, FiniteAssumption
  <2>2. QED
    BY <2>1, TotalChanges, Zenon
<1>3. /\ memUsed = Total(size, Block) + EngineSize - excess
      /\ excess \in Nat /\ excess <= MaxExcess
  BY DEF Accounting, Accounted, Owed
<1>4. memUsed' = Total(size', Block) + EngineSize - excess'
  BY <1>1, <1>2, <1>3
<1>5. excess' \in Nat /\ excess' <= MaxExcess
  BY <1>3
<1>6. Owed(pc') = EngineSize
  BY DEF Owed
<1>7. QED
  BY <1>4, <1>5, <1>6, Zenon DEF Accounting, Accounted

LEMMA FreedAccount ==
  ASSUME TypeOK, Accounting, pc # "freed", pc' # "freed", NEW b \in Block,
         NEW x \in Nat, Freed(b, size[b] + x), excess' = excess + x,
         excess + x <= MaxExcess
  PROVE  Accounting'
<1>1. memUsed \in Int /\ size[b] \in Nat
  BY SizesAre
<1>2. size' = [size EXCEPT ![b] = 0] /\ memUsed' = memUsed - (size[b] + x) + 0
  BY <1>1 DEF Freed
<1>3. QED
  BY <1>2, SizedAccount

\* A free of what was allocated.
LEMMA FreedExactly ==
  ASSUME TypeOK, Accounting, pc # "freed", pc' # "freed", NEW b \in Block,
         Freed(b, size[b]), excess' = excess
  PROVE  Accounting'
<1>1. size[b] \in Nat /\ excess \in Nat /\ excess <= MaxExcess
  BY SizesAre DEF Accounting, Accounted
<1>2. Freed(b, size[b] + 0) /\ excess' = excess + 0 /\ excess + 0 <= MaxExcess
  <2>1. size[b] + 0 = size[b]
    BY <1>1
  <2>2. QED
    BY <1>1, <2>1
<1>3. QED
  BY <1>2, FreedAccount

LEMMA AccountStays == TypeOK /\ Accounting /\ [Next]_vars => Accounting'
<1>1. SUFFICES ASSUME TypeOK, Accounting, [Next]_vars PROVE Accounting'
  OBVIOUS
<1>2. CASE UNCHANGED vars
  BY <1>1, <1>2, SameAccount DEF vars
<1>3. CASE Client
  <2>1. pc = "run" /\ pc' # "freed"
    BY <1>3 DEF Client, Allocate, PushBarrier, PopBarrier, AddBucket, RemBucket,
       CollectNow, FreeEngine, Commit, CommitLoose, CommitGrown, Cancel, FreeRaw,
       Swap, Link, Unlink, SetRoots, Run, NoFree, Interrupt, StartCollect
  <2>2. CASE UNCHANGED usedVars
    BY <1>1, <2>1, <2>2, SameAccount
  <2>3. CASE \E b \in Block : Cancel(b) \/ FreeRaw(b)
    BY <1>1, <2>1, <2>3, FreedExactly DEF Cancel, FreeRaw, Run
  <2>4. CASE \E o, p \in Block : Swap(o, p)
    <3>1. PICK o \in Block : buf[o] # None /\ Freed(buf[o], size[buf[o]])
      BY <2>4 DEF Swap
    <3>2. buf[o] \in Block
      BY <1>1, <3>1 DEF TypeOK
    <3>3. excess' = excess
      BY <2>4 DEF Swap, Run
    <3>4. QED
      BY <1>1, <2>1, <3>1, <3>2, <3>3, FreedExactly
  <2>5. QED
    BY <1>3, <2>2, <2>3, <2>4 DEF Client, Allocate, PushBarrier, PopBarrier,
       AddBucket, RemBucket, CollectNow, FreeEngine, Commit, CommitLoose,
       CommitGrown, Link, Unlink, SetRoots, Run, NoFree
<1>4. CASE Inside
  <2>1. pc # "freed"
    BY <1>4 DEF Inside, Destruct, Release, FreeDead, ClearOne, Allocated, Adjust,
       EndCollect, EndCollectFailed, EndClear, AllocFailed, FreeObjects,
       FreeBarriers, FreeSelf, Swept, Cleared
  <2>2. ASSUME NEW b \in Block, Destruct(b) PROVE Accounting'
    <3>1. pc' # "freed" /\ excess' = excess
      BY <2>2 DEF Destruct
    <3>2. CASE buf[b] # None /\ Freed(buf[b], size[buf[b]])
      BY <1>1, <2>1, <3>1, <3>2, FreedExactly DEF TypeOK
    <3>3. CASE UNCHANGED <<size, memUsed>>
      BY <1>1, <2>1, <3>1, <3>3, SameAccount
    <3>4. QED
      BY <2>2, <3>2, <3>3 DEF Destruct
  <2>3. ASSUME NEW b \in Block, Release(b) PROVE Accounting'
    <3>1. PICK x \in Extra : /\ excess + x <= MaxExcess
                             /\ Freed(b, size[b] + x) /\ excess' = excess + x
      BY <2>3 DEF Release
    <3>2. x \in Nat /\ pc' # "freed"
      BY <2>3, ExcessAssumption DEF Release
    <3>3. QED
      BY <1>1, <2>1, <3>1, <3>2, FreedAccount
  <2>4. ASSUME NEW b \in Block, FreeDead(b) \/ ClearOne(b) PROVE Accounting'
    BY <1>1, <2>1, <2>4, FreedExactly DEF FreeDead, ClearOne
  <2>5. ASSUME NEW b \in Block, Allocated(b) PROVE Accounting'
    <3>1. /\ req.nsz \in Nat /\ memUsed \in Int /\ size[b] \in Nat
          /\ excess \in Nat /\ excess <= MaxExcess
      BY <1>1, SizesAre DEF Accounting, Accounted
    <3>2. /\ size' = [size EXCEPT ![b] = req.nsz] /\ excess' = excess
          /\ memUsed' = memUsed - size[b] + req.nsz /\ pc' # "freed"
      BY <2>5 DEF Allocated
    <3>3. /\ memUsed' = memUsed - (size[b] + 0) + req.nsz
          /\ excess' = excess + 0 /\ excess + 0 <= MaxExcess /\ 0 \in Nat
      BY <3>1, <3>2
    <3>4. QED
      BY <1>1, <2>1, <3>1, <3>2, <3>3, SizedAccount
  <2>6. CASE FreeSelf
    <3>1. /\ memUsed = Total(size, Block) + EngineSize - excess
          /\ excess \in Nat /\ excess <= MaxExcess
          /\ memUsed' = memUsed - EngineSize /\ size' = size /\ pc' = "freed"
          /\ excess' = excess
      BY <1>1, <2>1, <2>6 DEF FreeSelf, Accounting, Accounted, Owed
    <3>2. Total(size, Block) \in Nat /\ EngineSize \in Nat
      BY <1>1, SizesAre
    <3>3. memUsed' = Total(size', Block) + 0 - excess'
      BY <3>1, <3>2
    <3>4. Owed(pc') = 0
      BY <3>1 DEF Owed
    <3>5. QED
      BY <3>1, <3>3, <3>4, Zenon DEF Accounting, Accounted
  <2>7. CASE \/ Adjust \/ EndCollect \/ EndCollectFailed \/ EndClear \/ AllocFailed
             \/ FreeObjects \/ FreeBarriers
    <3>1. UNCHANGED usedVars /\ pc' # "freed"
      BY <1>1, <2>7 DEF Adjust, EndCollect, EndCollectFailed, EndClear, AllocFailed,
         FreeObjects, FreeBarriers, Interrupt, StartCollect
    <3>2. QED
      BY <1>1, <2>1, <3>1, SameAccount
  <2>8. QED
    BY <1>4, <2>2, <2>3, <2>4, <2>5, <2>6, <2>7 DEF Inside
<1>5. QED
  BY <1>1, <1>2, <1>3, <1>4 DEF Next

LEMMA InitAccount == Init => Accounting
<1>1. SUFFICES ASSUME Init PROVE Accounting
  OBVIOUS
<1>2. Total(size, Block) = 0
  BY <1>1, TotalOfZeros DEF Init
<1>3. memUsed = EngineSize /\ excess = 0 /\ pc = "run"
  BY <1>1 DEF Init
<1>4. QED
  BY <1>2, <1>3, LimitAssumption, ExcessAssumption DEF Accounting, Accounted, Owed

\* No free starts a collection, for every limit, every request and every number
\* of blocks, when the bytes that are given back and were never allocated do not
\* add up to more than the engine's own block: they come out of that, so that
\* memUsed, which is unsigned, never gets below zero.
THEOREM FreesNeverCollectHolds ==
  ASSUME MaxExcess <= EngineSize
  PROVE  Spec => []FreesNeverCollect
<1>1. MemInv /\ Accounting => FreesNeverCollect
  <2>1. SUFFICES ASSUME MemInv, Accounting, pc # "freed", NEW b \in Block,
                        NEW x \in Extra, excess + x <= MaxExcess
                 PROVE  ~Over(size[b] + x, 0)
    BY DEF FreesNeverCollect
  <2>2. memUsed <= memLimit /\ memUsed \in Int /\ memLimit \in Nat
    BY <2>1 DEF MemInv, Fits, TypeOK
  <2>3. /\ size[b] \in Nat /\ EngineSize \in Nat /\ Total(size, Block) \in Nat
        /\ size[b] <= Total(size, Block)
    BY <2>1, SizesAre DEF MemInv
  <2>4. x \in Nat /\ MaxExcess \in Nat
    BY ExcessAssumption
  <2>5. memUsed = Total(size, Block) + EngineSize - excess /\ excess \in Nat
    BY <2>1 DEF Accounting, Accounted, Owed
  <2>6. MaxExcess <= EngineSize
    OBVIOUS
  <2> DEFINE sum == memUsed - (size[b] + x) + 0
  <2>7. sum >= 0 /\ sum <= memLimit /\ sum \in Int
    BY <2>1, <2>2, <2>3, <2>4, <2>5, <2>6
  <2>8. Over(size[b] + x, 0) <=> sum > memLimit \/ sum < 0
    BY DEF Over
  <2> HIDE DEF sum
  <2>9. QED
    BY <2>2, <2>7, <2>8
<1>2. MemInv => TypeOK
  BY DEF MemInv
<1>3. QED
  BY <1>1, <1>2, InitAccount, AccountStays, WithinLimit, PTL DEF Spec
================================================================================
