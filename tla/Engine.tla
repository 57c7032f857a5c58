-------------------------------- MODULE Engine --------------------------------
(***************************************************************************)
(* The memory side of taz_engine.c: the accounting and the collection that *)
(* an allocation may trigger (reallocMem, collect, adjustHeap), tentative  *)
(* allocations and the anchors that hold them, barriers, buckets, the      *)
(* three interrupts and the teardown of an engine.                         *)
(*                                                                         *)
(* The code that runs on the engine (records, indices, the assembler, the  *)
(* string pool, the host) is an environment that calls the engine's API in *)
(* the order the API's notes ask for.  What the engine does inside a call  *)
(* is split at every point where it frees a block, because each free goes  *)
(* through reallocMem and could itself start a collection.  The mark phase *)
(* is one step here; module Collector has it in detail.  The copy that     *)
(* startStringGC may allocate for a loan is in module StringPool.          *)
(***************************************************************************)
EXTENDS Reachability, Integers, Sequences, FiniteSets, FiniteSetsExt

CONSTANTS
  Block,            \* the blocks of memory the host's allocator can give out
  None,             \* no block
  Size,             \* the sizes in which the running code asks for memory
  EngineSize,       \* sizeof(EngineFull)
  InitLimit,        \* the first memLimit
  MaxDepth,         \* bound: barriers on the stack
  MaxBuckets,       \* bound: buckets on one barrier
  MaxRefs,          \* bound: references in one object
  Extra,            \* by how much an object's size routine may overstate what
                    \* was allocated for it, as that of the code objects does
  MaxExcess,        \* bound: the sum of these over a run
  MaxCycles         \* bound: after so many collections (each raises
                    \* memLimit) no call that may collect is made any more

ASSUME SizeAssumption == Size \subseteq Nat \ {0}
ASSUME LimitAssumption ==
  EngineSize \in Nat /\ InitLimit \in Nat /\ EngineSize <= InitLimit
ASSUME ExcessAssumption == Extra \subseteq Nat /\ MaxExcess \in Nat
ASSUME NoneAssumption == None \notin Block
ASSUME FiniteAssumption == IsFiniteSet(Block)

VARIABLES
  size,             \* block -> its size in bytes, 0 when it is not allocated
  objects,          \* EngineFull.objects: the committed objects
  refs,             \* object -> the objects its scan routine marks
  buf,              \* object -> the raw block its finalizer frees, or None
  roots,            \* envState, apiState and fiber
  loose,            \* raw blocks of the string pool, committed, of no object
  barriers,         \* the stack of barriers, the newest last
  grown,            \* blocks that tazE_reallocRaw has grown and linked to the
                    \* newest barrier, and that are not committed again yet
  exposed,          \* history: grown blocks a barrier took with it; the string
                    \* pool still names them
  memUsed, memLimit,
  excess,           \* history: bytes given back that were never allocated
  cycles,           \* nGCCycles
  pc,               \* "run" in the running code, else inside the engine
  req,              \* the allocation reallocMem is serving, or NoReq
  after,            \* what the engine does after a sweep or a clear
  need,             \* the nsz that adjustHeap will be given
  doomed, corpses,  \* dead objects, before and after their destruction
  clearing          \* what clearBarrier or freeStrPool has still to free

gcVars == <<doomed, corpses, need>>
heapVars == <<objects, refs, buf, roots, loose>>
anchorVars == <<barriers, grown, exposed>>
usedVars == <<size, memUsed, excess>>
vars == <<usedVars, heapVars, anchorVars, memLimit, cycles, pc, req, after,
          gcVars, clearing>>

-------------------------------------------------------------------------------
NoReq == [kind |-> "none", block |-> None, nsz |-> 0]
Request ==
  [kind : {"none", "obj", "raw", "grow"}, block : Block \union {None},
   nsz : Size \union {0}]

\* The anchors and buckets that hang on one barrier.
Barrier ==
  [objs : SUBSET Block, raws : SUBSET Block, buckets : Seq(SUBSET Block)]

\* The definitions named Mut... are faulty forms of the ones they precede:
\* each breaks the property that its comment names.

\* tazE_pushBarrier.  (Faulty: rawAnchors is not initialized.  TypeOK)
MutNewBarrier == [objs |-> {}, raws |-> {None}, buckets |-> <<>>]
NewBarrier == [objs |-> {}, raws |-> {}, buckets |-> <<>>]

Top == barriers[Len(barriers)]
Below == SubSeq(barriers, 1, Len(barriers) - 1)
SetTop(bar) == [barriers EXCEPT ![Len(barriers)] = bar]

Slots(bar) == UNION {bar.buckets[i] : i \in DOMAIN bar.buckets}

\* The references collect() marks first, on every barrier of the stack.
\* (Faulty: on the newest barrier only.  NoDangling)
MutRootSet == roots \union IF barriers = <<>> THEN {} ELSE Slots(Top)
RootSet == roots \union UNION {Slots(barriers[i]) : i \in DOMAIN barriers}
Reached == Reach(Block, RootSet, refs)

\* What hangs on the anchors of a barrier.  (Faulty: the object anchors alone.
\* NothingLeft)
MutTentative(bar) == bar.objs
Tentative(bar) == bar.objs \union bar.raws
AllTentative == UNION {Tentative(barriers[i]) : i \in DOMAIN barriers}

\* What clearBarrier gives back when the newest barrier is left.
ToClear == Tentative(Top)

\* The anchors that clearBarrier has still to go through after b.  (Faulty: it
\* does not get past b.  CallsReturn)
MutLeft(b) == clearing
Left(b) == clearing \ {b}

\* tazE_commitRaw.  (Faulty: the anchor stays linked.  SoleOwner)
MutWithoutRaw(b) == barriers
WithoutRaw(b) == SetTop([Top EXCEPT !.raws = @ \ {b}])

Free(b) == size[b] = 0

\* The test of reallocMem.  The sum is unsigned: below zero it is as large as
\* a size_t can be.
Over(osz, nsz) ==
  LET sum == memUsed - osz + nsz IN sum > memLimit \/ sum < 0

\* adjustHeap with memGrowth = 0.5.  (Faulty: it makes no room for the
\* request.  FreesNeverCollect)
MutAdjustHeap == memLimit' = (memLimit * 3) \div 2
AdjustHeap == memLimit' = ((memLimit + need) * 3) \div 2

Init ==
  /\ size = [b \in Block |-> 0]
  /\ objects = {} /\ refs = [b \in Block |-> {}]
  /\ buf = [b \in Block |-> None] /\ roots = {} /\ loose = {}
  /\ barriers = <<>> /\ grown = {} /\ exposed = {}
  /\ memUsed = EngineSize /\ excess = 0 /\ memLimit = InitLimit /\ cycles = 0
  /\ pc = "run" /\ req = NoReq /\ after = "run"
  /\ doomed = {} /\ corpses = {} /\ need = 0 /\ clearing = {}

-------------------------------------------------------------------------------
(* collect(): the mark phase, then one step for each finalizer and for     *)
(* each object that is given back.                                         *)

\* What the sweep takes off the list of objects.
Unreached == objects \ Reached

\* What the mark phase leaves for the sweep.  `next' is where the engine goes
\* on when collect() returns.
StartCollect(nsz, next) ==
  /\ cycles' = cycles + 1
  /\ pc' = "sweep" /\ after' = next /\ need' = nsz
  /\ doomed' = Unreached
  /\ objects' = objects \cap Reached

\* freeMem of block b, the caller stating that it has sz bytes.
Freed(b, sz) ==
  /\ size' = [size EXCEPT ![b] = 0]
  /\ memUsed' = memUsed - sz

Destruct(o) ==
  /\ pc = "sweep"
  /\ o \in doomed
  /\ doomed' = doomed \ {o} /\ corpses' = corpses \union {o}
  /\ \/ /\ buf[o] # None
        /\ Freed(buf[o], size[buf[o]])
     \/ /\ buf[o] = None
        /\ UNCHANGED <<size, memUsed>>
  /\ buf' = [buf EXCEPT ![o] = None]
  /\ UNCHANGED <<excess, objects, refs, roots, loose, anchorVars, memLimit,
                 cycles, pc, req, after, need, clearing>>

\* releaseObj asks the object's routine for the size.  tazR_sizeofCode counts
\* the words of a code object, which is allocated without them.
Release(o) ==
  /\ pc = "sweep"
  /\ doomed = {} /\ o \in corpses
  /\ corpses' = corpses \ {o}
  /\ \E x \in Extra :
       /\ excess + x <= MaxExcess
       /\ Freed(o, size[o] + x)
       /\ excess' = excess + x
  /\ refs' = [refs EXCEPT ![o] = {}]
  /\ UNCHANGED <<objects, buf, roots, loose, anchorVars, memLimit, cycles, pc,
                 req, after, doomed, need, clearing>>

TearingDown == pc = "freed" \/ after \in {"objects", "barriers"}

Swept == pc = "sweep" /\ doomed = {} /\ corpses = {}

\* The end of collect(): the limit follows, and the strings are next.
Adjust ==
  /\ Swept /\ after \in {"alloc", "run", "fail"}
  /\ AdjustHeap
  /\ pc' = "strings" /\ need' = 0
  /\ UNCHANGED <<usedVars, heapVars, anchorVars, cycles, req, after, doomed,
                 corpses, clearing>>

\* finishStringGC, which a partial collection leaves out, gives back the nodes
\* of dead strings, but never the pool's own tables.
FreeDead(b) ==
  /\ pc = "strings"
  /\ b \in loose \ (grown \union {req.block})
  /\ loose' = loose \ {b}
  /\ Freed(b, size[b])
  /\ UNCHANGED <<excess, objects, refs, buf, roots, anchorVars, memLimit,
                 cycles, pc, req, after, gcVars, clearing>>

\* collect() returns to reallocMem, which now calls the host's allocator, or
\* to tazE_collect.
EndCollect ==
  /\ pc = "strings" /\ after \in {"alloc", "run"}
  /\ pc' = after /\ after' = "run"
  /\ UNCHANGED <<usedVars, heapVars, anchorVars, memLimit, cycles, req, gcVars,
                 clearing>>

-------------------------------------------------------------------------------
(* Interrupts.                                                             *)

\* tazE_error, tazE_panic and tazE_yield take the newest barrier off the
\* stack and clear it; the long jump follows when it is clear.  Grown blocks
\* go with the barrier, though their owner has them.
Interrupt ==
  /\ barriers # <<>>
  /\ pc' = "clear" /\ after' = "run"
  /\ clearing' = ToClear
  /\ barriers' = Below
  /\ exposed' = exposed \union grown /\ grown' = {}

\* reallocMem after a collection that followed a failed allocation: it does
\* not call the allocator again but raises taz_ErrNum_MEMORY.
EndCollectFailed ==
  /\ pc = "strings" /\ after = "fail"
  /\ req' = NoReq
  /\ Interrupt
  /\ UNCHANGED <<usedVars, heapVars, memLimit, cycles, gcVars>>

\* tazE_cancelObj or tazE_cancelRaw on an anchor of the barrier, and the frees
\* of freeStrPool.
ClearOne(b) ==
  /\ pc = "clear"
  /\ b \in clearing
  /\ clearing' = Left(b)
  /\ Freed(b, size[b])
  /\ refs' = [refs EXCEPT ![b] = {}] /\ buf' = [buf EXCEPT ![b] = None]
  /\ UNCHANGED <<excess, objects, roots, loose, anchorVars, memLimit, cycles, pc,
                 req, after, gcVars>>

Cleared == pc = "clear" /\ clearing = {}

EndClear ==
  /\ Cleared /\ after = "run"
  /\ pc' = "run"
  /\ UNCHANGED <<usedVars, heapVars, anchorVars, memLimit, cycles, req, after,
                 gcVars, clearing>>

-------------------------------------------------------------------------------
(* tazE_freeEngine: the string pool, then every object in the two passes   *)
(* of a sweep, then the barriers, then the engine's own block.             *)

\* The running code makes any call of the API only when it has committed what
\* it has grown, and none after a growth has cost the pool a table: what
\* happens then is undefined.
AtCall == pc = "run" /\ grown = {} /\ exposed = {}

FreeEngine ==
  /\ AtCall
  /\ pc' = "clear" /\ after' = "objects"
  /\ clearing' = loose /\ loose' = {}
  /\ UNCHANGED <<usedVars, objects, refs, buf, roots, anchorVars, memLimit,
                 cycles, req, gcVars>>

FreeObjects ==
  /\ Cleared /\ after = "objects"
  /\ pc' = "sweep" /\ after' = "barriers"
  /\ doomed' = objects /\ objects' = {}
  /\ UNCHANGED <<usedVars, refs, buf, roots, loose, anchorVars, memLimit, cycles,
                 req, need, corpses, clearing>>

FreeBarriers ==
  /\ Swept \/ Cleared
  /\ after = "barriers" /\ barriers # <<>>
  /\ pc' = "clear"
  /\ clearing' = ToClear /\ barriers' = Below
  /\ UNCHANGED <<usedVars, heapVars, grown, exposed, memLimit, cycles, req,
                 after, gcVars>>

FreeSelf ==
  /\ Swept \/ Cleared
  /\ after = "barriers" /\ barriers = <<>>
  /\ pc' = "freed" /\ roots' = {}
  /\ memUsed' = memUsed - EngineSize
  /\ UNCHANGED <<size, excess, objects, refs, buf, loose, anchorVars, memLimit,
                 cycles, req, after, gcVars, clearing>>

-------------------------------------------------------------------------------
(* reallocMem for an allocation: `nsz' bytes for a new object, a new raw   *)
(* block, or a committed raw block that changes its size.                  *)

\* The running code only grows a buffer whose object it keeps reachable.
Growable == loose \union {buf[o] : o \in {x \in Reached : buf[x] # None}}

Fresh(kind) ==
  {[kind |-> kind, block |-> None, nsz |-> n] : n \in Size}
Growth ==
  {[kind |-> "grow", block |-> b, nsz |-> n] : b \in Growable, n \in Size}

\* tazE_reallocRaw is followed by tazE_commitRaw at once, except that
\* makeStrId grows two tables of the pool before it commits either.
Requests ==
  IF grown = {}
  THEN Fresh("obj") \union Fresh("raw") \union Growth
  ELSE {r \in Growth : /\ grown \subseteq loose /\ Cardinality(grown) = 1
                       /\ r.block \in loose \ grown}

OldSize(r) == IF r.block = None THEN 0 ELSE size[r.block]

\* tazE_mallocObj, tazE_mallocRaw and tazE_reallocRaw up to the allocator,
\* with the collection when the request would go over the limit.
Allocate(r) ==
  /\ pc = "run" /\ exposed = {}
  /\ barriers # <<>> /\ cycles < MaxCycles
  /\ r.nsz # OldSize(r)
  /\ req' = r
  /\ \/ /\ Over(OldSize(r), r.nsz)
        /\ StartCollect(r.nsz, "alloc")
     \/ /\ ~Over(OldSize(r), r.nsz)
        /\ pc' = "alloc"
        /\ UNCHANGED <<objects, cycles, after, doomed, need>>
  /\ UNCHANGED <<usedVars, refs, buf, roots, loose, anchorVars, memLimit,
                 corpses, clearing>>

\* The allocator answers with block b.  A new block is tentative, and so is a
\* grown one until it is committed again.
Allocated(b) ==
  /\ pc = "alloc"
  /\ \/ /\ req.kind = "obj" /\ Free(b)
        /\ barriers' = SetTop([Top EXCEPT !.objs = @ \union {b}])
        /\ grown' = grown
     \/ /\ req.kind = "raw" /\ Free(b)
        /\ barriers' = SetTop([Top EXCEPT !.raws = @ \union {b}])
        /\ grown' = grown
     \/ /\ req.kind = "grow" /\ b = req.block
        /\ barriers' = SetTop([Top EXCEPT !.raws = @ \union {b}])
        /\ grown' = grown \union {b}
  /\ size' = [size EXCEPT ![b] = req.nsz]
  /\ memUsed' = memUsed - size[b] + req.nsz
  /\ pc' = "run" /\ req' = NoReq
  /\ UNCHANGED <<excess, heapVars, exposed, memLimit, cycles, after, gcVars,
                 clearing>>

\* The allocator answers NULL.
AllocFailed ==
  /\ pc = "alloc"
  /\ StartCollect(req.nsz, "fail")
  /\ UNCHANGED <<usedVars, refs, buf, roots, loose, anchorVars, memLimit, req,
                 corpses, clearing>>

-------------------------------------------------------------------------------
(* The rest of the API, called by the running code.                        *)

\* tazE_commitRaw of a block that was grown: its owner has it to itself again.
CommitGrown(b) ==
  /\ pc = "run" /\ b \in grown
  /\ grown' = grown \ {b}
  /\ barriers' = WithoutRaw(b)
  /\ UNCHANGED <<usedVars, heapVars, exposed, memLimit, cycles, pc, req, after,
                 gcVars, clearing>>

Run ==
  /\ AtCall
  /\ UNCHANGED <<excess, memLimit, cycles, req, gcVars>>

Stays == UNCHANGED <<grown, exposed, pc, after, clearing>>
NoFree == Stays /\ UNCHANGED <<size, memUsed>>

PushBarrier ==
  /\ Run /\ NoFree
  /\ Len(barriers) < MaxDepth
  /\ barriers' = Append(barriers, NewBarrier)
  /\ UNCHANGED heapVars

\* tazE_popBarrier clears the barrier just as an interrupt does; an interrupt
\* that the running code raises itself is this step, too.
PopBarrier ==
  /\ Run
  /\ Interrupt
  /\ UNCHANGED <<size, memUsed, heapVars>>

\* tazE_commitRaw and tazE_commitObj, back to back as in tazR_makeRec: the
\* object's buffer, when it has one, is committed with it, and by then it
\* may refer to other objects, as a record does to its index.  The running
\* code keeps the object in its newest bucket, if it has one.
Commit(o, b, R) ==
  /\ Run /\ NoFree
  /\ barriers # <<>> /\ o \in Top.objs /\ b \in Top.raws \union {None}
  /\ R \subseteq Reached /\ Cardinality(R) <= MaxRefs
  /\ objects' = objects \union {o}
  /\ refs' = [refs EXCEPT ![o] = R]
  /\ buf' = [buf EXCEPT ![o] = b]
  /\ LET bucs == Top.buckets
         n == Len(bucs)
     IN barriers' =
          SetTop([objs |-> Top.objs \ {o}, raws |-> Top.raws \ {b},
                  buckets |-> IF n = 0 THEN bucs
                              ELSE [bucs EXCEPT ![n] = @ \union {o}]])
  /\ UNCHANGED <<roots, loose>>

\* tazE_commitRaw of a block that becomes part of the string pool.
CommitLoose(b) ==
  /\ Run /\ NoFree
  /\ barriers # <<>> /\ b \in Top.raws
  /\ loose' = loose \union {b}
  /\ barriers' = WithoutRaw(b)
  /\ UNCHANGED <<objects, refs, buf, roots>>

\* tazE_commitRaw of a new buffer for o and tazE_freeRaw of its old one, as in
\* growIdx and separateRec.
Swap(o, b) ==
  /\ Run /\ Stays
  /\ barriers # <<>> /\ o \in Reached /\ buf[o] # None /\ b \in Top.raws
  /\ Freed(buf[o], size[buf[o]])
  /\ buf' = [buf EXCEPT ![o] = b]
  /\ barriers' = WithoutRaw(b)
  /\ UNCHANGED <<objects, refs, roots, loose>>

\* tazE_cancelObj and tazE_cancelRaw.
Cancel(b) ==
  /\ Run /\ Stays
  /\ barriers # <<>> /\ b \in Tentative(Top)
  /\ Freed(b, size[b])
  /\ barriers' = SetTop([objs |-> Top.objs \ {b}, raws |-> Top.raws \ {b},
                         buckets |-> Top.buckets])
  /\ UNCHANGED heapVars

FreeRaw(b) ==
  /\ Run /\ Stays
  /\ b \in loose
  /\ loose' = loose \ {b}
  /\ Freed(b, size[b])
  /\ UNCHANGED <<objects, refs, buf, roots, barriers>>

AddBucket ==
  /\ Run /\ NoFree
  /\ barriers # <<>> /\ Len(Top.buckets) < MaxBuckets
  /\ barriers' = SetTop([Top EXCEPT !.buckets = Append(@, {})])
  /\ UNCHANGED heapVars

\* Buckets live on the C stack: the newest goes first.
RemBucket ==
  /\ Run /\ NoFree
  /\ barriers # <<>> /\ Top.buckets # <<>>
  /\ LET bucs == Top.buckets
     IN barriers' = SetTop([Top EXCEPT !.buckets =
                               SubSeq(bucs, 1, Len(bucs) - 1)])
  /\ UNCHANGED heapVars

\* The running code writes a reference it has into an object it has,
Link(o, p) ==
  /\ Run /\ NoFree
  /\ {o, p} \subseteq Reached /\ p \notin refs[o]
  /\ Cardinality(refs[o]) < MaxRefs
  /\ refs' = [refs EXCEPT ![o] = @ \union {p}]
  /\ UNCHANGED <<objects, buf, roots, loose, barriers>>

\* overwrites one,
Unlink(o, p) ==
  /\ Run /\ NoFree
  /\ o \in Reached /\ p \in refs[o]
  /\ refs' = [refs EXCEPT ![o] = @ \ {p}]
  /\ UNCHANGED <<objects, buf, roots, loose, barriers>>

\* or sets envState, apiState or fiber.
SetRoots(S) ==
  /\ Run /\ NoFree
  /\ S \subseteq Reached /\ Cardinality(S) <= 1 /\ S # roots
  /\ roots' = S
  /\ UNCHANGED <<objects, refs, buf, loose, barriers>>

\* tazE_collect.
CollectNow ==
  /\ AtCall /\ cycles < MaxCycles
  /\ StartCollect(0, "run")
  /\ UNCHANGED <<usedVars, refs, buf, roots, loose, anchorVars, memLimit, req,
                 corpses, clearing>>

-------------------------------------------------------------------------------
Client ==
  \/ \E r \in Requests : Allocate(r)
  \/ PushBarrier \/ PopBarrier \/ AddBucket \/ RemBucket \/ CollectNow
  \/ FreeEngine
  \/ \E o \in Block, b \in Block \union {None}, R \in SUBSET Block :
        Commit(o, b, R)
  \/ \E b \in Block :
       CommitLoose(b) \/ CommitGrown(b) \/ Cancel(b) \/ FreeRaw(b)
  \/ \E o, p \in Block : Swap(o, p) \/ Link(o, p) \/ Unlink(o, p)
  \/ \E S \in SUBSET Block : SetRoots(S)

\* What the engine and the host's allocator do once a call is under way.
Inside ==
  \/ \E b \in Block :
       Destruct(b) \/ Release(b) \/ FreeDead(b) \/ ClearOne(b) \/ Allocated(b)
  \/ Adjust \/ EndCollect \/ EndCollectFailed \/ EndClear \/ AllocFailed
  \/ FreeObjects \/ FreeBarriers \/ FreeSelf

Next == Client \/ Inside

Spec == Init /\ [][Next]_vars

\* A call of the API runs on to its end.
FairSpec == Spec /\ WF_vars(Inside)

-------------------------------------------------------------------------------
TypeOK ==
  /\ size \in [Block -> Size \union {0}]
  /\ objects \subseteq Block
  /\ refs \in [Block -> SUBSET Block]
  /\ buf \in [Block -> Block \union {None}]
  /\ roots \subseteq Block /\ loose \subseteq Block
  /\ barriers \in Seq(Barrier)
  /\ grown \subseteq Block /\ exposed \subseteq Block
  /\ memUsed \in Int /\ memLimit \in Nat /\ excess \in Nat /\ cycles \in Nat
  /\ pc \in {"run", "alloc", "sweep", "strings", "clear", "freed"}
  /\ req \in Request
  /\ after \in {"run", "alloc", "fail", "objects", "barriers"}
  /\ need \in Nat
  /\ doomed \subseteq Block /\ corpses \subseteq Block /\ clearing \subseteq Block

\* Every free goes through reallocMem, which collects when memUsed - osz is
\* over the limit, and below zero it is: a finalizer's free would then sweep
\* the list that is being swept.  No free gets there, also when objects are
\* given back with a greater size than was allocated for them, while these
\* errors add up to no more than MaxExcess bytes.
FreesNeverCollect ==
  pc # "freed" =>
    \A b \in Block, x \in Extra :
      ~Free(b) /\ excess + x <= MaxExcess => ~Over(size[b] + x, 0)

\* Who has to free a block: the list of objects, the sweep, a barrier, the
\* clearing of one, the string pool, or the finalizer of an object.
OwnedBy(b) ==
  <<b \in objects, b \in doomed, b \in corpses, b \in clearing, b \in loose>>
    \o [i \in DOMAIN barriers |-> b \in barriers[i].objs]
    \o [i \in DOMAIN barriers |-> b \in barriers[i].raws]
OwnerCount(b) ==
  Cardinality({i \in DOMAIN OwnedBy(b) : OwnedBy(b)[i]})
    + Cardinality({o \in objects \union doomed : buf[o] = b})

\* An allocated block has exactly one owner and a free one has none, whatever
\* is allocated, refused, unwound, swept or given back in which order.  The one
\* exception is a block that was grown: until it is committed the barrier has
\* it, too.  When makeStrId fails to grow its second table the barrier gives
\* back the first while the string pool still owns it (`exposed').
SoleOwner ==
  \A b \in Block :
    OwnerCount(b) = (IF Free(b) THEN 0 ELSE 1)
                      + (IF b \in grown \union exposed THEN 1 ELSE 0)

\* A collection inside any call keeps what the buckets of every barrier, also
\* of those below the newest, and envState, apiState and fiber lead to: no
\* committed object or root has a reference to a block that was given back.
NoDangling ==
  ~TearingDown => RootSet \subseteq objects /\ Closed(objects, refs)

\* Whatever was tentative, rooted or garbage, an engine that has been freed
\* has given all its memory back.
NothingLeft == pc = "freed" => \A b \in Block : Free(b)

\* Every call comes back to its caller or to a handler: no collection, no
\* clearing of a barrier and no chain of the two goes on for ever.
CallsReturn == pc # "run" ~> pc \in {"run", "freed"}
================================================================================
