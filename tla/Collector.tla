------------------------------- MODULE Collector -------------------------------
(***************************************************************************)
(* The mark and sweep of taz_engine.c, collect(), step by step: the roots  *)
(* and every scanned object pass their references to tazE_markObj, which   *)
(* sets the mark bit and pushes the object on the current segment of the   *)
(* gray stack, or, when the segment is full, scans the object at once with *)
(* a fresh segment on the C stack (scanWithNewStack).  The order in which  *)
(* an object's references are scanned, a segment is popped and the list of *)
(* objects is swept is left open.                                          *)
(*                                                                         *)
(* The running code (the mutator) acts only between collections: collect() *)
(* runs to its end inside the call that started it.                        *)
(***************************************************************************)
EXTENDS Reachability, Integers, FiniteSets, Sequences

CONSTANTS
  Obj,              \* the objects the allocator can hand out
  Segment           \* taz_CONFIG_GC_STACK_SEGMENT_SIZE

ASSUME SegmentAssumption == Segment \in Nat \ {0}
ASSUME ObjAssumption == IsFiniteSet(Obj)

VARIABLES
  objects,          \* EngineFull.objects, the list of committed objects
  refs,             \* object -> the objects its scan routine marks
  roots,            \* envState, apiState, fiber and the bucket slots
  pc,               \* where collect() is, or "idle"
  marked,           \* the objects whose mark bit is set
  frames,           \* the gray stack: one frame for each activation of
                    \* scanWithNewStack, collect() itself at the bottom
  unswept,          \* what the sweep has still to look at (`it')
  alive, dead       \* the two lists the sweep builds

mutVars == <<refs, roots>>
vars == <<objects, refs, roots, pc, marked, frames, unswept, alive, dead>>

-------------------------------------------------------------------------------
\* A frame holds the references still to be passed to tazE_markObj by the
\* scan in progress, and its segment of the gray stack.
Frame == [todo : SUBSET Obj, gray : SUBSET Obj]

\* The activation that runs.
Top == frames[Len(frames)]
SetTop(frame) == [frames EXCEPT ![Len(frames)] = frame]

\* What the activations on the stack will still pass to tazE_markObj, and
\* the objects in some segment.
Todo == UNION {frames[i].todo : i \in DOMAIN frames}
Gray == UNION {frames[i].gray : i \in DOMAIN frames}

Reached == Reach(Obj, roots, refs)

Init ==
  /\ objects = {} /\ refs = [o \in Obj |-> {}] /\ roots = {}
  /\ pc = "idle" /\ marked = {} /\ frames = <<>>
  /\ unswept = {} /\ alive = {} /\ dead = {}

-------------------------------------------------------------------------------
(* The running code, between two collections.                              *)

Mutate ==
  /\ pc = "idle"
  /\ UNCHANGED <<pc, marked, frames, unswept, alive, dead>>

\* tazE_commitObj, the object then kept in a bucket slot.
New(o) ==
  /\ Mutate
  /\ o \in Obj \ objects
  /\ objects' = objects \union {o}
  /\ refs' = [refs EXCEPT ![o] = {}]
  /\ roots' = roots \union {o}

Root(o) ==
  /\ Mutate
  /\ o \in Reached \ roots
  /\ roots' = roots \union {o}
  /\ UNCHANGED <<objects, refs>>

Unroot(o) ==
  /\ Mutate
  /\ o \in roots
  /\ roots' = roots \ {o}
  /\ UNCHANGED <<objects, refs>>

Link(o, p) ==
  /\ Mutate
  /\ {o, p} \subseteq Reached /\ p \notin refs[o]
  /\ refs' = [refs EXCEPT ![o] = @ \union {p}]
  /\ UNCHANGED <<objects, roots>>

Unlink(o, p) ==
  /\ Mutate
  /\ o \in Reached /\ p \in refs[o]
  /\ refs' = [refs EXCEPT ![o] = @ \ {p}]
  /\ UNCHANGED <<objects, roots>>

-------------------------------------------------------------------------------
(* collect().                                                              *)

\* The definitions named Mut... are faulty forms of the ones they precede:
\* each breaks the property that its comment names.

\* What collect() passes to tazE_markObj itself.
RootScan == roots

\* The references that tazE_markObj has to do something about.  (Faulty: it
\* marks again what is marked.  CollectTerminates)
MutWhite == Top.todo
White == Top.todo \ marked

\* The segment has room.
Room == Cardinality(Top.gray) < Segment

\* The activation of scanWithNewStack for o.  (Faulty: it does not scan o
\* itself.  TriColour)
MutNewStack(o) == [todo |-> {}, gray |-> {}]
NewStack(o) == [todo |-> refs[o], gray |-> {}]

\* The loop over a segment is done.  (Faulty: it leaves the entry at index 0.
\* NoDangling)
MutDrained == Top.todo = {} /\ Cardinality(Top.gray) <= 1
Drained == Top.todo = {} /\ Top.gray = {}

\* scanWithNewStack restores gcStackBuf and gcStackTop.  (Faulty: gcStackTop
\* stays 0.  SweepExact)
MutReturned ==
  [SubSeq(frames, 1, Len(frames) - 1) EXCEPT ![Len(frames) - 1].gray = {}]
Returned == SubSeq(frames, 1, Len(frames) - 1)

\* The sweep clears the mark of o.  (Faulty: it does not.
\* ImplementsHeap)
MutUnmarked(o) == marked
Unmarked(o) == marked \ {o}

\* The scan of the roots is the first scan of the bottom frame.
BeginCollect ==
  /\ pc = "idle"
  /\ pc' = "mark"
  /\ frames' = <<[todo |-> RootScan, gray |-> {}]>>
  /\ UNCHANGED <<objects, mutVars, marked, unswept, alive, dead>>

\* tazE_markObj of an object that has its mark already.
MarkAgain(o) ==
  /\ pc = "mark"
  /\ o \in Top.todo \cap marked
  /\ frames' = SetTop([Top EXCEPT !.todo = @ \ {o}])
  /\ UNCHANGED <<objects, mutVars, pc, marked, unswept, alive, dead>>

\* tazE_markObj while the current segment has room.
MarkPush(o) ==
  /\ pc = "mark"
  /\ o \in White /\ Room
  /\ marked' = marked \union {o}
  /\ frames' = SetTop([todo |-> Top.todo \ {o}, gray |-> Top.gray \union {o}])
  /\ UNCHANGED <<objects, mutVars, pc, unswept, alive, dead>>

\* tazE_markObj when it is full: scanWithNewStack scans o at once.
MarkNewStack(o) ==
  /\ pc = "mark"
  /\ o \in White /\ ~Room
  /\ marked' = marked \union {o}
  /\ frames' = Append(SetTop([Top EXCEPT !.todo = @ \ {o}]), NewStack(o))
  /\ UNCHANGED <<objects, mutVars, pc, unswept, alive, dead>>

\* The scan in progress is over: pop an object of the segment and scan it.
ScanPop(o) ==
  /\ pc = "mark"
  /\ Top.todo = {} /\ o \in Top.gray
  /\ frames' = SetTop([todo |-> refs[o], gray |-> Top.gray \ {o}])
  /\ UNCHANGED <<objects, mutVars, pc, marked, unswept, alive, dead>>

\* scanWithNewStack returns to the scan that called tazE_markObj.
Unwind ==
  /\ pc = "mark"
  /\ Drained /\ Len(frames) > 1
  /\ frames' = Returned
  /\ UNCHANGED <<objects, mutVars, pc, marked, unswept, alive, dead>>

\* The stack of collect() itself is empty: on to the sweep.
BeginSweep ==
  /\ pc = "mark"
  /\ Drained /\ Len(frames) = 1
  /\ pc' = "sweep"
  /\ frames' = <<>>
  /\ unswept' = objects
  /\ UNCHANGED <<objects, mutVars, marked, alive, dead>>

\* A marked object loses its mark and goes to the list of the living,
SweepAlive(o) ==
  /\ pc = "sweep"
  /\ o \in unswept \cap marked
  /\ unswept' = unswept \ {o}
  /\ marked' = Unmarked(o)
  /\ alive' = alive \union {o}
  /\ UNCHANGED <<objects, mutVars, pc, frames, dead>>

\* another one is destructed and goes to the list of the dead.
SweepDead(o) ==
  /\ pc = "sweep"
  /\ o \in unswept \ marked
  /\ unswept' = unswept \ {o}
  /\ dead' = dead \union {o}
  /\ UNCHANGED <<objects, mutVars, pc, marked, frames, alive>>

\* The second pass gives the memory of the dead back.
Release(o) ==
  /\ pc = "sweep"
  /\ unswept = {} /\ o \in dead
  /\ dead' = dead \ {o}
  /\ UNCHANGED <<objects, mutVars, pc, marked, frames, unswept, alive>>

EndCollect ==
  /\ pc = "sweep"
  /\ unswept = {} /\ dead = {}
  /\ pc' = "idle"
  /\ objects' = alive
  /\ alive' = {}
  /\ UNCHANGED <<mutVars, marked, frames, unswept, dead>>

-------------------------------------------------------------------------------
Mutator ==
  \/ \E o \in Obj : New(o) \/ Root(o) \/ Unroot(o)
  \/ \E o, p \in Obj : Link(o, p) \/ Unlink(o, p)

\* The rest of a collection once it has begun.
Collecting ==
  \/ \E o \in Obj : \/ MarkAgain(o) \/ MarkPush(o) \/ MarkNewStack(o)
                    \/ ScanPop(o) \/ SweepAlive(o) \/ SweepDead(o)
                    \/ Release(o)
  \/ Unwind \/ BeginSweep \/ EndCollect

Next == Mutator \/ BeginCollect \/ Collecting

Spec == Init /\ [][Next]_vars

\* collect() is sequential code with no call out but the finalizers: once it
\* has begun it goes on.
FairSpec == Spec /\ WF_vars(Collecting)

-------------------------------------------------------------------------------
TypeOK ==
  /\ objects \subseteq Obj
  /\ refs \in [Obj -> SUBSET Obj]
  /\ roots \subseteq Obj
  /\ pc \in {"idle", "mark", "sweep"}
  /\ marked \subseteq Obj
  /\ frames \in Seq(Frame)
  /\ unswept \subseteq Obj /\ alive \subseteq Obj /\ dead \subseteq Obj

\* The tri-colour invariant of tazE_markObj and the segmented gray stack: what
\* a scanned object (marked, in no segment) refers to is marked or is about
\* to be passed to tazE_markObj by some activation of scanWithNewStack, and so
\* is every root.
TriColour ==
  pc = "mark" =>
    /\ roots \subseteq marked \union Todo
    /\ \A o \in marked \ Gray : refs[o] \subseteq marked \union Todo

\* The mark bits that the sweep reads are exactly reachability, and it frees
\* no object that can be reached: a living one is in the new list or still to
\* be swept with its mark set, a dead one is in neither.
SweepExact ==
  pc = "sweep" =>
    /\ alive \union (unswept \cap marked) = Reached
    /\ dead \cap Reached = {}

\* tazE_markObj returns early on a mark bit, so one left over from the last
\* collection would hide the references of its object from the next: between
\* collections no object carries a mark.
MarksCleared == pc = "idle" => marked = {}

\* The object graph has no dangling reference: at no point does a root or a
\* committed object refer to an object that has been released.
NoDangling == roots \subseteq objects /\ Closed(objects, refs)

\* scanWithNewStack recurses on the C stack only when a whole segment is
\* taken: beyond the first, every activation has a full segment below it and
\* one object that went past it.
StackBound ==
  pc = "mark" => (Len(frames) - 1) * (Segment + 1) <= Cardinality(marked)

\* A collection that has begun ends, whatever cycles the graph has.
CollectTerminates == pc = "mark" ~> pc = "idle"

\* collect() implements the collection in one step of ObjectHeap.
Heap == INSTANCE ObjectHeap
ImplementsHeap == Heap!Spec
================================================================================
