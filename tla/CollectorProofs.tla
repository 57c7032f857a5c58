---------------------------- MODULE CollectorProofs ----------------------------
(***************************************************************************)
(* The collector of taz_engine.c is exact, for every set of objects, every *)
(* graph and every segment size: what it frees cannot be reached, what it  *)
(* keeps can, and it implements ObjectHeap.                                *)
(***************************************************************************)
EXTENDS Collector, FiniteSetTheorems, SequenceTheorems, TLAPS

\* The parts of the actions that have a name of their own are always expanded.
USE DEF RootScan, White, Room, NewStack, Drained, Returned, Unmarked

-------------------------------------------------------------------------------
(* Reach is the least closed set of objects that holds the roots. *)

\* The roots can be reached.
LEMMA ReachRoots ==
  ASSUME NEW objs, NEW from \in SUBSET objs, NEW to
  PROVE  from \subseteq Reach(objs, from, to)
BY DEF Reach

\* What a reachable object refers to can be reached.
LEMMA ReachClosed ==
  ASSUME NEW objs, NEW from, NEW to \in [objs -> SUBSET objs]
  PROVE  Closed(Reach(objs, from, to), to)
<1>1. SUFFICES ASSUME NEW o \in Reach(objs, from, to), NEW p \in to[o],
                      NEW S \in SUBSET objs, from \subseteq S, Closed(S, to)
               PROVE  p \in S
  BY DEF Closed, Reach
<1>2. o \in S
  BY <1>1 DEF Reach
<1>3. QED
  BY <1>1, <1>2 DEF Closed

\* Nothing else can: a closed set that holds the roots holds all of it.
LEMMA ReachLeast ==
  ASSUME NEW objs, NEW from, NEW to, NEW S \in SUBSET objs, from \subseteq S, Closed(S, to)
  PROVE  Reach(objs, from, to) \subseteq S
BY DEF Reach

\* Reach names objects only.
LEMMA ReachType ==
  ASSUME NEW objs, NEW from, NEW to
  PROVE  Reach(objs, from, to) \subseteq objs
BY DEF Reach

-------------------------------------------------------------------------------
(* The gray stack.                                                         *)

\* The frames under the running one, and what is in them.
LEMMA SetTopFacts ==
  ASSUME frames \in Seq(Frame), frames # <<>>, NEW frame \in Frame
  PROVE  /\ SetTop(frame) \in Seq(Frame)
         /\ Len(SetTop(frame)) = Len(frames)
         /\ Top \in Frame
         /\ \A i \in DOMAIN frames :
               SetTop(frame)[i] = IF i = Len(frames) THEN frame ELSE frames[i]
         /\ DOMAIN SetTop(frame) = DOMAIN frames
         /\ DOMAIN frames = 1 .. Len(frames)
         /\ Len(frames) \in Nat \ {0}
BY DEF SetTop, Top

TodoOf(fs) == UNION {fs[i].todo : i \in DOMAIN fs}
GrayOf(fs) == UNION {fs[i].gray : i \in DOMAIN fs}

\* What is in the stack once the running frame has been replaced.
LEMMA SetTopUnions ==
  ASSUME frames \in Seq(Frame), frames # <<>>, NEW frame \in Frame
  PROVE  /\ Todo \subseteq TodoOf(SetTop(frame)) \union Top.todo
         /\ TodoOf(SetTop(frame)) \subseteq Todo \union frame.todo
         /\ frame.todo \subseteq TodoOf(SetTop(frame))
         /\ Gray \subseteq GrayOf(SetTop(frame)) \union Top.gray
         /\ GrayOf(SetTop(frame)) \subseteq Gray \union frame.gray
         /\ frame.gray \subseteq GrayOf(SetTop(frame))
         /\ Top.todo \subseteq Todo
         /\ Top.gray \subseteq Gray
<1> DEFINE n == Len(frames)
<1>1. n \in DOMAIN frames /\ SetTop(frame)[n] = frame
  BY SetTopFacts
<1>2. \A i \in DOMAIN frames : i # n => SetTop(frame)[i] = frames[i]
  BY SetTopFacts
<1>3. DOMAIN SetTop(frame) = DOMAIN frames
  BY SetTopFacts
<1>4. Top = frames[n]
  BY DEF Top
<1> HIDE DEF n
<1>5. QED
  BY <1>1, <1>2, <1>3, <1>4 DEF Todo, Gray, TodoOf, GrayOf

-------------------------------------------------------------------------------
(* The inductive invariant.  SweepExact is not inductive: that the marks are *)
(* exact when the sweep begins rests on the tri-colour invariant, on marks   *)
(* and pending references staying within what can be reached, on the stack   *)
(* being empty between collections, and on the absence of dangling           *)
(* references (a reachable object is in the list that is swept).             *)

IdleInv ==
  pc = "idle" =>
    /\ frames = <<>>
    /\ marked = {} /\ unswept = {} /\ alive = {} /\ dead = {}

MarkInv ==
  pc = "mark" =>
    /\ frames # <<>>
    /\ unswept = {} /\ alive = {} /\ dead = {}
    /\ Gray \subseteq marked
    /\ marked \subseteq Reached
    /\ Todo \subseteq Reached

SweepInv ==
  pc = "sweep" =>
    /\ frames = <<>>
    /\ marked \subseteq unswept
    /\ unswept \cap alive = {}

IInv ==
  /\ TypeOK
  /\ NoDangling
  /\ IdleInv
  /\ MarkInv
  /\ TriColour
  /\ SweepInv
  /\ SweepExact

-------------------------------------------------------------------------------
\* What can be reached, in a state without dangling references.
LEMMA ReachedFacts ==
  ASSUME TypeOK, NoDangling
  PROVE  /\ roots \subseteq Reached
         /\ Closed(Reached, refs)
         /\ Reached \subseteq objects
<1>1. roots \subseteq Reached
  BY ReachRoots DEF TypeOK, Reached
<1>2. Closed(Reached, refs)
  BY ReachClosed DEF TypeOK, Reached
<1>3. Reached \subseteq objects
  BY ReachLeast DEF TypeOK, NoDangling, Reached
<1>4. QED
  BY <1>1, <1>2, <1>3

LEMMA InitInv == Init => IInv
<1>1. SUFFICES ASSUME Init PROVE IInv
  OBVIOUS
<1>2. TypeOK
  BY <1>1 DEF Init, TypeOK
<1>3. NoDangling
  BY <1>1 DEF Init, NoDangling, Closed
<1>4. IdleInv /\ MarkInv /\ TriColour /\ SweepInv /\ SweepExact
  BY <1>1 DEF Init, IdleInv, MarkInv, TriColour, SweepInv, SweepExact
<1>5. QED
  BY <1>2, <1>3, <1>4 DEF IInv

\* The running code only writes references it can reach.
LEMMA MutatorInv == IInv /\ Mutator => IInv'
<1>1. SUFFICES ASSUME IInv, Mutator PROVE IInv'
  OBVIOUS
<1> USE <1>1
<1>2. /\ pc = "idle"
      /\ UNCHANGED <<pc, marked, frames, unswept, alive, dead>>
  BY DEF Mutator, Mutate, New, Root, Unroot, Link, Unlink
<1>3. IdleInv' /\ MarkInv' /\ TriColour' /\ SweepInv' /\ SweepExact'
  BY <1>2 DEF IInv, IdleInv, MarkInv, TriColour, SweepInv, SweepExact
<1>4. /\ roots \subseteq Reached /\ Closed(Reached, refs)
      /\ Reached \subseteq objects
  BY ReachedFacts DEF IInv
<1>5. TypeOK' /\ NoDangling'
  <2> USE <1>2, <1>4 DEF IInv, TypeOK, NoDangling, Closed
  <2>1. ASSUME NEW o \in Obj, New(o) PROVE TypeOK' /\ NoDangling'
    BY <2>1 DEF New
  <2>2. ASSUME NEW o \in Obj, Root(o) PROVE TypeOK' /\ NoDangling'
    BY <2>2 DEF Root
  <2>3. ASSUME NEW o \in Obj, Unroot(o) PROVE TypeOK' /\ NoDangling'
    BY <2>3 DEF Unroot
  <2>4. ASSUME NEW o \in Obj, NEW p \in Obj, Link(o, p)
        PROVE  TypeOK' /\ NoDangling'
    BY <2>4 DEF Link
  <2>5. ASSUME NEW o \in Obj, NEW p \in Obj, Unlink(o, p)
        PROVE  TypeOK' /\ NoDangling'
    BY <2>5 DEF Unlink
  <2>6. QED
    BY <2>1, <2>2, <2>3, <2>4, <2>5 DEF Mutator
<1>6. QED
  BY <1>3, <1>5 DEF IInv

\* A collection begins with the roots as the only references to mark.
LEMMA BeginCollectInv == IInv /\ BeginCollect => IInv'
<1>1. SUFFICES ASSUME IInv, BeginCollect PROVE IInv'
  OBVIOUS
<1> USE <1>1
<1> DEFINE frame == [todo |-> roots, gray |-> {}]
<1>2. /\ pc = "idle" /\ pc' = "mark" /\ frames' = <<frame>>
      /\ UNCHANGED <<objects, refs, roots, marked, unswept, alive, dead>>
  BY DEF BeginCollect, mutVars
<1>3. Todo' = roots /\ Gray' = {}
  BY <1>2 DEF Todo, Gray
<1>4. roots \subseteq Reached /\ Reached' = Reached
  BY <1>2, ReachedFacts DEF IInv, Reached
<1>5. TypeOK' /\ NoDangling'
  <2>1. frame \in Frame
    BY DEF IInv, TypeOK, Frame
  <2>2. QED
    BY <1>2, <2>1 DEF IInv, TypeOK, NoDangling
<1>6. IdleInv' /\ SweepInv' /\ SweepExact'
  BY <1>2 DEF IdleInv, SweepInv, SweepExact
<1>7. MarkInv' /\ TriColour'
  BY <1>2, <1>3, <1>4 DEF IInv, IdleInv, MarkInv, TriColour
<1>8. QED
  BY <1>5, <1>6, <1>7 DEF IInv

\* What every step of the mark phase shares.
LEMMA MarkStepInv ==
  ASSUME IInv, pc = "mark", pc' = "mark",
         UNCHANGED <<objects, refs, roots, unswept, alive, dead>>,
         marked' \subseteq Reached, frames' \in Seq(Frame), frames' # <<>>,
         Gray' \subseteq marked', Todo' \subseteq Reached,
         roots \subseteq marked' \union Todo',
         \A o \in marked' \ Gray' : refs[o] \subseteq marked' \union Todo'
  PROVE  IInv'
<1>1. Reached' = Reached
  BY DEF Reached
<1>2. TypeOK' /\ NoDangling'
  BY ReachType DEF IInv, TypeOK, NoDangling, Reached
<1>3. MarkInv' /\ TriColour'
  BY <1>1 DEF IInv, MarkInv, TriColour
<1>4. QED
  BY <1>2, <1>3 DEF IInv, IdleInv, SweepInv, SweepExact

\* tazE_markObj and the pop of a gray object, within the running frame.
LEMMA MarkTopInv ==
  ASSUME IInv, NEW o \in Obj, MarkAgain(o) \/ MarkPush(o) \/ ScanPop(o)
  PROVE  IInv'
<1>1. /\ pc = "mark" /\ pc' = "mark"
      /\ UNCHANGED <<objects, refs, roots, unswept, alive, dead>>
  BY DEF MarkAgain, MarkPush, ScanPop, mutVars
<1>2. /\ frames # <<>> /\ frames \in Seq(Frame)
      /\ Gray \subseteq marked /\ marked \subseteq Reached
      /\ Todo \subseteq Reached
      /\ roots \subseteq marked \union Todo
      /\ \A p \in marked \ Gray : refs[p] \subseteq marked \union Todo
  BY <1>1 DEF IInv, TypeOK, MarkInv, TriColour
<1>3. Closed(Reached, refs)
  BY ReachedFacts DEF IInv
<1>4. Top \in Frame
  BY <1>2, SetTopFacts
<1>5. CASE MarkAgain(o)
  <2> DEFINE frame == [Top EXCEPT !.todo = @ \ {o}]
  <2>1. /\ frame \in Frame
        /\ frame.todo = Top.todo \ {o} /\ frame.gray = Top.gray
    BY <1>4 DEF Frame
  <2>2. frames' = SetTop(frame) /\ marked' = marked /\ o \in marked
    BY <1>5 DEF MarkAgain
  <2>3. Todo' = TodoOf(SetTop(frame)) /\ Gray' = GrayOf(SetTop(frame))
    BY <2>2 DEF Todo, Gray, TodoOf, GrayOf
  <2> HIDE DEF frame
  <2>4. /\ Todo' \subseteq Todo /\ Todo \subseteq Todo' \union {o}
        /\ Gray' = Gray
    BY <1>2, <2>1, <2>3, SetTopUnions
  <2>5. frames' \in Seq(Frame) /\ frames' # <<>>
    BY <1>2, <2>1, <2>2, SetTopFacts
  <2>6. QED
    BY <1>1, <1>2, <2>2, <2>4, <2>5, MarkStepInv
<1>6. CASE MarkPush(o)
  <2> DEFINE frame == [todo |-> Top.todo \ {o}, gray |-> Top.gray \union {o}]
  <2>1. /\ frame \in Frame
        /\ frame.todo = Top.todo \ {o} /\ frame.gray = Top.gray \union {o}
    BY <1>4 DEF Frame
  <2>2. /\ frames' = SetTop(frame) /\ marked' = marked \union {o}
        /\ o \in Top.todo
    BY <1>6 DEF MarkPush
  <2>3. Todo' = TodoOf(SetTop(frame)) /\ Gray' = GrayOf(SetTop(frame))
    BY <2>2 DEF Todo, Gray, TodoOf, GrayOf
  <2> HIDE DEF frame
  <2>4. /\ Todo' \subseteq Todo /\ Todo \subseteq Todo' \union {o}
        /\ Gray' = Gray \union {o} /\ o \in Todo
    BY <1>2, <2>1, <2>2, <2>3, SetTopUnions
  <2>5. frames' \in Seq(Frame) /\ frames' # <<>>
    BY <1>2, <2>1, <2>2, SetTopFacts
  <2>6. QED
    BY <1>1, <1>2, <2>2, <2>4, <2>5, MarkStepInv
<1>7. CASE ScanPop(o)
  <2> DEFINE frame == [todo |-> refs[o], gray |-> Top.gray \ {o}]
  <2>1. /\ frame \in Frame
        /\ frame.todo = refs[o] /\ frame.gray = Top.gray \ {o}
    BY <1>4 DEF Frame, IInv, TypeOK
  <2>2. /\ frames' = SetTop(frame) /\ marked' = marked
        /\ o \in Top.gray /\ Top.todo = {}
    BY <1>7 DEF ScanPop
  <2>3. Todo' = TodoOf(SetTop(frame)) /\ Gray' = GrayOf(SetTop(frame))
    BY <2>2 DEF Todo, Gray, TodoOf, GrayOf
  <2> HIDE DEF frame
  <2>4. /\ Todo' = Todo \union refs[o]
        /\ Gray \subseteq Gray' \union {o} /\ Gray' \subseteq Gray
        /\ o \in Gray
    BY <1>2, <2>1, <2>2, <2>3, SetTopUnions
  <2>5. frames' \in Seq(Frame) /\ frames' # <<>>
    BY <1>2, <2>1, <2>2, SetTopFacts
  <2>6. refs[o] \subseteq Reached
    BY <1>2, <1>3, <2>4 DEF Closed
  <2>7. QED
    BY <1>1, <1>2, <2>2, <2>4, <2>5, <2>6, MarkStepInv
<1>8. QED
  BY <1>5, <1>6, <1>7

\* A new activation of scanWithNewStack.
LEMMA MarkNewStackInv ==
  ASSUME IInv, NEW o \in Obj, MarkNewStack(o)
  PROVE  IInv'
<1> DEFINE frame == [Top EXCEPT !.todo = @ \ {o}]
           below == SetTop(frame)
           fresh == [todo |-> refs[o], gray |-> {}]
<1>1. /\ pc = "mark" /\ pc' = "mark"
      /\ UNCHANGED <<objects, refs, roots, unswept, alive, dead>>
      /\ frames' = Append(below, fresh) /\ marked' = marked \union {o}
      /\ o \in Top.todo
  BY DEF MarkNewStack, mutVars
<1>2. /\ frames # <<>> /\ frames \in Seq(Frame)
      /\ Gray \subseteq marked /\ marked \subseteq Reached
      /\ Todo \subseteq Reached
      /\ roots \subseteq marked \union Todo
      /\ \A p \in marked \ Gray : refs[p] \subseteq marked \union Todo
  BY <1>1 DEF IInv, TypeOK, MarkInv, TriColour
<1>3. Closed(Reached, refs)
  BY ReachedFacts DEF IInv
<1>4. /\ frame \in Frame /\ frame.todo = Top.todo \ {o}
      /\ frame.gray = Top.gray /\ fresh \in Frame
      /\ fresh.todo = refs[o] /\ fresh.gray = {}
  <2>1. Top \in Frame
    BY <1>2 DEF Top
  <2>2. refs[o] \in SUBSET Obj
    BY DEF IInv, TypeOK
  <2>3. QED
    BY <2>1, <2>2 DEF Frame
<1>5. below \in Seq(Frame)
  BY <1>2, <1>4, SetTopFacts
<1> HIDE DEF frame, fresh
<1>6. /\ TodoOf(below) \subseteq Todo /\ Todo \subseteq TodoOf(below) \union {o}
      /\ GrayOf(below) = Gray /\ o \in Todo
  BY <1>1, <1>2, <1>4, SetTopUnions
<1> HIDE DEF below
<1>7. /\ frames' \in Seq(Frame) /\ frames' # <<>>
      /\ DOMAIN frames' = DOMAIN below \union {Len(below) + 1}
      /\ \A i \in DOMAIN below : frames'[i] = below[i]
      /\ frames'[Len(below) + 1] = fresh
  BY <1>1, <1>4, <1>5
<1>8. Todo' = TodoOf(below) \union refs[o] /\ Gray' = Gray
  <2>1. Todo' = TodoOf(frames') /\ Gray' = GrayOf(frames')
    BY DEF Todo, Gray, TodoOf, GrayOf
  <2>2. /\ TodoOf(frames') \subseteq TodoOf(below) \union refs[o]
        /\ GrayOf(frames') \subseteq GrayOf(below)
    BY <1>4, <1>7 DEF TodoOf, GrayOf
  <2>3. TodoOf(below) \subseteq TodoOf(frames') /\ refs[o] \subseteq TodoOf(frames')
    BY <1>4, <1>7 DEF TodoOf
  <2>4. GrayOf(below) \subseteq GrayOf(frames')
    BY <1>7 DEF GrayOf
  <2>5. QED
    BY <1>6, <2>1, <2>2, <2>3, <2>4
<1>9. refs[o] \subseteq Reached
  BY <1>2, <1>3, <1>6 DEF Closed
<1>10. QED
  BY <1>1, <1>2, <1>6, <1>7, <1>8, <1>9, MarkStepInv

\* scanWithNewStack returns with nothing left in its frame.
LEMMA UnwindInv == IInv /\ Unwind => IInv'
<1>1. SUFFICES ASSUME IInv, Unwind PROVE IInv'
  OBVIOUS
<1> USE <1>1
<1>2. /\ pc = "mark" /\ pc' = "mark"
      /\ UNCHANGED <<objects, refs, roots, marked, unswept, alive, dead>>
      /\ frames' = SubSeq(frames, 1, Len(frames) - 1)
      /\ frames[Len(frames)].todo = {} /\ frames[Len(frames)].gray = {}
      /\ Len(frames) > 1
  BY DEF Unwind, mutVars, Top
<1>3. frames \in Seq(Frame)
  BY DEF IInv, TypeOK
<1>4. /\ frames' \in Seq(Frame) /\ frames' # <<>>
      /\ DOMAIN frames' = DOMAIN frames \ {Len(frames)}
      /\ \A i \in DOMAIN frames' : frames'[i] = frames[i]
  <2>1. /\ frames' \in Seq(Frame) /\ Len(frames') = Len(frames) - 1
        /\ \A i \in 1 .. Len(frames) - 1 : frames'[i] = frames[i]
    BY <1>2, <1>3, SubSeqProperties
  <2>2. DOMAIN frames' = 1 .. Len(frames) - 1 /\ DOMAIN frames = 1 .. Len(frames)
    BY <1>3, <2>1
  <2>3. Len(frames) \in Nat
    BY <1>3
  <2>4. frames' # <<>>
    BY <1>2, <2>1, <2>3
  <2>5. DOMAIN frames' = DOMAIN frames \ {Len(frames)}
    BY <1>2, <2>2, <2>3
  <2>6. QED
    BY <2>1, <2>2, <2>4, <2>5
<1>5. Todo' = Todo /\ Gray' = Gray
  <2>1. /\ Todo' \subseteq Todo /\ Gray' \subseteq Gray
    BY <1>2, <1>4 DEF Todo, Gray
  <2>2. /\ Todo \subseteq Todo' /\ Gray \subseteq Gray'
    BY <1>2, <1>4 DEF Todo, Gray
  <2>3. QED
    BY <2>1, <2>2
<1>6. QED
  BY <1>2, <1>4, <1>5, MarkStepInv DEF IInv, MarkInv, TriColour

\* The stack is empty: what is marked is what can be reached.
LEMMA BeginSweepInv == IInv /\ BeginSweep => IInv'
<1>1. SUFFICES ASSUME IInv, BeginSweep PROVE IInv'
  OBVIOUS
<1> USE <1>1
<1>2. /\ pc = "mark" /\ pc' = "sweep"
      /\ UNCHANGED <<objects, refs, roots, marked, alive, dead>>
      /\ frames' = <<>> /\ unswept' = objects
      /\ frames[1].todo = {} /\ frames[1].gray = {} /\ Len(frames) = 1
  BY DEF BeginSweep, mutVars, Top
<1>3. Todo = {} /\ Gray = {}
  <2>1. DOMAIN frames = {1}
    BY <1>2 DEF IInv, TypeOK
  <2>2. QED
    BY <1>2, <2>1 DEF Todo, Gray
<1>4. marked = Reached
  <2>1. roots \subseteq marked /\ Closed(marked, refs)
    BY <1>2, <1>3 DEF IInv, TriColour, Closed
  <2>2. Reached \subseteq marked
    BY <2>1, ReachLeast DEF IInv, TypeOK, Reached
  <2>3. QED
    BY <1>2, <2>2 DEF IInv, MarkInv
<1>5. Reached' = Reached /\ Reached \subseteq objects
  BY <1>2, ReachedFacts DEF IInv, Reached
<1>6. TypeOK' /\ NoDangling'
  BY <1>2 DEF IInv, TypeOK, NoDangling
<1>7. IdleInv' /\ MarkInv' /\ TriColour'
  BY <1>2 DEF IdleInv, MarkInv, TriColour
<1>8. SweepInv' /\ SweepExact'
  BY <1>2, <1>4, <1>5 DEF IInv, MarkInv, SweepInv, SweepExact
<1>9. QED
  BY <1>6, <1>7, <1>8 DEF IInv

\* The two passes of the sweep.
LEMMA SweepStepInv ==
  ASSUME IInv, NEW o \in Obj, SweepAlive(o) \/ SweepDead(o) \/ Release(o)
  PROVE  IInv'
<1>1. /\ pc = "sweep" /\ pc' = "sweep"
      /\ UNCHANGED <<objects, refs, roots, frames>>
  BY DEF SweepAlive, SweepDead, Release, mutVars
<1>2. Reached' = Reached
  BY <1>1 DEF Reached
<1>3. TypeOK' /\ NoDangling'
  BY <1>1 DEF IInv, TypeOK, NoDangling, SweepAlive, SweepDead, Release
<1>4. IdleInv' /\ MarkInv' /\ TriColour'
  BY <1>1 DEF IdleInv, MarkInv, TriColour
<1>5. SweepInv' /\ SweepExact'
  <2>1. CASE SweepAlive(o)
    BY <1>1, <1>2, <2>1 DEF IInv, SweepInv, SweepExact, SweepAlive
  <2>2. CASE SweepDead(o)
    BY <1>1, <1>2, <2>2 DEF IInv, SweepInv, SweepExact, SweepDead
  <2>3. CASE Release(o)
    BY <1>1, <1>2, <2>3 DEF IInv, SweepInv, SweepExact, Release
  <2>4. QED
    BY <2>1, <2>2, <2>3
<1>6. QED
  BY <1>3, <1>4, <1>5 DEF IInv

\* The list of the living replaces the list of objects.
LEMMA EndCollectFacts ==
  ASSUME IInv, EndCollect
  PROVE  objects' = Reached /\ UNCHANGED <<refs, roots>> /\ IInv'
<1>1. /\ pc = "sweep" /\ pc' = "idle" /\ objects' = alive /\ alive' = {}
      /\ unswept = {} /\ dead = {}
      /\ UNCHANGED <<refs, roots, marked, frames, unswept, dead>>
  BY DEF EndCollect, mutVars
<1>2. objects' = Reached
  BY <1>1 DEF IInv, SweepExact
<1>3. TypeOK'
  BY <1>1 DEF IInv, TypeOK
<1>4. NoDangling'
  BY <1>1, <1>2, ReachedFacts DEF IInv, NoDangling
<1>5. IdleInv' /\ MarkInv' /\ TriColour' /\ SweepInv' /\ SweepExact'
  BY <1>1 DEF IInv, IdleInv, MarkInv, TriColour, SweepInv, SweepExact
<1>6. QED
  BY <1>1, <1>2, <1>3, <1>4, <1>5 DEF IInv

LEMMA StutterInv == IInv /\ UNCHANGED vars => IInv'
BY DEF IInv, vars, TypeOK, NoDangling, IdleInv, MarkInv, TriColour, SweepInv,
       SweepExact, Reached, Todo, Gray

-------------------------------------------------------------------------------
\* Every reachable state of the collector satisfies the inductive invariant.
THEOREM Inductive == Spec => []IInv
<1>1. IInv /\ [Next]_vars => IInv'
  <2>1. SUFFICES ASSUME IInv, [Next]_vars PROVE IInv'
    OBVIOUS
  <2> USE <2>1
  <2>2. ASSUME NEW o \in Obj,
               \/ MarkAgain(o) \/ MarkPush(o) \/ MarkNewStack(o)
               \/ ScanPop(o) \/ SweepAlive(o) \/ SweepDead(o)
               \/ Release(o)
        PROVE  IInv'
    BY <2>2, MarkTopInv, MarkNewStackInv, SweepStepInv
  <2>3. CASE Unwind \/ BeginSweep \/ EndCollect
    BY <2>3, UnwindInv, BeginSweepInv, EndCollectFacts
  <2>4. CASE Mutator \/ BeginCollect
    BY <2>4, MutatorInv, BeginCollectInv
  <2>5. CASE UNCHANGED vars
    BY <2>5, StutterInv
  <2>6. QED
    BY <2>2, <2>3, <2>4, <2>5 DEF Next, Collecting
<1>2. QED
  BY <1>1, InitInv, PTL DEF Spec

\* The variables of the collector keep their types, in and between collections.
THEOREM TypeCorrect == Spec => []TypeOK
<1>1. IInv => TypeOK
  BY DEF IInv
<1>2. QED
  BY <1>1, Inductive, PTL

\* The sweep frees exactly what cannot be reached, and no mark outlives a
\* collection.
THEOREM CollectorExact == Spec => [](SweepExact /\ MarksCleared)
<1>1. IInv => SweepExact /\ MarksCleared
  BY DEF IInv, IdleInv, MarksCleared
<1>2. QED
  BY <1>1, Inductive, PTL

\* The mark phase keeps the tri-colour invariant across segments.
THEOREM TriColourHolds == Spec => []TriColour
<1>1. IInv => TriColour
  BY DEF IInv
<1>2. QED
  BY <1>1, Inductive, PTL

\* A collection never leaves a root or a committed object with a reference to
\* a released object.
THEOREM NoDanglingHolds == Spec => []NoDangling
<1>1. IInv => NoDangling
  BY DEF IInv
<1>2. QED
  BY <1>1, Inductive, PTL

\* The collector implements the heap that collects in one step.
THEOREM Refinement == Spec => ImplementsHeap
<1>1. Init => Heap!Init
  BY DEF Init, Heap!Init
<1>2. Heap!Reached = Reached
  BY DEF Heap!Reached, Reached, Heap!Reach, Reach, Heap!Closed, Closed
<1>3. IInv /\ [Next]_vars => [Heap!Next]_(Heap!vars)
  <2>1. SUFFICES ASSUME IInv, [Next]_vars
                 PROVE  Heap!Next \/ UNCHANGED <<objects, refs, roots>>
    BY DEF Heap!vars
  <2> USE <2>1
  <2>2. CASE Mutator
    BY <1>2, <2>2 DEF Mutator, Mutate, New, Root, Unroot, Link, Unlink,
                      Heap!Next, Heap!New, Heap!Root, Heap!Unroot,
                      Heap!Link, Heap!Unlink
  <2>3. CASE EndCollect
    BY <1>2, <2>3, EndCollectFacts DEF Heap!Next, Heap!Collect
  <2>4. CASE Unwind \/ BeginSweep \/ BeginCollect \/ UNCHANGED vars
    BY <2>4 DEF Unwind, BeginSweep, BeginCollect, vars, mutVars
  <2>5. ASSUME NEW o \in Obj,
               \/ MarkAgain(o) \/ MarkPush(o) \/ MarkNewStack(o)
               \/ ScanPop(o) \/ SweepAlive(o) \/ SweepDead(o)
               \/ Release(o)
        PROVE  UNCHANGED <<objects, refs, roots>>
    BY <2>5 DEF MarkAgain, MarkPush, MarkNewStack, ScanPop, SweepAlive,
                SweepDead, Release, mutVars
  <2>6. QED
    BY <2>2, <2>3, <2>4, <2>5 DEF Next, Collecting
<1>4. QED
  BY <1>1, <1>3, Inductive, PTL DEF Spec, ImplementsHeap, Heap!Spec

-------------------------------------------------------------------------------
(* The depth of the C stack.  StackBound needs to know how full the segment  *)
(* of the running frame is, and that no segment is ever more than full.      *)

StackInv ==
  pc = "mark" =>
    /\ \A i \in DOMAIN frames : Cardinality(frames[i].gray) <= Segment
    /\ (Len(frames) - 1) * (Segment + 1) + Cardinality(Top.gray)
          <= Cardinality(marked)

\* The cardinality of a segment and of the marked objects, and how they grow.
LEMMA ObjCardinality ==
  ASSUME NEW S \in SUBSET Obj
  PROVE  /\ Cardinality(S) \in Nat
         /\ \A o \in Obj \ S : Cardinality(S \union {o}) = Cardinality(S) + 1
         /\ \A o \in S : Cardinality(S \ {o}) = Cardinality(S) - 1
<1>1. IsFiniteSet(S)
  BY ObjAssumption, FS_Subset
<1>2. QED
  BY <1>1, FS_CardinalityType, FS_AddElement, FS_RemoveElement

LEMMA BeginStackInv == IInv /\ BeginCollect => StackInv'
<1>1. SUFFICES ASSUME IInv, BeginCollect PROVE StackInv'
  OBVIOUS
<1>2. frames' = <<[todo |-> roots, gray |-> {}]>> /\ marked' = {}
  BY <1>1 DEF BeginCollect, IInv, IdleInv
<1>3. /\ Len(frames') = 1 /\ DOMAIN frames' = {1}
      /\ frames'[1].gray = {} /\ Top' = frames'[1]
  BY <1>2 DEF Top
<1>4. Cardinality({}) = 0
  BY FS_EmptySet
<1>5. QED
  BY <1>2, <1>3, <1>4, SegmentAssumption DEF StackInv

LEMMA MarkStackInv ==
  ASSUME IInv, StackInv, NEW o \in Obj,
         MarkAgain(o) \/ MarkPush(o) \/ ScanPop(o)
  PROVE  StackInv'
<1>1. /\ pc = "mark" /\ frames \in Seq(Frame) /\ frames # <<>>
      /\ marked \subseteq Obj /\ Gray \subseteq marked
  BY DEF IInv, TypeOK, MarkInv, MarkAgain, MarkPush, ScanPop
<1>2. Top \in Frame /\ Top.gray \subseteq marked
  BY <1>1 DEF Top, Gray
<1>3. PICK frame \in Frame :
        /\ frames' = SetTop(frame)
        /\ \/ frame.gray = Top.gray /\ marked' = marked
           \/ /\ frame.gray = Top.gray \union {o} /\ o \notin marked
              /\ marked' = marked \union {o}
              /\ Cardinality(Top.gray) < Segment
           \/ /\ frame.gray = Top.gray \ {o} /\ o \in Top.gray
              /\ marked' = marked
  <2>1. CASE MarkAgain(o)
    <3>1. [Top EXCEPT !.todo = @ \ {o}] \in Frame
      BY <1>2 DEF Frame
    <3>2. [Top EXCEPT !.todo = @ \ {o}].gray = Top.gray
      BY <1>2 DEF Frame
    <3>3. QED
      BY <2>1, <3>1, <3>2 DEF MarkAgain
  <2>2. CASE MarkPush(o)
    BY <1>2, <2>2 DEF MarkPush, Frame
  <2>3. CASE ScanPop(o)
    BY <1>2, <2>3 DEF ScanPop, Frame, IInv, TypeOK
  <2>4. QED
    BY <2>1, <2>2, <2>3
<1> DEFINE n == Len(frames)
<1>4. /\ DOMAIN frames' = DOMAIN frames /\ Len(frames') = n
      /\ Top' = frame
      /\ \A i \in DOMAIN frames : frames'[i] = IF i = n THEN frame ELSE frames[i]
  BY <1>1, <1>3, SetTopFacts DEF Top
<1>5. /\ Cardinality(frame.gray) <= Segment
      /\ Cardinality(frame.gray) - Cardinality(Top.gray)
            <= Cardinality(marked') - Cardinality(marked)
      /\ Cardinality(frame.gray) \in Nat /\ Cardinality(marked') \in Nat
      /\ Cardinality(Top.gray) \in Nat /\ Cardinality(marked) \in Nat
  <2>1. Cardinality(Top.gray) <= Segment
    BY <1>1 DEF StackInv, Top
  <2>2. Top.gray \in SUBSET Obj /\ marked \in SUBSET Obj
    BY <1>1, <1>2
  <2>3. CASE frame.gray = Top.gray /\ marked' = marked
    BY <2>1, <2>2, <2>3, ObjCardinality
  <2>4. CASE /\ frame.gray = Top.gray \union {o} /\ o \notin marked
             /\ marked' = marked \union {o}
             /\ Cardinality(Top.gray) < Segment
    BY <1>2, <2>1, <2>2, <2>4, ObjCardinality, SegmentAssumption
  <2>5. CASE /\ frame.gray = Top.gray \ {o} /\ o \in Top.gray
             /\ marked' = marked
    <3>1. Cardinality(frame.gray) = Cardinality(Top.gray) - 1
      BY <2>2, <2>5, ObjCardinality
    <3>2. frame.gray \in SUBSET Obj
      BY <2>2, <2>5
    <3>3. QED
      BY <2>1, <2>2, <2>5, <3>1, <3>2, ObjCardinality, SegmentAssumption
  <2>6. QED
    BY <1>3, <2>3, <2>4, <2>5
<1>6. /\ \A i \in DOMAIN frames : Cardinality(frames[i].gray) <= Segment
      /\ (n - 1) * (Segment + 1) + Cardinality(Top.gray)
            <= Cardinality(marked)
  BY <1>1 DEF StackInv
<1>7. (n - 1) * (Segment + 1) \in Int
  BY <1>1, SegmentAssumption
<1>8. (n - 1) * (Segment + 1) + Cardinality(frame.gray) <= Cardinality(marked')
  BY <1>5, <1>6, <1>7
<1>9. QED
  BY <1>4, <1>5, <1>6, <1>8 DEF StackInv

LEMMA NewStackInv ==
  ASSUME IInv, StackInv, NEW o \in Obj, MarkNewStack(o)
  PROVE  StackInv'
<1> DEFINE frame == [Top EXCEPT !.todo = @ \ {o}]
           below == SetTop(frame)
           fresh == [todo |-> refs[o], gray |-> {}]
           n == Len(frames)
<1>1. /\ pc = "mark" /\ frames \in Seq(Frame) /\ frames # <<>>
      /\ marked \subseteq Obj /\ Gray \subseteq marked /\ o \notin marked
      /\ frames' = Append(below, fresh) /\ marked' = marked \union {o}
      /\ ~(Cardinality(Top.gray) < Segment)
  BY DEF IInv, TypeOK, MarkInv, MarkNewStack
<1>2. Top \in Frame /\ Top.gray \subseteq marked
  BY <1>1 DEF Top, Gray
<1>3. frame \in Frame /\ frame.gray = Top.gray /\ fresh.gray = {}
  BY <1>2 DEF Frame
<1>4. fresh \in Frame
  BY DEF Frame, IInv, TypeOK
<1> HIDE DEF frame, fresh
<1>5. /\ below \in Seq(Frame) /\ Len(below) = n /\ n \in Nat \ {0}
      /\ DOMAIN below = 1 .. n /\ DOMAIN frames = 1 .. n
      /\ \A i \in 1 .. n : below[i] = IF i = n THEN frame ELSE frames[i]
  BY <1>1, <1>3, SetTopFacts
<1> HIDE DEF below, n
<1>6. /\ Len(frames') = n + 1 /\ DOMAIN frames' = 1 .. n + 1
      /\ \A i \in 1 .. n : frames'[i] = below[i]
      /\ Top' = fresh /\ frames'[n + 1] = fresh
  <2>1. /\ Len(frames') = n + 1 /\ DOMAIN frames' = 1 .. n + 1
        /\ \A i \in 1 .. n : frames'[i] = below[i]
        /\ frames'[n + 1] = fresh
    BY <1>1, <1>4, <1>5
  <2>2. Top' = frames'[Len(frames')]
    BY DEF Top
  <2>3. QED
    BY <2>1, <2>2
<1>7. /\ Cardinality(Top.gray) \in Nat /\ Cardinality(marked) \in Nat
      /\ Cardinality(marked') = Cardinality(marked) + 1
      /\ Cardinality({}) = 0
  <2>1. Top.gray \in SUBSET Obj /\ marked \in SUBSET Obj /\ o \in Obj \ marked
    BY <1>1, <1>2
  <2>2. QED
    BY <1>1, <2>1, ObjCardinality, FS_EmptySet
<1>8. /\ \A i \in DOMAIN frames : Cardinality(frames[i].gray) <= Segment
      /\ (n - 1) * (Segment + 1) + Cardinality(Top.gray)
            <= Cardinality(marked)
  BY <1>1 DEF StackInv, n
<1>9. \A i \in DOMAIN frames' : Cardinality(frames'[i].gray) <= Segment
  <2>1. \A i \in 1 .. n : frames'[i].gray = frames[i].gray
    BY <1>3, <1>5, <1>6 DEF Top, n
  <2>2. \A i \in 1 .. n : Cardinality(frames'[i].gray) <= Segment
    BY <1>5, <1>8, <2>1
  <2>3. Cardinality(frames'[n + 1].gray) <= Segment
    <3>1. frames'[n + 1].gray = {}
      BY <1>3, <1>6
    <3>2. Cardinality(frames'[n + 1].gray) = 0
      BY <1>7, <3>1
    <3>3. QED
      BY <3>2, SegmentAssumption
  <2>4. QED
    BY <1>5, <1>6, <2>2, <2>3
<1>10. (n - 1) * (Segment + 1) + Segment <= Cardinality(marked)
  <2>1. (n - 1) * (Segment + 1) \in Int
    BY <1>5, SegmentAssumption
  <2>2. QED
    BY <1>1, <1>7, <1>8, <2>1, SegmentAssumption
<1>11. (n + 1 - 1) * (Segment + 1) <= Cardinality(marked')
  <2>1. (n + 1 - 1) * (Segment + 1) = (n - 1) * (Segment + 1) + Segment + 1
    BY <1>5, SegmentAssumption
  <2>2. (n - 1) * (Segment + 1) \in Int
    BY <1>5, SegmentAssumption
  <2>3. QED
    BY <1>7, <1>10, <2>1, <2>2, SegmentAssumption
<1>12. /\ (Len(frames') - 1) * (Segment + 1) + Cardinality(Top'.gray)
            <= Cardinality(marked')
  <2>1. Top'.gray = {}
    BY <1>3, <1>6
  <2>2. Cardinality(Top'.gray) = 0
    BY <1>7, <2>1
  <2>3. (n + 1 - 1) * (Segment + 1) \in Int
    BY <1>5, SegmentAssumption
  <2>4. Cardinality(marked') \in Int /\ Len(frames') - 1 = n + 1 - 1
    BY <1>5, <1>6, <1>7
  <2>5. QED
    BY <1>11, <2>2, <2>3, <2>4
<1>13. QED
  BY <1>9, <1>12 DEF StackInv

LEMMA UnwindStackInv ==
  ASSUME IInv, StackInv, Unwind
  PROVE  StackInv'
<1> DEFINE n == Len(frames)
<1>1. /\ pc = "mark" /\ frames \in Seq(Frame) /\ n > 1 /\ n \in Nat
      /\ marked \subseteq Obj /\ marked' = marked /\ Top.gray = {}
      /\ frames' = SubSeq(frames, 1, n - 1)
  BY DEF IInv, TypeOK, Unwind
<1>2. /\ Len(frames') = n - 1
      /\ \A i \in 1 .. n - 1 : frames'[i] = frames[i]
      /\ frames' \in Seq(Frame)
  BY <1>1, SubSeqProperties
<1>3. /\ DOMAIN frames' = 1 .. n - 1 /\ DOMAIN frames = 1 .. n
      /\ Top' = frames[n - 1] /\ n - 1 \in DOMAIN frames
  BY <1>1, <1>2 DEF Top
<1>4. /\ \A i \in DOMAIN frames : Cardinality(frames[i].gray) <= Segment
      /\ (n - 1) * (Segment + 1) + Cardinality(Top.gray)
            <= Cardinality(marked)
  BY <1>1 DEF StackInv
<1>5. Cardinality({}) = 0 /\ Cardinality(marked) \in Nat
  BY <1>1, ObjCardinality, FS_EmptySet
<1>6. /\ Cardinality(Top'.gray) \in Nat
      /\ Cardinality(Top'.gray) <= Segment
  <2>1. frames[n - 1] \in Frame
    BY <1>1, <1>3
  <2>2. QED
    BY <1>3, <1>4, <2>1, ObjCardinality DEF Frame
<1>7. (n - 1) * (Segment + 1) <= Cardinality(marked)
  <2>1. (n - 1) * (Segment + 1) \in Int
    BY <1>1, SegmentAssumption
  <2>2. QED
    BY <1>1, <1>4, <1>5, <2>1
<1>8. (n - 1 - 1) * (Segment + 1) + Cardinality(Top'.gray) <= Cardinality(marked)
  <2>1. (n - 1 - 1) * (Segment + 1) = (n - 1) * (Segment + 1) - Segment - 1
    BY <1>1, SegmentAssumption
  <2>2. (n - 1) * (Segment + 1) \in Int
    BY <1>1, SegmentAssumption
  <2> HIDE DEF n
  <2>3. QED
    BY <1>5, <1>6, <1>7, <2>1, <2>2, SegmentAssumption
<1>9. \A i \in DOMAIN frames' : Cardinality(frames'[i].gray) <= Segment
  BY <1>1, <1>2, <1>3, <1>4
<1>10. QED
  BY <1>1, <1>2, <1>8, <1>9 DEF StackInv

\* scanWithNewStack never recurses deeper than one activation for each full
\* segment and the object that overflowed it.
THEOREM StackBoundHolds == Spec => []StackBound
<1>1. Init => StackInv
  BY DEF Init, StackInv
<1>2. IInv /\ StackInv /\ [Next]_vars => StackInv'
  <2>1. SUFFICES ASSUME IInv, StackInv, [Next]_vars PROVE StackInv'
    OBVIOUS
  <2> USE <2>1
  <2>2. ASSUME NEW o \in Obj, MarkAgain(o) \/ MarkPush(o) \/ ScanPop(o)
        PROVE  StackInv'
    BY <2>2, MarkStackInv
  <2>3. ASSUME NEW o \in Obj, MarkNewStack(o) PROVE StackInv'
    BY <2>3, NewStackInv
  <2>4. ASSUME NEW o \in Obj, SweepAlive(o) \/ SweepDead(o) \/ Release(o)
        PROVE  StackInv'
    BY <2>4 DEF SweepAlive, SweepDead, Release, StackInv
  <2>5. CASE Mutator
    BY <2>5 DEF Mutator, Mutate, New, Root, Unroot, Link, Unlink, StackInv
  <2>6. CASE BeginCollect
    BY <2>6, BeginStackInv
  <2>7. CASE Unwind
    BY <2>7, UnwindStackInv
  <2>8. CASE BeginSweep \/ EndCollect
    BY <2>8 DEF BeginSweep, EndCollect, StackInv
  <2>9. CASE UNCHANGED vars
    BY <2>9 DEF vars, StackInv, Top
  <2>10. QED
    BY <2>2, <2>3, <2>4, <2>5, <2>6, <2>7, <2>8, <2>9 DEF Next, Collecting
<1>3. IInv /\ StackInv => StackBound
  <2>1. SUFFICES ASSUME IInv, StackInv, pc = "mark"
                 PROVE  (Len(frames) - 1) * (Segment + 1) <= Cardinality(marked)
    BY DEF StackBound
  <2>2. /\ frames \in Seq(Frame) /\ frames # <<>>
        /\ (Len(frames) - 1) * (Segment + 1) + Cardinality(Top.gray)
              <= Cardinality(marked)
    BY <2>1 DEF IInv, TypeOK, MarkInv, StackInv
  <2>3. Top.gray \in SUBSET Obj /\ marked \in SUBSET Obj
    <3>1. Top \in Frame
      BY <2>2 DEF Top
    <3>2. QED
      BY <2>1, <3>1 DEF Frame, IInv, TypeOK
  <2>4. Cardinality(Top.gray) \in Nat /\ Cardinality(marked) \in Nat
    BY <2>3, ObjCardinality
  <2>5. (Len(frames) - 1) * (Segment + 1) \in Int
    BY <2>2, SegmentAssumption
  <2>6. QED
    BY <2>2, <2>4, <2>5
<1>4. QED
  BY <1>1, <1>2, <1>3, Inductive, PTL DEF Spec
================================================================================
