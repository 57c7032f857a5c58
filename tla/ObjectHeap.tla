------------------------------ MODULE ObjectHeap ------------------------------
(***************************************************************************)
(* What the collector of taz_engine.c promises to the code that runs on    *)
(* the engine: the running code commits objects, roots them (envState,     *)
(* apiState, fiber, a slot of a bucket) and writes references between      *)
(* them, and a collection, in one step, releases exactly the objects that  *)
(* cannot be reached any more.                                             *)
(***************************************************************************)
EXTENDS Reachability

CONSTANT Obj        \* the objects the allocator can hand out

VARIABLES
  objects,          \* the committed objects (EngineFull.objects)
  refs,             \* object -> the objects its scan routine marks
  roots             \* the objects the engine itself refers to

vars == <<objects, refs, roots>>

TypeOK ==
  /\ objects \subseteq Obj
  /\ refs \in [Obj -> SUBSET Obj]
  /\ roots \subseteq Obj

Init ==
  /\ objects = {}
  /\ refs = [o \in Obj |-> {}]
  /\ roots = {}

Reached == Reach(Obj, roots, refs)

\* The running code commits an object and puts it into a bucket.
New(o) ==
  /\ o \in Obj \ objects
  /\ objects' = objects \union {o}
  /\ refs' = [refs EXCEPT ![o] = {}]
  /\ roots' = roots \union {o}

\* The running code only has references it can reach.
Root(o) ==
  /\ o \in Reached
  /\ roots' = roots \union {o}
  /\ UNCHANGED <<objects, refs>>

Unroot(o) ==
  /\ roots' = roots \ {o}
  /\ UNCHANGED <<objects, refs>>

Link(o, p) ==
  /\ {o, p} \subseteq Reached
  /\ refs' = [refs EXCEPT ![o] = @ \union {p}]
  /\ UNCHANGED <<objects, roots>>

Unlink(o, p) ==
  /\ o \in Reached
  /\ refs' = [refs EXCEPT ![o] = @ \ {p}]
  /\ UNCHANGED <<objects, roots>>

Collect ==
  /\ objects' = Reached
  /\ UNCHANGED <<refs, roots>>

Next ==
  \/ \E o \in Obj : New(o) \/ Root(o) \/ Unroot(o)
  \/ \E o, p \in Obj : Link(o, p) \/ Unlink(o, p)
  \/ Collect

Spec == Init /\ [][Next]_vars
================================================================================
