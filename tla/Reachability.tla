----------------------------- MODULE Reachability -----------------------------
(***************************************************************************)
(* The references of the object graph.  `refs' maps an object to the set   *)
(* of objects its scan routine passes to tazE_markObj; what the collector  *)
(* must keep is the least set that holds the roots and is closed under     *)
(* `refs'.  It is written as an intersection, not as a recursion, so that  *)
(* the proofs can reason about it.                                         *)
(***************************************************************************)

\* Every object that an object of S refers to is in S.
Closed(S, refs) == \A o \in S : refs[o] \subseteq S

\* The objects of Obj that can be reached from `roots'.
Reach(Obj, roots, refs) ==
  {o \in Obj : \A S \in SUBSET Obj :
                  roots \subseteq S /\ Closed(S, refs) => o \in S}
================================================================================
