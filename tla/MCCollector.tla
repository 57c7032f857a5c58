------------------------------ MODULE MCCollector ------------------------------
(***************************************************************************)
(* Three objects and segments of one entry: the smallest instance in which *)
(* an activation of scanWithNewStack is made from within another one.      *)
(* They are not symmetric here, because the run checks liveness as well.   *)
(***************************************************************************)
EXTENDS Collector

CONSTANTS o1, o2, o3

Objects == {o1, o2, o3}
================================================================================
