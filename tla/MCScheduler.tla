------------------------------ MODULE MCScheduler ------------------------------
(* The slots are interchangeable: nothing in the safety properties tells   *)
(* one from another.                                                       *)
EXTENDS Scheduler, TLC

SlotSymmetry == Permutations(Slots)
================================================================================
