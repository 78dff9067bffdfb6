------------------------------ MODULE MCSched ------------------------------
(* Instances of Sched for TLC.                                              *)
EXTENDS Sched_proofs, TLC

(* The threads other than the idle one are interchangeable when all of them *)
(* may cancel or none may.                                                  *)
Symmetry == Permutations(Thread \ {First})
=============================================================================
