------------------------------ MODULE MCProcs ------------------------------
(* Small instances of Procs for TLC.                                        *)
EXTENDS Procs, TLC

Symmetry == Permutations(Proc \ {Idle, InitProc, Pageoutd})
=============================================================================
