---------------------------- MODULE MCKernelHeap ----------------------------
(* Model-checking instance of KernelHeap; constants are given in the .cfg  *)
(* files.                                                                  *)
EXTENDS KernelHeap, TLC

CONSTANTS u1, u2, s1

(* User threads other than userMain are interchangeable, as in MCKernel.   *)
Symmetry == Permutations(UserThreads \ {UserMain})
=============================================================================
