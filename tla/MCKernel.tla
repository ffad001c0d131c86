------------------------------ MODULE MCKernel ------------------------------
(* Model-checking instance of Kernel: thread, semaphore and record pools   *)
(* are model values given in the .cfg files.                               *)
EXTENDS Kernel, TLC

CONSTANTS u1, u2, u3, s1, s2

(* User threads other than userMain, and semaphores, are interchangeable:  *)
(* the kernel picks them only through \E.  Sleeping-thread records are     *)
(* not: __scheduler_timeout takes the one CHOOSE names.                    *)
Symmetry == Permutations(UserThreads \ {UserMain}) \cup Permutations(Semaphores)
=============================================================================
