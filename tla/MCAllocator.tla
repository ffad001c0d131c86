---------------------------- MODULE MCAllocator -----------------------------
(* Model-checking instance of Allocator; constants are given in the .cfg   *)
(* files.                                                                  *)
EXTENDS Allocator, TLC
=============================================================================
