----------------------------- MODULE MCConsole -----------------------------
(* Model values for the console composed with the kernel. *)
EXTENDS Console, TLC

CONSTANTS u1, u2, u3, s1, s2, c1, c2
=============================================================================
