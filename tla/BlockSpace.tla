----------------------------- MODULE BlockSpace -----------------------------
(***************************************************************************)
(* What the block allocator promises (spec section 4.1), with no index:    *)
(* the heap is N blocks; an allocation is a run <<start, length>> of them; *)
(* alloc(n) takes the lowest-addressed n free consecutive blocks           *)
(* (first fit) or returns null when there are none; free(p) releases the   *)
(* allocation starting at p and refuses any other block with an error.     *)
(* The first IndexLen blocks hold the allocator's own index, the first     *)
(* allocation.  handed is what the callers hold: the starts returned to    *)
(* them and not yet freed.                                                 *)
(***************************************************************************)
EXTENDS Integers, FiniteSets

CONSTANTS
    N,              \* blocks in the heap
    IndexLen,       \* blocks the index occupies
    Sizes,          \* block counts callers request
    FreeAnyBlock    \* TRUE: callers may pass free() any block, not only their own

VARIABLES allocs, ret, handed

avars == <<allocs, ret, handed>>

Blocks == 0..N-1
Ptr(i) == [kind |-> "ptr", at |-> i]
NullRet == [kind |-> "null", at |-> 0]
Code(c) == [kind |-> "code", at |-> c]

Used(A) == UNION {a[1]..a[1] + a[2] - 1 : a \in A}
Fits(U, s, n) == s + n <= N /\ (s..s + n - 1) \cap U = {}

AInit ==
    /\ allocs = {<<0, IndexLen>>}
    /\ ret = Code(0)
    /\ handed = {}

(* alloc(n), n >= 1: first fit.  A request for no blocks allocates nothing *)
(* whatever it returns.                                                    *)
AAlloc(n) ==
    IF n = 0 THEN /\ ret' \in {NullRet} \cup {Ptr(i) : i \in Blocks}
                  /\ UNCHANGED <<allocs, handed>>
    ELSE LET U == Used(allocs)
             fits == {s \in Blocks : Fits(U, s, n)}
         IN  IF fits # {}
             THEN LET s == CHOOSE x \in fits : \A y \in fits : x <= y
                  IN  /\ allocs' = allocs \cup {<<s, n>>}
                      /\ ret' = Ptr(s)
                      /\ handed' = handed \cup {s}
             ELSE /\ ret' = NullRet
                  /\ UNCHANGED <<allocs, handed>>

(* free(p): success exactly for the start of an allocation. *)
AFree(p) ==
    LET A == allocs IN
    IF \E a \in A : a[1] = p
    THEN /\ allocs' = {a \in A : a[1] # p}
         /\ ret' = Code(0)
         /\ handed' = handed \ {p}
    ELSE /\ ret' \in {Code(c) : c \in {-3, -4}}
         /\ UNCHANGED <<allocs, handed>>

FreeTargets == IF FreeAnyBlock THEN Blocks \ {0} ELSE handed

ANext ==
    \/ \E n \in Sizes : AAlloc(n)
    \/ \E p \in FreeTargets : AFree(p)

ASpec == AInit /\ [][ANext]_avars
=============================================================================
