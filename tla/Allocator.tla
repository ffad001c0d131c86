----------------------------- MODULE Allocator ------------------------------
(***************************************************************************)
(* The block allocator of src/src/mem.c: mem_index holds one i32 per heap  *)
(* block; a run of L blocks carries L (allocated) or -L (free) in its      *)
(* first and last entry.  idx is that array, blocks numbered 0..N-1; a     *)
(* pointer is the number of the block it points at (HEAP_START_ADDR +      *)
(* i * MEM_BLOCK_SIZE).  Each action is one call, __mem_alloc or           *)
(* __mem_free, run to its return: both are called from trap handlers with  *)
(* interrupts off.                                                         *)
(*                                                                         *)
(* __mem_alloc can read mem_index[N], the word just past the index: which  *)
(* word that is depends on HEAP_END_ADDR and MEM_BLOCK_SIZE (lib/hw.h,     *)
(* not part of the sources): padding __mem_init never writes, or the first *)
(* word of the first allocated block.  Its value is any of PastIndex.      *)
(* A store outside 0..N-1 writes memory the allocator does not own; the    *)
(* result "wild" ends the model there, as "panic" does for __panic.        *)
(***************************************************************************)
EXTENDS Integers, Sequences, FiniteSets

CONSTANTS
    N,              \* n_mem_blocks
    IndexLen,       \* mem_index_len_in_blocks
    Sizes,          \* nblocks callers pass to __mem_alloc
    PastIndex,      \* the values mem_index[N] may hold
    FreeAnyBlock    \* TRUE: callers may pass __mem_free any block

ASSUME /\ 1 <= IndexLen /\ IndexLen < N
       /\ Sizes \subseteq Nat /\ PastIndex \subseteq Int

VARIABLES
    idx,        \* mem_index[0..N-1]
    ret,        \* what the last call returned, or how the machine stopped
    handed      \* the pointers callers hold: returned by alloc, not yet freed

vars == <<idx, ret, handed>>

Blocks == 0..N-1
Ptr(i) == [kind |-> "ptr", at |-> i]
NullRet == [kind |-> "null", at |-> 0]
Code(c) == [kind |-> "code", at |-> c]
Stop(k) == [kind |-> k, at |-> 0]

FREE_NOT_ALLOCED == -3
FREE_NOT_START_OF_ALLOC == -4

(* A read of mem_index[i]; past the end it is the word j found there. *)
Get(I, i, j) == IF i \in Blocks THEN I[i] ELSE j

(* The stores of one branch, in order, as <<entry, value>> pairs; any    *)
(* entry outside the index makes the call "wild".                          *)
Stores(I, w) ==
    [i \in Blocks |-> LET ks == {k \in 1..Len(w) : w[k][1] = i}
                      IN  IF ks = {} THEN I[i]
                          ELSE w[CHOOSE k \in ks : \A m \in ks : m <= k][2]]
InIndex(w) == \A k \in 1..Len(w) : w[k][1] \in Blocks
Apply(I, w, r) == IF InIndex(w) THEN [idx |-> Stores(I, w), ret |-> r]
                  ELSE [idx |-> I, ret |-> Stop("wild")]

(* __mem_init: the index as its own allocated run, the rest one free run. *)
MemInit ==
    Stores([i \in Blocks |-> 0],
           <<<<0, IndexLen>>, <<IndexLen - 1, IndexLen>>,
             <<IndexLen, -(N - IndexLen)>>, <<N - 1, -(N - IndexLen)>>>>)

Init ==
    /\ idx = MemInit
    /\ ret = Code(0)
    /\ handed = {}

(* Mutation: the split returns the address the pass started at, not the  *)
(* free run it took the blocks from.                                       *)
RECURSIVE AllocLoopStartPtr(_, _, _, _, _)
AllocLoopStartPtr(I, i, n, j, fuel) ==
    LET i1 == IF Get(I, i, j) > 0 THEN i + Get(I, i, j) ELSE i
        f  == -Get(I, i1, j)
        i2 == IF f > 0 THEN i1 + f ELSE i1
    IN  IF i >= N \/ fuel = 0 THEN [idx |-> I, ret |-> NullRet]
        ELSE IF f > n
        THEN Apply(I, <<<<i1 + f - 1, -(f - n)>>, <<i1 + n, -(f - n)>>,
                        <<i1 + n - 1, n>>, <<i1, n>>>>, Ptr(i))
        ELSE IF f > 0 /\ f = n
        THEN Apply(I, <<<<i1, n>>, <<i1 + n - 1, n>>>>, Ptr(i1))
        ELSE IF Get(I, i2, j) = 0 THEN [idx |-> I, ret |-> Stop("panic")]
        ELSE AllocLoopStartPtr(I, i2, n, j, fuel - 1)

(* One pass of the while loop of __mem_alloc at i, with nblocks = n and   *)
(* the word past the index j: skip an allocated run, then take, split or  *)
(* skip a free run; a zero entry is index corruption.                     *)
RECURSIVE AllocLoop(_, _, _, _, _)
AllocLoop(I, i, n, j, fuel) ==
    LET i1 == IF Get(I, i, j) > 0 THEN i + Get(I, i, j) ELSE i
        f  == -Get(I, i1, j)
        i2 == IF f > 0 THEN i1 + f ELSE i1
    IN  IF i >= N \/ fuel = 0 THEN [idx |-> I, ret |-> NullRet]
        ELSE IF f > n
        THEN Apply(I, <<<<i1 + f - 1, -(f - n)>>, <<i1 + n, -(f - n)>>,
                        <<i1 + n - 1, n>>, <<i1, n>>>>, Ptr(i1))
        ELSE IF f > 0 /\ f = n
        THEN Apply(I, <<<<i1, n>>, <<i1 + n - 1, n>>>>, Ptr(i1))
        ELSE IF Get(I, i2, j) = 0 THEN [idx |-> I, ret |-> Stop("panic")]
        ELSE AllocLoop(I, i2, n, j, fuel - 1)

MemAlloc(I, n, j) == AllocLoop(I, 0, n, j, N + 1)

(* Mutation: merging with the run before leaves that run's end tag.    *)
MemFreeKeepTag(I, p, j) ==
    LET size == I[p]
        prevFree == p > 0 /\ I[p - 1] < 0
        nextFree == p + size < N /\ Get(I, p + size, j) < 0
        pj == p + I[p - 1]
        js == size - I[p - 1]
        wPrev == <<<<p, 0>>, <<pj, -js>>, <<pj + js - 1, -js>>>>
        e == IF prevFree THEN pj ELSE p
        sz == IF prevFree THEN js ELSE size
        I1 == IF prevFree THEN Stores(I, wPrev) ELSE I
        jn == sz - Get(I1, e + sz, j)
        wNext == <<<<e + sz - 1, 0>>, <<e + sz, 0>>, <<e, -jn>>, <<e + jn - 1, -jn>>>>
    IN  IF I[p] <= 0 THEN [idx |-> I, ret |-> Code(FREE_NOT_ALLOCED)]
        ELSE IF I[p] # Get(I, p + I[p] - 1, j) THEN [idx |-> I, ret |-> Code(FREE_NOT_START_OF_ALLOC)]
        ELSE IF ~prevFree /\ ~nextFree THEN Apply(I, <<<<p, -size>>, <<p + size - 1, -size>>>>, Code(0))
        ELSE IF nextFree THEN Apply(I1, wNext, Code(0))
        ELSE [idx |-> I1, ret |-> Code(0)]

(* __mem_free of block p (the range and alignment checks are passed by    *)
(* every block): the run-start check, then coalescing with a free run     *)
(* before and one after.                                                  *)
MemFree(I, p, j) ==
    LET size == I[p]
        prevFree == p > 0 /\ I[p - 1] < 0
        nextFree == p + size < N /\ Get(I, p + size, j) < 0
        pj == p + I[p - 1]
        js == size - I[p - 1]
        wPrev == <<<<p, 0>>, <<p - 1, 0>>, <<pj, -js>>, <<pj + js - 1, -js>>>>
        e == IF prevFree THEN pj ELSE p
        sz == IF prevFree THEN js ELSE size
        I1 == IF prevFree THEN Stores(I, wPrev) ELSE I
        jn == sz - Get(I1, e + sz, j)
        wNext == <<<<e + sz - 1, 0>>, <<e + sz, 0>>, <<e, -jn>>, <<e + jn - 1, -jn>>>>
        wOwn == <<<<p, -size>>, <<p + size - 1, -size>>>>
    IN  IF I[p] <= 0 THEN [idx |-> I, ret |-> Code(FREE_NOT_ALLOCED)]
        ELSE IF I[p] # Get(I, p + I[p] - 1, j) THEN [idx |-> I, ret |-> Code(FREE_NOT_START_OF_ALLOC)]
        ELSE IF ~prevFree /\ ~nextFree THEN Apply(I, wOwn, Code(0))
        ELSE IF prevFree /\ ~InIndex(wPrev) THEN [idx |-> I, ret |-> Stop("wild")]
        ELSE IF nextFree THEN Apply(I1, wNext, Code(0))
        ELSE [idx |-> I1, ret |-> Code(0)]

Running == ret.kind \notin {"panic", "wild"}

(* SYSCALL_MEM_ALLOC and the kernel's own allocations: any request size. *)
Alloc ==
    /\ Running
    /\ \E n \in Sizes, j \in PastIndex :
        LET r == MemAlloc(idx, n, j)
        IN  /\ idx' = r.idx
            /\ ret' = r.ret
            /\ handed' = IF r.ret.kind = "ptr" /\ n > 0 THEN handed \cup {r.ret.at} ELSE handed

(* __mem_free from the kernel: of what it allocated, or of any block. *)
FreeTargets == IF FreeAnyBlock THEN Blocks \ {0} ELSE handed

Free ==
    /\ Running
    /\ \E p \in FreeTargets, j \in PastIndex :
        LET r == MemFree(idx, p, j)
        IN  /\ idx' = r.idx
            /\ ret' = r.ret
            /\ handed' = IF r.ret = Code(0) THEN handed \ {p} ELSE handed

Next == Alloc \/ Free

Spec == Init /\ [][Next]_vars
-----------------------------------------------------------------------------
(***************************************************************************)
(* Properties                                                              *)
(***************************************************************************)

TypeOK ==
    /\ idx \in [Blocks -> -N..N]
    /\ ret \in {Ptr(i) : i \in Blocks} \cup {NullRet, Stop("panic"), Stop("wild")}
                \cup {Code(c) : c \in {0, FREE_NOT_ALLOCED, FREE_NOT_START_OF_ALLOC}}
    /\ handed \subseteq Blocks

(* Reading the index as the sequence of runs from block 0: each run has    *)
(* equal tags at both ends and zeros inside, and the runs tile the heap.   *)
(* ok is FALSE when the index cannot be read so.                           *)
Abs(v) == IF v < 0 THEN -v ELSE v
RECURSIVE ParseRuns(_, _, _)
ParseRuns(I, i, fuel) ==
    IF i = N THEN [ok |-> TRUE, runs |-> {}]
    ELSE LET v == I[i]
             L == Abs(v)
             rest == ParseRuns(I, i + L, fuel - 1)
         IN  IF fuel = 0 \/ v = 0 \/ i + L > N \/ I[i + L - 1] # v
                \/ \E k \in i + 1..i + L - 2 : I[k] # 0
             THEN [ok |-> FALSE, runs |-> {}]
             ELSE [rest EXCEPT !.runs = @ \cup {<<i, v>>}]

Parsed == ParseRuns(idx, 0, N)

(* The boundary tags of mem_index describe a tiling of the heap by runs,   *)
(* and no free run is followed by another (spec sections 3 and 5:          *)
(* coalescing is total), after any sequence of __mem_alloc and __mem_free  *)
(* calls that returned.                                                    *)
IndexConsistent ==
    Running =>
    /\ Parsed.ok
    /\ \A r1, r2 \in Parsed.runs : (r1[2] < 0 /\ r2[1] = r1[1] - r1[2]) => r2[2] > 0

(* The allocator implements the abstract block space: the allocated runs   *)
(* the index describes are the abstract allocations (an unreadable index   *)
(* maps to a set no abstract step produces), and every call returns what   *)
(* first fit over those allocations returns.                               *)
AllocatedRuns ==
    IF Parsed.ok THEN {<<r[1], r[2]>> : r \in {x \in Parsed.runs : x[2] > 0}}
    ELSE {<<N, 0>>}

BS == INSTANCE BlockSpace WITH allocs <- AllocatedRuns

RefinesBlockSpace == BS!ASpec
=============================================================================
