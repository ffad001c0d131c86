----------------------------- MODULE KernelHeap -----------------------------
(***************************************************************************)
(* The kernel of module Kernel with its memory taken from the block        *)
(* allocator of module Allocator, instead of from pools that never run     *)
(* dry.  Every kernel object is a run of heap blocks: the thread records   *)
(* and their stacks, the semaphores and the sleeping-thread records, next  *)
(* to the runs main() allocates at boot.  The allocator's operators are    *)
(* used through a named instance, so that its index is this module's       *)
(* variable heap.                                                          *)
(*                                                                         *)
(* Two user-side steps appear that Kernel does not have.  The thread_create *)
(* wrapper of syscall_c.c first traps with SYSCALL_MEM_ALLOC for the new   *)
(* stack and only then with SYSCALL_THREAD_CREATE, so other threads and    *)
(* the timer can run between the two; and user code may call mem_alloc     *)
(* itself.  mem_free (ecall 0x2) has no case in irq_handler and does       *)
(* nothing, so user code can never give a block back.                      *)
(*                                                                         *)
(* The identities of Kernel (UserThreads, Semaphores, SleepRecords) stay   *)
(* as names; base maps each live one to the first block of its run.  They  *)
(* are a model bound: a step that would need one more identity than the    *)
(* configuration has is not taken.                                         *)
(***************************************************************************)
EXTENDS Kernel

CONSTANTS
    HeapBlocks,     \* n_mem_blocks
    IndexBlocks,    \* mem_index_len_in_blocks
    BufBlocks,      \* console_buffer_size_in_blocks
    ThreadBlocks,   \* thread_size_in_blocks: struct __thread_t
    SchedBlocks,    \* scheduler_size_in_blocks
    StackBlocks,    \* stack_size_in_blocks, and mem_alloc(DEFAULT_STACK_SIZE)
    SemBlocks,      \* semaphore_size_in_blocks
    RecBlocks,      \* sleeping_thread_size_in_blocks
    UserSizes,      \* block counts user code passes to mem_alloc
    MaxHeld,        \* model bound: runs user code gets from mem_alloc
    PastWord        \* the word just past mem_index (see Allocator)

VARIABLES
    heap,       \* mem_index
    base,       \* object -> first block of its run, or NoBlock
    stack,      \* user thread -> first block of its stack (thread->bp)
    pend,       \* user thread -> the stack its thread_create wrapper holds
    held,       \* runs user code got from mem_alloc: <<first block, length>>
    lost        \* stacks a failed thread_create left allocated

hvars == <<heap, base, stack, pend, held, lost>>
allvars == <<vars, hvars>>

NoBlock == -1
SEM_CREATE_NO_MEMORY == -1
THREAD_CREATE_NO_MEMORY == -1
Objects == Threads \cup Semaphores \cup SleepRecords

A == INSTANCE Allocator WITH N <- HeapBlocks, IndexLen <- IndexBlocks,
        Sizes <- UserSizes, PastIndex <- {PastWord}, FreeAnyBlock <- FALSE,
        idx <- heap, handed <- {},
        ret <- [kind |-> IF halt \in {"run", "stop"} THEN "code" ELSE "panic", at |-> 0]

Size(o) == CASE o \in Threads -> ThreadBlocks
             [] o \in Semaphores -> SemBlocks
             [] o \in SleepRecords -> RecBlocks

(* The kernel state record of Kernel extended with the heap's fields: the  *)
(* operators of Kernel only EXCEPT the fields they know.                   *)
HSt == [links |-> links, sched |-> sched, thr |-> thr, sem |-> sem, rec |-> rec,
        halt |-> halt, heap |-> heap, base |-> base, stack |-> stack,
        pend |-> pend, held |-> held, lost |-> lost]

HSet(S) ==
    /\ Set(S)
    /\ heap' = S.heap /\ base' = S.base /\ stack' = S.stack
    /\ pend' = S.pend /\ held' = S.held /\ lost' = S.lost

(* __mem_alloc(n) on the state's index: [idx |-> ..., ret |-> ...]. *)
Alloc(S, n) == A!MemAlloc(S.heap, n, PastWord)
IsPtr(a) == a.ret.kind = "ptr"

(* __mem_free of the run at p by a kernel caller, which panics on any     *)
(* nonzero result ("memory corruption"); a pointer outside the heap, such  *)
(* as kernel_main's bp of 0, returns FREE_OUT_OF_HEAP.                     *)
FreeRun(S, p) ==
    LET f == A!MemFree(S.heap, p, PastWord)
    IN  IF S.halt # "run" THEN S
        ELSE IF p \notin A!Blocks THEN Panic(S)
        ELSE IF f.ret = A!Code(0) THEN [S EXCEPT !.heap = f.idx]
        ELSE Panic([S EXCEPT !.heap = f.idx])

RECURSIVE FreeRuns(_, _)
FreeRuns(S, rs) ==
    IF rs = {} THEN S
    ELSE LET r == CHOOSE x \in rs : TRUE
         IN  FreeRuns([FreeRun(S, S.base[r]) EXCEPT !.base[r] = NoBlock], rs \ {r})

(* The sleeping-thread records a kernel step S -> S1 created or released.  *)
(* __scheduler_timeout allocates its record before its first store, and a  *)
(* NULL faults on that store (IRQ_ILLEGAL_WRITE, a panic).  The tick and   *)
(* __scheduler_remove_timeout free the records they unlink; with no        *)
(* allocation in the same trap, the index those frees leave does not       *)
(* depend on their order, which is ring order in the code.                 *)
RecordHeap(S, S1) ==
    LET born == {r \in SleepRecords : ~S.rec[r].used /\ S1.rec[r].used}
        dead == {r \in SleepRecords : S.rec[r].used /\ ~S1.rec[r].used}
        a == Alloc(S, RecBlocks)
    IN  IF born # {}
        THEN IF IsPtr(a)
             THEN [S1 EXCEPT !.heap = a.idx, !.base[CHOOSE r \in born : TRUE] = a.ret.at]
             ELSE Panic(S)
        ELSE IF S1.halt # "run" THEN S1
        ELSE FreeRuns(S1, dead)
-----------------------------------------------------------------------------
(* main(): __mem_init, __console_init's two buffers, kernel_main's record, *)
(* __scheduler_init's scheduler, the system stack, userMain's stack, and   *)
(* __thread_create's record for userMain, allocated in this order.         *)
BootSizes == <<BufBlocks, BufBlocks, ThreadBlocks, SchedBlocks,
               StackBlocks, StackBlocks, ThreadBlocks>>

RECURSIVE BootAllocs(_, _)
BootAllocs(I, sz) ==
    IF sz = <<>> THEN [idx |-> I, at |-> <<>>]
    ELSE LET a == A!MemAlloc(I, Head(sz), PastWord)
             rest == BootAllocs(a.idx, Tail(sz))
         IN  [idx |-> rest.idx, at |-> <<a.ret>> \o rest.at]

Boot == BootAllocs(A!MemInit, BootSizes)

(* main() panics if any of these is NULL; the configurations are sized so *)
(* that the kernel boots.                                                  *)
ASSUME \A k \in 1..Len(BootSizes) : Boot.at[k].kind = "ptr"

(* The runs the kernel allocates at boot and never frees. *)
KernelRuns == {<<Boot.at[k].at, BootSizes[k]>> : k \in {1, 2, 4, 5}}

HInit ==
    /\ Init
    /\ heap = Boot.idx
    /\ base = [o \in Objects |-> CASE o = KernelMain -> Boot.at[3].at
                                   [] o = UserMain -> Boot.at[7].at
                                   [] OTHER -> NoBlock]
    /\ stack = [t \in Threads |-> IF t = UserMain THEN Boot.at[6].at ELSE NoBlock]
    /\ pend = [t \in UserThreads |-> NoBlock]
    /\ held = {}
    /\ lost = {}
-----------------------------------------------------------------------------
(* A user trap of a thread that is not between the two traps of its       *)
(* thread_create wrapper: that thread's next trap is SYSCALL_THREAD_CREATE. *)
HUserTrap == UserTrap /\ pend[Current] = NoBlock

HIrqTimer == Running /\ HSet(RecordHeap(HSt, TimerTrap(HSt)))
HKernelDispatch == KernelDispatch /\ UNCHANGED hvars
HKernelStop == KernelStop /\ UNCHANGED hvars
HThreadDispatch == HUserTrap /\ SysThreadDispatch /\ UNCHANGED hvars
HSemWait == HUserTrap /\ SysSemWait /\ UNCHANGED hvars

(* SYSCALL_MEM_ALLOC from user code: the run is the caller's for good,    *)
(* since mem_free reaches no handler.  A NULL result changes nothing.      *)
HMemAlloc ==
    /\ HUserTrap /\ Cardinality(held) < MaxHeld
    /\ \E n \in UserSizes :
        LET a == Alloc(HSt, n)
        IN  /\ n > 0 /\ IsPtr(a)
            /\ heap' = a.idx /\ held' = held \cup {<<a.ret.at, n>>}
            /\ UNCHANGED <<vars, base, stack, pend, lost>>

(* thread_create, first trap: mem_alloc(DEFAULT_STACK_SIZE).  On NULL the *)
(* wrapper returns THREAD_CREATE_NO_MEMORY to its caller and nothing      *)
(* changes.  Model bound: a thread identity is free for every stack held. *)
WrapperStackAlloc ==
    /\ HUserTrap
    /\ Cardinality({t \in UserThreads : ~thr[t].live})
         > Cardinality({t \in UserThreads : pend[t] # NoBlock})
    /\ LET a == Alloc(HSt, StackBlocks)
       IN  /\ IsPtr(a)
           /\ heap' = a.idx /\ pend' = [pend EXCEPT ![Current] = a.ret.at]
           /\ UNCHANGED <<vars, base, stack, held, lost>>

(* thread_create, second trap: SYSCALL_THREAD_CREATE with that stack.     *)
(* __thread_create allocates the record; on NULL a0 is                     *)
(* THREAD_CREATE_NO_MEMORY, and the wrapper's mem_free of the stack is an  *)
(* ecall no case handles, so the stack stays allocated.                    *)
HThreadCreate ==
    /\ UserTrap /\ pend[Current] # NoBlock
    /\ LET c == Current
           a == Alloc(HSt, ThreadBlocks)
           S0 == [HSt EXCEPT !.pend[c] = NoBlock]
       IN  IF ~IsPtr(a)
           THEN HSet([S0 EXCEPT !.thr[c].a0 = THREAD_CREATE_NO_MEMORY,
                                !.lost = @ \cup {pend[c]}])
           ELSE \E t \in UserThreads :
                /\ ~thr[t].live
                /\ HSet([ThreadCreate([S0 EXCEPT !.heap = a.idx, !.base[t] = a.ret.at,
                                                 !.stack[t] = pend[c]], t)
                         EXCEPT !.thr[c].a0 = 0])

(* Mutation: __thread_delete that frees the record but not the stack. *)
ThreadDeleteKeepStack(S, t) ==
    [FreeRun(S, S.base[t]) EXCEPT !.base[t] = NoBlock, !.stack[t] = NoBlock]

(* __thread_delete: the stack at bp, then the record. *)
ThreadDelete(S, t) ==
    [FreeRun(FreeRun(S, S.stack[t]), S.base[t]) EXCEPT !.base[t] = NoBlock,
                                                       !.stack[t] = NoBlock]

(* Mutation: the thread deleted is the one __scheduler_current returns   *)
(* after the yield, not the one saved before it.                           *)
HeapThreadExitAfterYield(S) == ThreadDelete(ThreadExit(S), ThreadExit(S).sched.current)

(* __thread_exit: uncount, yield to the next thread, delete the old one. *)
HeapThreadExit(S) == ThreadDelete(ThreadExit(S), S.sched.current)

HThreadExit == HUserTrap /\ HSet(HeapThreadExit(HSt))

HTimeSleep ==
    /\ HUserTrap /\ FreeRecs(HSt) # {}
    /\ \E time \in SleepTimes \ {0} : HSet(RecordHeap(HSt, TimeSleep(HSt, time)))

(* SYSCALL_SEM_OPEN: __sem_open allocates the semaphore; a0 is its result. *)
HSemOpen ==
    /\ HUserTrap
    /\ \E v \in SemInits :
        LET c == Current
            a == Alloc(HSt, SemBlocks)
        IN  IF ~IsPtr(a) THEN HSet([HSt EXCEPT !.thr[c].a0 = SEM_CREATE_NO_MEMORY])
            ELSE \E s \in Semaphores :
                 /\ ~sem[s].open
                 /\ HSet([SemOpen([HSt EXCEPT !.heap = a.idx, !.base[s] = a.ret.at], s, v)
                          EXCEPT !.thr[c].a0 = 0])

(* __sem_close: wake the waiters, then free the semaphore. *)
SemCloseFree(S, s) == [FreeRun(SemClose(S, s), S.base[s]) EXCEPT !.base[s] = NoBlock]

HSemClose == HUserTrap /\ \E s \in Semaphores : sem[s].open /\ HSet(SemCloseFree(HSt, s))

HSemSignal ==
    /\ HUserTrap
    /\ \E s \in Semaphores :
        sem[s].open /\ sem[s].val < MaxSemValue /\ HSet(RecordHeap(HSt, SemSignal(HSt, s)))

HSemTimedWait ==
    /\ HUserTrap /\ FreeRecs(HSt) # {}
    /\ \E s \in Semaphores, time \in TimedWaitTimes :
        sem[s].open /\ HSet(RecordHeap(HSt, SemTimedWait(HSt, s, time)))

HNext ==
    \/ HIrqTimer \/ HKernelDispatch \/ HKernelStop
    \/ HMemAlloc \/ WrapperStackAlloc \/ HThreadCreate \/ HThreadExit \/ HThreadDispatch
    \/ HTimeSleep \/ HSemOpen \/ HSemClose \/ HSemWait \/ HSemSignal \/ HSemTimedWait

HSpec == HInit /\ [][HNext]_allvars
-----------------------------------------------------------------------------
(***************************************************************************)
(* Properties                                                              *)
(***************************************************************************)

LiveObjects == {t \in Threads : thr[t].live} \cup {s \in Semaphores : sem[s].open} \cup UsedRecs

(* Every run something in the system holds: <<holder, first block, length>>. *)
Claims ==
    {<<o, base[o], Size(o)>> : o \in LiveObjects}
    \cup {<<<<"stack", t>>, stack[t], StackBlocks>> : t \in {u \in UserThreads : thr[u].live}}
    \cup {<<<<"pend", t>>, pend[t], StackBlocks>> : t \in {u \in UserThreads : pend[u] # NoBlock}}
    \cup {<<<<"held", r>>, r[1], r[2]>> : r \in held}
    \cup {<<<<"lost", p>>, p, StackBlocks>> : p \in lost}
    \cup {<<<<"kernel", r>>, r[1], r[2]>> : r \in KernelRuns}

(* Every object the kernel uses (the records of live threads and their    *)
(* stacks, open semaphores, queued sleeping-thread records), every stack  *)
(* a thread_create wrapper holds and every run user code got is an        *)
(* allocated run of the index of its own size, and no two share a block:  *)
(* thread exit, sem_close and the tick never free a run something still   *)
(* uses, across any interleaving of traps.                                 *)
ObjectsBacked ==
    Running =>
    /\ \A c \in Claims : <<c[2], c[3]>> \in A!AllocatedRuns
    /\ \A c, d \in Claims : c # d => c[2] # d[2]

(* Nothing leaks but what the code is known to leak: every allocated run  *)
(* other than the index is claimed, so __thread_delete frees both the      *)
(* stack and the record, sem_close frees the semaphore, and every record   *)
(* the tick or a cancelled timeout unlinks is freed.                       *)
HeapAccounted ==
    Running =>
    A!AllocatedRuns \subseteq {<<c[2], c[3]>> : c \in Claims} \cup {<<0, IndexBlocks>>}
====
