------------------------------- MODULE Kernel -------------------------------
(***************************************************************************)
(* The kernel's concurrency engine: the scheduler (src/src/scheduler.c),   *)
(* the semaphores (src/src/semaphore.c), the thread lifecycle              *)
(* (src/src/thread.c) and the trap handler that drives them               *)
(* (irq_handler in src/src/main.c).                                        *)
(*                                                                         *)
(* One step of this specification is one trap: a timer interrupt or one   *)
(* system call of the running thread.  The handler runs with interrupts    *)
(* off, so each trap is atomic; the interleaving is that of the traps of   *)
(* the threads the scheduler picks.  A helper below is one C function      *)
(* written as a function from the kernel state S (a record of all the      *)
(* variables) to the state it leaves, so that a handler is the composition *)
(* of the functions it calls, in the order it calls them.                  *)
(*                                                                         *)
(* Memory the handlers allocate comes from pools of records (threads,      *)
(* semaphores, sleeping-thread records); the block allocator itself is the *)
(* module Allocator.  Freeing a record does not clear it, as __mem_free    *)
(* does not: a stale pointer still reads the old fields.                   *)
(***************************************************************************)
EXTENDS Integers, Sequences, FiniteSets, IntrusiveList

Seqs == INSTANCE SequencesExt

CONSTANTS
    UserThreads,        \* thread records user threads can occupy
    UserMain,           \* the record of userMain, created by main()
    KernelMain,         \* the record of kernel_main, the idle thread
    Semaphores,         \* semaphore records
    SleepRecords,       \* struct __sleeping_thread_t records
    DEFAULT_TIME_SLICE, \* ticks of a time slice (lib/hw.h)
    SemInits,           \* initial values user code passes to sem_open
    SleepTimes,         \* times user code passes to time_sleep
    TimedWaitTimes,     \* timeouts user code passes to sem_timed_wait
    MaxSemValue,        \* model bound: no sem_signal takes val above it
    UnhandledCodes,     \* codes user code passes to ecall that have no case
    FaultCauses         \* scause values of the faults user code may raise

Threads == UserThreads \cup {KernelMain}
Nodes == Threads \cup SleepRecords

(* time_t is unsigned 64 bit.  Decrementing 0 gives 2^64-1, a number of   *)
(* ticks no run of the kernel lives to count down; TIME_WRAPPED stands for *)
(* it and for every value that far from zero.                              *)
TIME_WRAPPED == 1000
TSub(a, b) == IF a >= TIME_WRAPPED THEN TIME_WRAPPED ELSE a - b
TAdd(a, b) == IF a + b >= TIME_WRAPPED THEN TIME_WRAPPED ELSE a + b
TDec(a) == IF a = 0 THEN TIME_WRAPPED ELSE TSub(a, 1)

ASSUME
    /\ UserMain \in UserThreads
    /\ KernelMain \notin UserThreads
    /\ NULL \notin Nodes \cup Semaphores
    /\ DEFAULT_TIME_SLICE \in 1..TIME_WRAPPED - 1
    /\ SemInits \subseteq 0..MaxSemValue
    /\ SleepTimes \cup TimedWaitTimes \subseteq 0..TIME_WRAPPED - 1

(* Syscall numbers (main.c SYSCALL_CODE) and the results a blocked thread  *)
(* is resumed with (semaphore.c SEM_WAIT_ERRORS).  A blocked thread's     *)
(* saved a0 still holds the number it trapped with until a handler writes  *)
(* its result there.  USER_A0 is any a0 no property tells apart: user data   *)
(* saved at a preemption, the number of a call that returns nothing.       *)
SYSCALL_SEM_WAIT == 35          \* 0x23
SYSCALL_SEM_TIMED_WAIT == 37    \* 0x25
SYSCALL_MEM_FREE == 2           \* 0x2, called by mem_free
SYSCALL_SEM_TRYWAIT == 38       \* 0x26, called by sem_trywait
SEM_CLOSED_EXTERNALLY == -1
SEM_WAIT_TIMEOUT == -2
USER_A0 == 99
A0Values == {USER_A0, 0, SEM_CLOSED_EXTERNALLY, SEM_WAIT_TIMEOUT,
             SYSCALL_SEM_WAIT, SYSCALL_SEM_TIMED_WAIT} \cup UnhandledCodes

(* scause of the faults irq_handler turns into __panic (main.c 19-21). *)
IRQ_ILLEGAL_OP == 2
IRQ_ILLEGAL_READ == 5
IRQ_ILLEGAL_WRITE == 7

ASSUME
    /\ UnhandledCodes \subseteq {SYSCALL_MEM_FREE, SYSCALL_SEM_TRYWAIT}
    /\ FaultCauses \subseteq {IRQ_ILLEGAL_OP, IRQ_ILLEGAL_READ, IRQ_ILLEGAL_WRITE}

VARIABLES
    links,  \* the list_t node of every thread and sleeping-thread record
    sched,  \* struct __scheduler_t
    thr,    \* struct __thread_t: allocated?, time_left, a0 of its saved context
    sem,    \* struct __sem_t: allocated?, val, init, waiting_threads
    rec,    \* struct __sleeping_thread_t: allocated?, thread, semaphore, delta
    halt    \* "run", or how the machine stopped: __stop, __panic, a hang

vars == <<links, sched, thr, sem, rec, halt>>

St == [links |-> links, sched |-> sched, thr |-> thr, sem |-> sem,
       rec |-> rec, halt |-> halt]

Set(S) == /\ links' = S.links /\ sched' = S.sched /\ thr' = S.thr
          /\ sem' = S.sem /\ rec' = S.rec /\ halt' = S.halt

(* __panic (kernel.c) ends in __stop: the machine halts. *)
Panic(S) == [S EXCEPT !.halt = "panic"]
(* A loop of the kernel over a broken ring that never ends: interrupts are *)
(* off, the machine hangs.                                                 *)
Hang(S) == [S EXCEPT !.halt = "hang"]
Fuel == Cardinality(Nodes) + 1

-----------------------------------------------------------------------------
(***************************************************************************)
(* Scheduler (scheduler.c)                                                 *)
(***************************************************************************)

(* Mutation: the push that forgets the fresh time slice. *)
PushNoSlice(S, t) ==
    IF S.sched.ready = NULL
    THEN [S EXCEPT !.links = ListSingle(@, t), !.sched.ready = t]
    ELSE [S EXCEPT !.links = ListInsert(@, S.sched.ready, t)]

(* Mutation: the push that makes the new node the head of the ring. *)
PushFront(S, t) ==
    LET S1 == [S EXCEPT !.thr[t].timeLeft = DEFAULT_TIME_SLICE]
    IN  IF S1.sched.ready = NULL
        THEN [S1 EXCEPT !.links = ListSingle(@, t), !.sched.ready = t]
        ELSE [S1 EXCEPT !.links = ListInsert(@, S1.sched.ready, t), !.sched.ready = t]

(* __scheduler_push: a fresh time slice, then the tail of the ready ring. *)
Push(S, t) ==
    LET S1 == [S EXCEPT !.thr[t].timeLeft = DEFAULT_TIME_SLICE]
    IN  IF S1.sched.ready = NULL
        THEN [S1 EXCEPT !.links = ListSingle(@, t), !.sched.ready = t]
        ELSE [S1 EXCEPT !.links = ListInsert(@, S1.sched.ready, t)]

(* Mutation: next without the fall-back to kernel_main. *)
SchedNextNoIdle(S) ==
    LET h == S.sched.ready
    IN  IF h = NULL THEN [S EXCEPT !.sched.current = NULL]
        ELSE IF S.links[h].next = h
        THEN [S EXCEPT !.sched.current = h, !.sched.ready = NULL]
        ELSE LET L1 == ListUnlink(S.links, h)
             IN  [S EXCEPT !.links = L1, !.sched.ready = L1[h].next,
                           !.sched.current = h]

(* __scheduler_next: the head of the ready ring becomes current; with the  *)
(* ring empty, kernel_main does, without leaving any queue.                *)
SchedNext(S) ==
    LET h == S.sched.ready
    IN  IF h = NULL THEN [S EXCEPT !.sched.current = KernelMain]
        ELSE IF S.links[h].next = h
        THEN [S EXCEPT !.sched.current = h, !.sched.ready = NULL]
        ELSE LET L1 == ListUnlink(S.links, h)
             IN  [S EXCEPT !.links = L1, !.sched.ready = L1[h].next,
                           !.sched.current = h]

FreeRecs(S) == {r \in SleepRecords : ~S.rec[r].used}

(* Mutation: the record is never given back. *)
FreeRecLeak(S, r) == S

(* __mem_free of a sleeping-thread record; freeing what is not allocated  *)
(* returns FREE_NOT_ALLOCED and the caller panics.                         *)
FreeRec(S, r) ==
    IF S.rec[r].used THEN [S EXCEPT !.rec[r].used = FALSE] ELSE Panic(S)

(* The do-while of __scheduler_timeout: from the head, add up deltas while *)
(* the next entry still fires strictly before time.  Result: the node to   *)
(* insert before, and the sum of the deltas before it.                     *)
RECURSIVE Scan(_, _, _, _, _, _)
Scan(S, h, node, delta, time, fuel) ==
    IF fuel = 0 THEN <<NULL, delta>>
    ELSE IF node # h /\ node # NULL /\ TAdd(delta, S.rec[node].delta) < time
    THEN Scan(S, h, S.links[node].next, TAdd(delta, S.rec[node].delta), time, fuel - 1)
    ELSE <<node, delta>>

(* Mutation: a new head that does not take its delta off the old head. *)
SchedTimeoutKeepDelta(S, t, time, s) ==
    LET r == CHOOSE x \in FreeRecs(S) : TRUE
        Fill(S0, d) == [S0 EXCEPT !.rec[r] = [used |-> TRUE, thread |-> t,
                                               semaphore |-> s, delta |-> d]]
        h == S.sched.sleeping
        at == Scan(S, h, S.links[h].next, S.rec[h].delta, time, Fuel)
        S1 == [Fill(S, time - at[2]) EXCEPT !.links = ListInsert(@, at[1], r)]
    IN  IF FreeRecs(S) = {} THEN Panic(S)
        ELSE IF h = NULL
        THEN [Fill(S, time) EXCEPT !.links = ListSingle(@, r), !.sched.sleeping = r]
        ELSE IF time < S.rec[h].delta
        THEN [Fill(S, time) EXCEPT !.links = ListInsert(@, h, r), !.sched.sleeping = r]
        ELSE IF at[1] = NULL THEN Hang(S)
        ELSE IF at[1] # h THEN [S1 EXCEPT !.rec[at[1]].delta = TSub(@, time - at[2])]
        ELSE S1

(* __scheduler_timeout: a new record in the delta list.  __mem_alloc's     *)
(* NULL is not checked: the first store through it faults and the trap     *)
(* handler panics (IRQ_ILLEGAL_WRITE).                                     *)
SchedTimeout(S, t, time, s) ==
    IF FreeRecs(S) = {} THEN Panic(S)
    ELSE
    LET r == CHOOSE x \in FreeRecs(S) : TRUE
        Fill(S0, d) == [S0 EXCEPT !.rec[r] = [used |-> TRUE, thread |-> t,
                                               semaphore |-> s, delta |-> d]]
        h == S.sched.sleeping
    IN  IF h = NULL
        THEN [Fill(S, time) EXCEPT !.links = ListSingle(@, r), !.sched.sleeping = r]
        ELSE IF time < S.rec[h].delta
        THEN LET S1 == Fill([S EXCEPT !.rec[h].delta = TSub(@, time)], time)
             IN  [S1 EXCEPT !.links = ListInsert(@, h, r), !.sched.sleeping = r]
        ELSE
        LET at == Scan(S, h, S.links[h].next, S.rec[h].delta, time, Fuel)
            node == at[1]
            d == time - at[2]
            S1 == [Fill(S, d) EXCEPT !.links = ListInsert(@, node, r)]
        IN  IF node = NULL THEN Hang(S)
            ELSE IF node # h THEN [S1 EXCEPT !.rec[node].delta = TSub(@, d)]
            ELSE S1

(* The while loop of __scheduler_remove_timeout looking for the thread's   *)
(* record; it stops at the last node of the ring.                          *)
RECURSIVE FindRec(_, _, _, _)
FindRec(S, n, t, fuel) ==
    IF fuel = 0 THEN NULL
    ELSE IF S.rec[n].thread # t /\ S.links[n].next # S.sched.sleeping
    THEN FindRec(S, S.links[n].next, t, fuel - 1)
    ELSE n

(* __scheduler_remove_timeout: unlink and free the thread's record, giving *)
(* its delta to the record after it.  The head pointer is only reset when  *)
(* the record was the only one.                                            *)
RemoveTimeout(S, t) ==
    LET hd == S.sched.sleeping
    IN  IF hd = NULL THEN Panic(S)
        ELSE IF S.links[hd].next = hd
        THEN IF S.rec[hd].thread # t THEN Panic(S)
             ELSE FreeRec([S EXCEPT !.sched.sleeping = NULL], hd)
        ELSE
        LET n == FindRec(S, hd, t, Fuel)
        IN  IF n = NULL THEN Hang(S)
            ELSE IF S.rec[n].thread # t THEN Panic(S)
            ELSE IF S.links[n].next = hd
            THEN FreeRec([S EXCEPT !.links = ListUnlink(@, n)], n)
            ELSE FreeRec([S EXCEPT !.rec[S.links[n].next].delta = TAdd(@, S.rec[n].delta),
                                   !.links = ListUnlink(@, n)], n)

-----------------------------------------------------------------------------
(***************************************************************************)
(* Semaphores (semaphore.c)                                                *)
(***************************************************************************)

(* __sem_push: the tail of the semaphore's wait ring. *)
SemPush(S, h, t) ==
    IF S.sem[h].waiting = NULL
    THEN [S EXCEPT !.links = ListSingle(@, t), !.sem[h].waiting = t]
    ELSE [S EXCEPT !.links = ListInsert(@, S.sem[h].waiting, t)]

(* Mutation: the wait that blocks at zero. *)
SemWaitLe(S, h, code) ==
    LET S1 == [S EXCEPT !.sem[h].val = @ - 1]
        c == S.sched.current
    IN  IF S1.sem[h].val <= 0
        THEN SemPush([SchedNext(S1) EXCEPT !.thr[c].a0 = code], h, c)
        ELSE S1

(* __sem_wait by the running thread, trapped with syscall number code:     *)
(* below zero it is switched out and queued, its a0 left as it was.        *)
SemWait(S, h, code) ==
    LET S1 == [S EXCEPT !.sem[h].val = @ - 1]
        c == S.sched.current
    IN  IF S1.sem[h].val < 0
        THEN SemPush([SchedNext(S1) EXCEPT !.thr[c].a0 = code], h, c)
        ELSE S1

(* __sem_next: unlink the head of the wait ring (the caller reads which    *)
(* thread that is before).                                                 *)
SemNext(S, h) ==
    LET w == S.sem[h].waiting
    IN  IF S.links[w].next = w THEN [S EXCEPT !.sem[h].waiting = NULL]
        ELSE LET L1 == ListUnlink(S.links, w)
             IN  [S EXCEPT !.links = L1, !.sem[h].waiting = L1[w].next]

(* Mutation: the woken thread's saved a0 is not written. *)
SemUnblockNoResult(S, h) ==
    LET t == S.sem[h].waiting
        S1 == SemNext(S, h)
    IN  Push(IF S1.thr[t].timeLeft = 0 THEN RemoveTimeout(S1, t) ELSE S1, t)

(* __sem_unblock_thread: time_left = 0 marks a timed waiter, whose timeout *)
(* is cancelled; the thread is resumed with 0.                             *)
SemUnblockThread(S, h) ==
    LET t == S.sem[h].waiting
        S1 == SemNext(S, h)
        S2 == IF S1.thr[t].timeLeft = 0 THEN RemoveTimeout(S1, t) ELSE S1
    IN  Push([S2 EXCEPT !.thr[t].a0 = 0], t)

(* __sem_signal; with val <= 0 and nobody queued it only returns          *)
(* SEM_SIGNAL_NO_THREADS to the caller.                                    *)
SemSignal(S, h) ==
    LET S1 == [S EXCEPT !.sem[h].val = @ + 1]
    IN  IF S1.sem[h].val <= 0 /\ S1.sem[h].waiting # NULL
        THEN SemUnblockThread(S1, h) ELSE S1

(* Mutation: the timed wait without the time_left = 0 mark. *)
SemTimedWaitNoMark(S, h, time) ==
    LET S1 == SchedTimeout(S, S.sched.current, time, h)
    IN  IF S1.halt # "run" THEN S1 ELSE SemWait(S1, h, SYSCALL_SEM_TIMED_WAIT)

(* __sem_timed_wait: time_left = 0 as the timed-waiter mark, a timeout     *)
(* against this semaphore, then the ordinary wait.                         *)
SemTimedWait(S, h, time) ==
    LET c == S.sched.current
        S1 == SchedTimeout([S EXCEPT !.thr[c].timeLeft = 0], c, time, h)
    IN  IF S1.halt # "run" THEN S1 ELSE SemWait(S1, h, SYSCALL_SEM_TIMED_WAIT)

(* Mutation: the next pointer read after the push has relinked the node. *)
RECURSIVE CloseWaitersNextLate(_, _, _, _)
CloseWaitersNextLate(S, cur, first, fuel) ==
    LET S1 == [Push(S, cur) EXCEPT !.thr[cur].a0 = SEM_CLOSED_EXTERNALLY]
        nx == S1.links[cur].next
    IN  IF fuel = 0 THEN Hang(S)
        ELSE IF nx = NULL THEN Panic(S)
        ELSE IF nx # first THEN CloseWaitersNextLate(S1, nx, first, fuel - 1)
        ELSE S1

(* The do-while of __sem_close: every thread from the head round the ring  *)
(* is pushed to ready with SEM_CLOSED_EXTERNALLY; the next pointer is read *)
(* before the push rewrites the node.                                      *)
RECURSIVE CloseWaiters(_, _, _, _)
CloseWaiters(S, cur, first, fuel) ==
    LET nx == S.links[cur].next
        S1 == [Push(S, cur) EXCEPT !.thr[cur].a0 = SEM_CLOSED_EXTERNALLY]
    IN  IF fuel = 0 THEN Hang(S)
        ELSE IF nx = NULL THEN Panic(S)
        ELSE IF nx # first THEN CloseWaiters(S1, nx, first, fuel - 1)
        ELSE S1

(* __sem_close: wake all waiters, then free the record; its fields,        *)
(* waiting_threads included, stay as they were.                            *)
SemClose(S, h) ==
    LET w == S.sem[h].waiting
        S1 == IF w = NULL THEN S ELSE CloseWaiters(S, w, w, Fuel)
    IN  [S1 EXCEPT !.sem[h].open = FALSE]

(* Mutation: the timeout that does not give the decrement back. *)
SemRemoveThreadNoUndo(S, h, t) ==
    LET head == S.sem[h].waiting
    IN  IF head = NULL THEN Panic(S)
        ELSE IF head = S.links[head].next THEN [S EXCEPT !.sem[h].waiting = NULL]
        ELSE [S EXCEPT !.links = ListUnlink(@, head), !.thr[t].a0 = SEM_WAIT_TIMEOUT]

(* __sem_remove_thread, called when a timed waiter's timeout fires.  The   *)
(* search loop compares head with the node of the thread head itself       *)
(* belongs to, so it never advances: the node unlinked is always the head  *)
(* of the ring, whichever thread timed out, and waiting_threads is not     *)
(* moved off it.  Only the thread passed in gets SEM_WAIT_TIMEOUT, and     *)
(* only when the ring had more than one node.                              *)
SemRemoveThread(S, h, t) ==
    LET head == S.sem[h].waiting
        S1 == [S EXCEPT !.sem[h].val = @ + 1]
    IN  IF head = NULL THEN Panic(S)
        ELSE IF head = S1.links[head].next THEN [S1 EXCEPT !.sem[h].waiting = NULL]
        ELSE [S1 EXCEPT !.links = ListUnlink(@, head), !.thr[t].a0 = SEM_WAIT_TIMEOUT]

-----------------------------------------------------------------------------
(* Mutation: a wake loop that wakes a single record per tick. *)
WakeExpiredOnce(S, fuel) ==
    LET f == S.sched.sleeping
        r == S.rec[f]
        S1 == IF r.semaphore # NULL THEN SemRemoveThread(S, r.semaphore, r.thread) ELSE S
        S2 == Push(S1, r.thread)
        L3 == ListUnlink(S2.links, f)
    IN  IF S.links[f].next = f
        THEN FreeRec([S2 EXCEPT !.sched.sleeping = NULL], f)
        ELSE FreeRec([S2 EXCEPT !.links = L3, !.sched.sleeping = L3[f].next], f)

(* Mutation: a wake loop that takes a timed waiter off its semaphore but  *)
(* never puts it back on the ready ring.                                   *)
RECURSIVE WakeExpiredNoPush(_, _)
WakeExpiredNoPush(S, fuel) ==
    LET r == S.rec[S.sched.sleeping]
        S1 == IF r.semaphore # NULL THEN SemRemoveThread(S, r.semaphore, r.thread) ELSE S
        S2 == IF r.semaphore # NULL THEN S1 ELSE Push(S1, r.thread)
        L3 == ListUnlink(S2.links, S.sched.sleeping)
        S4 == FreeRec([S2 EXCEPT !.links = L3, !.sched.sleeping = L3[S.sched.sleeping].next],
                      S.sched.sleeping)
    IN  IF fuel = 0 THEN Hang(S)
        ELSE IF S.links[S.sched.sleeping].next = S.sched.sleeping
        THEN FreeRec([S2 EXCEPT !.sched.sleeping = NULL], S.sched.sleeping)
        ELSE IF S4.halt # "run" \/ S4.rec[S4.sched.sleeping].delta # 0 THEN S4
        ELSE WakeExpiredNoPush(S4, fuel - 1)

(* __scheduler_tick: the loop that wakes the records at the head of the    *)
(* delta list whose delta is 0, removing a timed waiter from its semaphore *)
(* first.  Entered with the head's delta at 0.                             *)
RECURSIVE WakeExpired(_, _)
WakeExpired(S, fuel) ==
    LET f == S.sched.sleeping
        r == S.rec[f]
        S1 == IF r.semaphore # NULL THEN SemRemoveThread(S, r.semaphore, r.thread) ELSE S
        S2 == Push(S1, r.thread)
        L3 == ListUnlink(S2.links, f)
        S4 == FreeRec([S2 EXCEPT !.links = L3, !.sched.sleeping = L3[f].next], f)
    IN  IF fuel = 0 THEN Hang(S)
        ELSE IF S.links[f].next = f
        THEN FreeRec([S2 EXCEPT !.sched.sleeping = NULL], f)
        ELSE IF S4.halt # "run" \/ S4.rec[S4.sched.sleeping].delta # 0 THEN S4
        ELSE WakeExpired(S4, fuel - 1)

SchedTick(S) ==
    LET f == S.sched.sleeping
        S1 == [S EXCEPT !.rec[f].delta = TDec(@)]
    IN  IF f = NULL THEN S
        ELSE IF S1.rec[f].delta # 0 THEN S1
        ELSE WakeExpired(S1, Fuel)
-----------------------------------------------------------------------------
(***************************************************************************)
(* Threads (thread.c) and the trap handler (main.c irq_handler)            *)
(***************************************************************************)

(* The state main() leaves when it first traps: the allocator and console  *)
(* set up, kernel_main current with a time_left of 1, userMain created as  *)
(* a user thread and pushed.                                               *)
Init ==
    /\ links = [n \in Nodes |-> IF n = UserMain THEN [next |-> n, prev |-> n]
                                ELSE [next |-> NULL, prev |-> NULL]]
    /\ sched = [ready |-> UserMain, sleeping |-> NULL,
                current |-> KernelMain, userCount |-> 1]
    /\ thr = [t \in Threads |->
                [live |-> t \in {UserMain, KernelMain},
                 timeLeft |-> IF t = KernelMain THEN 1 ELSE DEFAULT_TIME_SLICE,
                 a0 |-> USER_A0]]
    /\ sem = [s \in Semaphores |-> [open |-> FALSE, val |-> 0, init |-> 0, waiting |-> NULL]]
    /\ rec = [r \in SleepRecords |->
                [used |-> FALSE, thread |-> NULL, semaphore |-> NULL, delta |-> 0]]
    /\ halt = "run"

Running == halt = "run"
Current == sched.current
(* A trap from user code: the running thread is a user thread. *)
UserTrap == Running /\ Current \in UserThreads

(* The running thread leaves the CPU (yield saves its registers). *)
SwitchOut(S) == [S EXCEPT !.thr[S.sched.current].a0 = USER_A0]

(* IRQ_TIMER: __scheduler_tick, then one tick off the running thread's     *)
(* slice; at 0 it goes to the tail of the ready ring and the head runs.    *)
TimerTrap(S) ==
    LET S1 == SchedTick(S)
        c == S1.sched.current
        S2 == [S1 EXCEPT !.thr[c].timeLeft = TDec(@)]
    IN  IF S2.halt = "run" /\ S2.thr[c].timeLeft = 0
        THEN SchedNext(Push(SwitchOut(S2), c)) ELSE S2

IrqTimer == Running /\ Set(TimerTrap(St))

(* kernel_main's loop (main.c 506-520): while user threads are alive, trap *)
(* with SYSCALL_KERNEL_DISPATCH, which runs the next ready thread without  *)
(* pushing kernel_main; when none is left, __stop.  Timer interrupts reach *)
(* kernel_main in the one-instruction window the loop opens.               *)
KernelDispatch ==
    /\ Running /\ Current = KernelMain /\ sched.userCount > 0
    /\ sched.ready # NULL
    /\ Set(SchedNext(St))

KernelStop ==
    /\ Running /\ Current = KernelMain /\ sched.userCount = 0
    /\ halt' = "stop"
    /\ UNCHANGED <<links, sched, thr, sem, rec>>

(* SYSCALL_THREAD_CREATE: __thread_create of a user thread into a free     *)
(* record: counted as a user thread, pushed.  With no record free it       *)
(* returns THREAD_CREATE_NO_MEMORY and changes nothing.                    *)
ThreadCreate(S, t) ==
    Push([S EXCEPT !.thr[t] = [live |-> TRUE, timeLeft |-> DEFAULT_TIME_SLICE, a0 |-> USER_A0],
                   !.sched.userCount = @ + 1], t)

SysThreadCreate ==
    UserTrap /\ \E t \in UserThreads : ~thr[t].live /\ Set(ThreadCreate(St, t))

(* Mutation: __thread_exit without __scheduler_user_thread_decrement. *)
ThreadExitNoUncount(S) ==
    LET S1 == SchedNext(S)
    IN  [S1 EXCEPT !.thr[S.sched.current].live = FALSE]

(* SYSCALL_THREAD_EXIT: __thread_exit: uncount the user thread, run the    *)
(* next, then __thread_delete frees its stack and its record.              *)
ThreadExit(S) ==
    LET S1 == SchedNext([S EXCEPT !.sched.userCount = @ - 1])
    IN  [S1 EXCEPT !.thr[S.sched.current].live = FALSE]

SysThreadExit == UserTrap /\ Set(ThreadExit(St))

(* SYSCALL_THREAD_DISPATCH: the running thread to the tail, the head runs. *)
SysThreadDispatch ==
    /\ UserTrap
    /\ Set(SchedNext(Push(SwitchOut(St), Current)))

(* Mutation: time_sleep that queues the timeout but keeps running. *)
SysTimeSleepNoSwitch ==
    /\ UserTrap
    /\ \E time \in SleepTimes \ {0} :
        Set(SchedTimeout([St EXCEPT !.thr[Current].a0 = 0], Current, time, NULL))

(* SYSCALL_TIMED_SLEEP: a timeout without semaphore, a0 = 0, next thread.  *)
(* A time of 0 returns at once and changes nothing.                        *)
TimeSleep(S, time) ==
    LET c == S.sched.current
        S1 == SchedTimeout([S EXCEPT !.thr[c].a0 = 0], c, time, NULL)
    IN  IF S1.halt = "run" THEN SchedNext(S1) ELSE S1

SysTimeSleep == UserTrap /\ \E time \in SleepTimes \ {0} : Set(TimeSleep(St, time))

(* SYSCALL_SEM_OPEN: __sem_open into a free semaphore record.              *)
SemOpen(S, s, v) ==
    [S EXCEPT !.sem[s] = [open |-> TRUE, val |-> v, init |-> v, waiting |-> NULL]]

SysSemOpen ==
    UserTrap /\ \E s \in Semaphores, v \in SemInits : ~sem[s].open /\ Set(SemOpen(St, s, v))

(* The semaphore calls take the handle of an open semaphore: using a      *)
(* closed handle is the caller's error the kernel does not check.          *)
SysSemClose ==
    UserTrap /\ \E s \in Semaphores : sem[s].open /\ Set(SemClose(St, s))

SysSemWait ==
    UserTrap /\ \E s \in Semaphores : sem[s].open /\ Set(SemWait(St, s, SYSCALL_SEM_WAIT))

SysSemSignal ==
    /\ UserTrap
    /\ \E s \in Semaphores :
        sem[s].open /\ sem[s].val < MaxSemValue /\ Set(SemSignal(St, s))

SysSemTimedWait ==
    /\ UserTrap
    /\ \E s \in Semaphores, time \in TimedWaitTimes :
        sem[s].open /\ Set(SemTimedWait(St, s, time))

(* An ecall whose code has no case in the switch of IRQ_ECALL_USER        *)
(* (mem_free's SYSCALL_MEM_FREE, sem_trywait's 0x26): sepc has moved past *)
(* the ecall, nothing is done, and the wrapper returns a0, which still     *)
(* holds the code.                                                         *)
SysUnhandled ==
    UserTrap /\ \E code \in UnhandledCodes : Set([St EXCEPT !.thr[Current].a0 = code])

(* IRQ_ILLEGAL_OP, IRQ_ILLEGAL_READ, IRQ_ILLEGAL_WRITE from a user thread: *)
(* __panic, whichever thread faulted.                                      *)
UserFault == UserTrap /\ FaultCauses # {} /\ Set(Panic(St))

Next ==
    \/ IrqTimer
    \/ KernelDispatch
    \/ KernelStop
    \/ SysThreadCreate
    \/ SysThreadExit
    \/ SysThreadDispatch
    \/ SysTimeSleep
    \/ SysSemOpen
    \/ SysSemClose
    \/ SysSemWait
    \/ SysSemSignal
    \/ SysSemTimedWait
    \/ SysUnhandled
    \/ UserFault

(* The timer keeps interrupting: it is always enabled while the machine    *)
(* runs, and user threads run with interrupts on.  User code owes nothing. *)
(* TimerFair is WF_vars(IrqTimer) written out: IrqTimer is a total         *)
(* function of the state, so <<IrqTimer>>_vars is enabled exactly when the *)
(* machine runs and a tick changes the state.                              *)
TimerFair == []<>(~Running \/ TimerTrap(St) = St) \/ []<><<IrqTimer>>_vars

(* kernel_main is kernel code: once it holds the CPU with no user thread  *)
(* counted, nothing but a timer tick, which hands the CPU back to it, can *)
(* come between it and __stop, so its step is weakly fair.                 *)
Spec == Init /\ [][Next]_vars /\ TimerFair /\ WF_vars(KernelStop)
-----------------------------------------------------------------------------
(***************************************************************************)
(* Properties                                                              *)
(***************************************************************************)

LiveUsers == {t \in UserThreads : thr[t].live}
UsedRecs == {r \in SleepRecords : rec[r].used}
ReadyRing == Members(links, sched.ready)
WaitRing(s) == Members(links, sem[s].waiting)
SleepRing == Ring(links, sched.sleeping)
(* The threads time_sleep put to sleep: a record without semaphore. *)
Sleepers == {rec[r].thread : r \in {x \in UsedRecs : rec[x].semaphore = NULL}}

TypeOK ==
    /\ links \in [Nodes -> [next : Nodes \cup {NULL}, prev : Nodes \cup {NULL}]]
    /\ sched \in [ready : Nodes \cup {NULL}, sleeping : Nodes \cup {NULL},
                  current : Threads, userCount : Nat]
    /\ thr \in [Threads -> [live : BOOLEAN, timeLeft : 0..TIME_WRAPPED, a0 : A0Values]]
    /\ sem \in [Semaphores -> [open : BOOLEAN, val : Int, init : SemInits \cup {0},
                               waiting : Nodes \cup {NULL}]]
    /\ rec \in [SleepRecords -> [used : BOOLEAN, thread : Threads \cup {NULL},
                                 semaphore : Semaphores \cup {NULL}, delta : 0..TIME_WRAPPED]]
    /\ halt \in {"run", "stop", "panic", "hang"}

(* No trap handler reaches __panic, and none loops for ever: every         *)
(* consistency check of the scheduler and the semaphores holds when it is  *)
(* made.                                                                   *)
NoPanic == halt \in {"run", "stop"}

(* The ready ring, the delta list and the wait ring of every open          *)
(* semaphore are well-linked rings (scheduler.c, semaphore.c pointer       *)
(* surgery); the ready and wait rings hold live threads, the delta list    *)
(* holds exactly the allocated sleeping-thread records.                    *)
QueuesWellFormed ==
    Running =>
    /\ RingOK(links, sched.ready)
    /\ ReadyRing \subseteq {t \in Threads : thr[t].live}
    /\ RingOK(links, sched.sleeping)
    /\ Members(links, sched.sleeping) = UsedRecs
    /\ \A s \in Semaphores : sem[s].open =>
          /\ RingOK(links, sem[s].waiting)
          /\ WaitRing(s) \subseteq LiveUsers

(* Every live user thread is in exactly one place: running, on the ready   *)
(* ring, asleep (time_sleep), or on the wait ring of one open semaphore;   *)
(* kernel_main is running, ready or idle; a freed thread is nowhere.  A    *)
(* thread in two places is one list node linked into two lists.           *)
Places(t) ==
    (IF Current = t THEN {"cpu"} ELSE {}) \cup
    (IF t \in ReadyRing THEN {"ready"} ELSE {}) \cup
    (IF t \in Sleepers THEN {"sleep"} ELSE {}) \cup
    {s \in Semaphores : sem[s].open /\ t \in WaitRing(s)}

ThreadsAccounted ==
    Running =>
    /\ \A t \in LiveUsers : Cardinality(Places(t)) = 1
    /\ Cardinality(Places(KernelMain)) <= 1 /\ Places(KernelMain) \subseteq {"cpu", "ready"}
    /\ \A t \in UserThreads \ LiveUsers :
          Places(t) = {} /\ \A r \in UsedRecs : rec[r].thread # t

(* A negative semaphore value counts its blocked threads (spec section 3): *)
(* val < 0 exactly when -val threads are on its wait ring.                 *)
SemaphoreCount ==
    Running =>
    \A s \in Semaphores : sem[s].open =>
        IF sem[s].val < 0 THEN Cardinality(WaitRing(s)) = -sem[s].val
                          ELSE sem[s].waiting = NULL

(* A pending timeout belongs to a blocked thread: a record names a live    *)
(* thread that is neither running nor ready; a record with a semaphore     *)
(* names a waiter of that open semaphore, marked by time_left = 0, which   *)
(* is the mark __sem_unblock_thread reads to cancel the timeout; and a     *)
(* waiter carries the mark only if it has such a record.                   *)
TimeoutsMatchWaiters ==
    Running =>
    /\ \A r \in UsedRecs :
          LET t == rec[r].thread
              s == rec[r].semaphore
          IN  /\ t \in LiveUsers /\ t # Current /\ t \notin ReadyRing
              /\ s # NULL => sem[s].open /\ t \in WaitRing(s) /\ thr[t].timeLeft = 0
    /\ \A r1, r2 \in UsedRecs : rec[r1].thread = rec[r2].thread => r1 = r2
    /\ \A s \in Semaphores : sem[s].open =>
          \A t \in WaitRing(s) :
              thr[t].timeLeft = 0 =>
                  \E r \in UsedRecs : rec[r].thread = t /\ rec[r].semaphore = s

(* A thread blocked in sem_wait or sem_timed_wait resumes with a result    *)
(* written to its a0 (0, SEM_CLOSED_EXTERNALLY or SEM_WAIT_TIMEOUT), never *)
(* with the syscall number it trapped with.                                *)
ResumeDelivered ==
    [][\A t \in UserThreads :
          (sched'.current = t /\ sched.current # t) =>
              thr'[t].a0 \notin {SYSCALL_SEM_WAIT, SYSCALL_SEM_TIMED_WAIT}]_vars

(* The delta list keeps every timer's deadline: the ticks left before a    *)
(* record fires (the sum of the deltas up to it) fall by one on a timer    *)
(* interrupt and are unchanged by any other trap; a timer interrupt fires  *)
(* exactly the records whose deadline it reaches and leaves no record      *)
(* with zero ticks left.                                                   *)
RECURSIVE DeltaSum(_, _, _, _)
DeltaSum(rc, seq, r, i) ==
    IF i > Len(seq) \/ seq[i] = NULL THEN TIME_WRAPPED
    ELSE IF seq[i] = r THEN rc[seq[i]].delta
    ELSE TAdd(rc[seq[i]].delta, DeltaSum(rc, seq, r, i + 1))

Deadline(r) == DeltaSum(rec, SleepRing, r, 1)
Deadline2(r) == DeltaSum(rec', Ring(links', sched'.sleeping), r, 1)

DeadlinesKept ==
    [][(Running /\ halt' = "run") =>
        \A r \in SleepRecords :
           /\ (rec[r].used /\ rec'[r].used /\ rec[r].thread = rec'[r].thread) =>
                 /\ Deadline2(r) = TSub(Deadline(r), IF IrqTimer THEN 1 ELSE 0)
                 /\ Deadline2(r) > 0
           /\ (IrqTimer /\ rec[r].used /\ ~rec'[r].used) => Deadline(r) = 1]_vars

(* Records with equal deadlines wake in the order they were queued (spec  *)
(* section 4.3, FIFO among equal wake-up times): a record that            *)
(* __scheduler_timeout inserts lands after every record already queued    *)
(* with the same absolute deadline.                                        *)
Precedes(seq, a, b) == \E i, j \in 1..Len(seq) : i < j /\ seq[i] = a /\ seq[j] = b

SleepTiesFifo ==
    [][\A r, q \in SleepRecords :
         (Running /\ halt' = "run" /\ ~rec[r].used /\ rec'[r].used
          /\ rec[q].used /\ rec'[q].used /\ Deadline2(q) = Deadline2(r))
            => Precedes(Ring(links', sched'.sleeping), q, r)]_vars

(* The ready ring is a FIFO queue (spec section 4.3: admission at the     *)
(* tail makes the policy round robin).  In one trap it loses at most its   *)
(* head, which is then the running thread (__scheduler_next), and what    *)
(* remains keeps its order, followed only by the threads pushed at its    *)
(* tail (__scheduler_push by the timer, a wake-up, a signal, a create).    *)
ReadyFifo ==
    [][(Running /\ halt' = "run") =>
        LET old == Ring(links, sched.ready)
            new == Ring(links', sched'.ready)
        IN  \/ Seqs!IsPrefix(old, new)
            \/ old # <<>> /\ sched'.current = old[1] /\ Seqs!IsPrefix(Tail(old), new)]_vars

(* Liveness, under a fair timer: a thread asleep in time_sleep wakes, and  *)
(* a ready thread gets the CPU (round-robin, spec section 4.3).            *)
SleepersWake == \A t \in UserThreads : t \in Sleepers ~> t \notin Sleepers

ReadyThreadsRun == \A t \in UserThreads : t \in ReadyRing ~> Current = t

(* A thread blocked in sem_timed_wait eventually runs again, unless a     *)
(* fault of another thread has halted the machine first: its timeout      *)
(* fires in __scheduler_tick and puts it back on the ready ring, or a      *)
(* signal or close does (__sem_timed_wait, scheduler.c:273).               *)
TimedWaiters == {rec[r].thread : r \in {x \in UsedRecs : rec[x].semaphore # NULL}}
TimedWaitResolves ==
    \A t \in UserThreads : t \in TimedWaiters ~> (Current = t \/ ~Running)

(* When the last user thread has exited, kernel_main leaves its loop and   *)
(* calls __stop (main.c 506-523): the user_thread_count that create and    *)
(* exit keep (scheduler.c, thread.c) reaches 0 exactly when no user thread *)
(* is alive.  A count that drifts from the live threads leaves kernel_main *)
(* idling for ever.                                                        *)
AllExitedStop == (Running /\ LiveUsers = {}) ~> halt = "stop"
=========================================================================
