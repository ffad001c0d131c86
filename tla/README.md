# TLA+ models of kernel-riscv

These are TLA+ models of the RISC-V teaching kernel in `src/`, and the TLC runs that check them. Every operator is written from the C source. `PROJECT.json` maps each one to the lines it translates.

## The system

The kernel runs on one hart. All kernel code runs inside `irq_handler` (`src/src/main.c`) with interrupts off, so each trap is atomic. The traps are:
- the timer interrupt;
- a system call from a user thread;
- `SYSCALL_KERNEL_DISPATCH`, issued by the idle loop of `kernel_main`.

The parts:

| Part | Source | What it does |
|---|---|---|
| Intrusive list | `list.c`, `list.h` | Circular doubly linked `list_t` node embedded in threads and sleep records; the only linkage of every queue |
| Block allocator | `mem.c` | Boundary-tag index `mem_index[]`, first fit `__mem_alloc`, coalescing `__mem_free` |
| Scheduler | `scheduler.c` | Ready ring (round robin), delta list of `__sleeping_thread_t` records (`__scheduler_timeout`, `__scheduler_remove_timeout`, `__scheduler_tick`) |
| Semaphore | `semaphore.c` | Counting semaphore with a FIFO wait ring; `timed_wait` puts a record with the semaphore into the delta list |
| Thread | `thread.c` | `__thread_create`, `__thread_exit`/`__thread_delete`, `yield` (context swap in the trap frame) |
| Trap handler, `main` | `main.c` | Timer tick and slicing, syscall dispatch, the `kernel_main` idle loop and `__stop` |
| Console | `console.c` | UART buffers and `getc`/`putc` |
| Printing and halting | `kernel.c` | `__panic`, `__stop`, number printers |
| User wrappers | `syscall_c.c`, `syscall_cpp.*` | Load registers, `ecall` |

How the parts interact:
- The semaphore blocks and wakes threads through the scheduler.
- A timed wait is a scheduler record that points at a semaphore. When it fires, the tick calls back into `__sem_remove_thread`. When the semaphore is signalled first, `__sem_unblock_thread` calls `__scheduler_remove_timeout`.
- Every record (thread, semaphore, sleep record, scheduler) comes from `__mem_alloc`.

## Modules

| Module | Models |
|---|---|
| `IntrusiveList` | `list_insert` and the inline unlink and single-ring stores, one pointer store at a time. `Ring`/`RingOK` read a queue back and say whether it is a well-formed ring. |
| `Kernel` | Scheduler, semaphores, thread lifecycle and `irq_handler` |
| `MCKernel` | Model values for `Kernel` |
| `Allocator` | `__mem_init`, `__mem_alloc`, `__mem_free` on the index itself |
| `BlockSpace` | Abstract first-fit block allocator (spec section 4.1), with no index |
| `MCAllocator` | Instance of `Allocator` for TLC |
| `Console` | `console.c` and the `SYSCALL_GETC`, `SYSCALL_PUTC` and `IRQ_HW` cases of `irq_handler`, composed with `Kernel` |
| `MCConsole` | Model values for `Console` |
| `KernelHeap` | `Kernel` with every object taken from the `Allocator` index: `main()`'s boot allocations, thread records and stacks, semaphores, sleep records, user `mem_alloc`, and the two traps of the `thread_create` wrapper |
| `MCKernelHeap` | Model values for `KernelHeap` |

### Kernel

State: every C structure the handlers touch.
- `links`: the `list_t` node of every thread and sleep record.
- `sched`: `struct __scheduler_t` (ready, sleeping, current, user count).
- `thr`: per thread, whether it is allocated, `time_left`, and the `a0` of its saved context. `a0` is where a blocked call's result is delivered.
- `sem`: `struct __sem_t`.
- `rec`: `struct __sleeping_thread_t`.
- `halt`: run, `__stop`, `__panic`, or "hang" (a walk over a broken ring that would never end).

Each C function is an operator from a kernel state `S` to the state it leaves. Examples: `Push` = `__scheduler_push`, `SchedTimeout` = `__scheduler_timeout`, `SemRemoveThread` = `__sem_remove_thread`. A trap is one action, and it composes those functions in the order the handler calls them. Examples:
- `IrqTimer` is `__scheduler_tick`, then the slice decrement, then push/next at zero.
- `SysSemTimedWait` is `__sem_timed_wait`, which is `__scheduler_timeout` followed by `__sem_wait`.

A user thread's code is arbitrary. When it runs, any of the syscalls may come next, with arguments from the small constant sets `SemInits`, `SleepTimes` and `TimedWaitTimes`. Two more sets enable two more kinds of trap:
- `UnhandledCodes` holds the ecalls that have no case in `irq_handler`: `mem_free`'s 0x2 and `sem_trywait`'s 0x26. `SysUnhandled` is such a trap. `sepc` moves past the `ecall`, nothing else happens, and the wrapper returns `a0`, which still holds the code. So `sem_trywait` returns 38 and never decrements.
- `FaultCauses` holds the illegal-op, illegal-read and illegal-write traps. `UserFault` is one of them, and it panics the whole machine, whichever thread faulted.

Data is abstracted as follows:
- Records are pools of model values. Allocating from a pool stands for `__mem_alloc`. An empty pool is the `NULL` return, which the code does not check: the first store faults and the trap panics.
- A freed record keeps its fields, as `__mem_free` leaves memory as it was. A stale pointer reads old values, as it does in C.
- `time_t` is a u64. Arithmetic saturates at the sentinel `TIME_WRAPPED` (1000), which stands for any value near 2^64. No model delta comes close to it otherwise. `TDec(0)` is `TIME_WRAPPED`, which is the wrap of `delta--`.
- `a0` takes values from `A0Values`: the user's own value, 0, the two error codes, and the syscall numbers that stay in `a0` when no result is written.

### Console

`Console` extends `Kernel`, and its operators take the kernel state record extended with the console's fields, so `Push` and `SchedNext` apply to it unchanged.

State:
- `recvBuf` and `sendBuf` are the used prefixes of the two buffers.
- `waiting` is `threads_waiting_for_input`, a ring of the same `list_t` nodes.
- `rx` is the UART's receive FIFO. Each character is numbered by its arrival (`arrived`).
- `out` is what was written to the transmit register.
- `got` and `accepted` record, in order, what getc returned and what putc accepted.
- `retry` is the character whose refused `ecall` a thread will execute again.

Actions:
- `SysGetc` is `__getc` with the `SYSCALL_GETC` case. With the buffer empty, the thread yields and is pushed on the wait ring, and its `a0` still holds 0x41.
- `SysPutc` is `__putc` with the `SYSCALL_PUTC` case. When it is refused, `sepc` is rewound and the thread goes to the tail of the ready ring. A thread with a pending retry can make no other call, because its next instruction is that `ecall`.
- `IrqHw` is `__console_receive`, then `__console_send`.
- `UartReceive` is the device receiving a character.
- `ConsoleStop` replaces `KernelStop`. It is `__stop`, which sends the send buffer once (`ConsoleSend`) before it halts. What the UART does not take at that moment is never sent.

The status register's ready bit is a number `ready`: how many characters the UART takes before the bit drops.

### Allocator and BlockSpace

`idx` is `mem_index[0..N-1]`. A pointer is a block number. `AllocLoop` is the `while` loop of `__mem_alloc`, written as a recursion. `MemFree` has every early return of `__mem_free` and its three coalescing cases, and the later stores see the earlier ones. Stores outside the index end the behaviour as "wild".

The loop can read `mem_index[n_mem_blocks]`, one word past the index. That read is undefined by the program. The word is either padding that `__mem_init` never writes, or the first word of the first allocation. The model does not know what the word holds, so the constant `PastIndex` is the set of values it may hold.

`handed` is what the callers hold. It is auxiliary state, and the refinement mapping needs it.

`Allocator` instantiates `BlockSpace` with `allocs <- AllocatedRuns`. `AllocatedRuns` is the set of allocated runs parsed from the index, or an impossible run when the index does not parse. `RefinesBlockSpace` is `BS!ASpec` checked as a property.

### KernelHeap

`KernelHeap` extends `Kernel`. It uses the allocator through a named instance, `A == INSTANCE Allocator WITH idx <- heap, ...`, so `A!MemAlloc` and `A!MemFree` run on this module's own index. Kernel identities (threads, semaphores, records) stay model values. `base` maps each live identity to the first block of its run, and `stack` gives a thread's `bp`.

Initial state: `HInit` replays `main()`'s allocations in order on the index `__mem_init` leaves. These are the two console buffers, kernel_main's record, the scheduler, the system stack, userMain's stack and userMain's record.

Actions, all wrappers of Kernel's operators:
- **`RecordHeap`** compares a kernel step's records before and after:
  - A new record is `__mem_alloc`ed. A NULL makes the first store fault, which panics.
  - Records the tick or a cancelled timeout unlinked are `__mem_free`d. A failed free panics.
- **`WrapperStackAlloc`, then `HThreadCreate`** are the two traps of `thread_create`.
  - The timer and other threads can run between them. The stack is held in `pend` meanwhile.
  - If the record allocation returns NULL, `a0` is `THREAD_CREATE_NO_MEMORY`. The wrapper's `mem_free` is ecall 0x2, which no case handles, so the stack goes to `lost`.
- **`HThreadExit`** is `__thread_exit`, then `__thread_delete` of the thread saved before the yield: the stack, then the record.
- **`HSemOpen` / `HSemClose`** allocate the semaphore, with `SEM_CREATE_NO_MEMORY` on NULL, and free it after waking the waiters.
- **`HMemAlloc`** is user `mem_alloc`. The run stays in `held` for good.

Differences from the code:
- Frees in one trap happen in `CHOOSE` order, not ring order. No trap both allocates and frees, and the index after a set of successful frees is the same whatever their order.
- The model keeps identities distinct. So a stale pointer into a run that has been reallocated writes to the old identity, not to the new owner. This only happens after the timed-wait bugs listed below.

## Runs

Passing runs (at least 100 distinct states each; together they fire every action):

| Run | Checks | Shows |
|---|---|---|
| `kernel_untimed` | TypeOK, NoPanic, QueuesWellFormed, ThreadsAccounted, SemaphoreCount, TimeoutsMatchWaiters, ResumeDelivered, DeadlinesKept, ReadyFifo, SleepersWake, ReadyThreadsRun, AllExitedStop | Two user threads, one semaphore (initial value 0 or 1), sleeps of 1 and 2 ticks, thread create and exit. Every interleaving of traps keeps the properties listed below. Under the fairness below, every sleeper wakes, every ready thread gets the CPU, and the kernel stops once all user threads have exited. About 890k states, a little over 2 minutes. |
| `console_io` | ConsoleTypeOK, InputInOrder, OutputInOrder, ConsoleThreadsAccounted, InputReachesWaiters | Two threads doing getc, putc and thread calls. Three characters arrive and two are written, through two-byte buffers, with every UART readiness. About 1.25M states, 2 minutes. |
| `kernel_timed_lone` | SemaphoreCount, TimeoutsMatchWaiters, TimedWaitResolves | One user thread and two semaphores nobody signals. The thread may also call `mem_free` and `sem_trywait`, which have no handler, or fault. The timeout path of `sem_timed_wait` is correct when the waiter is alone. Under the fair timer, the timed-out thread always runs again unless a fault has halted the machine. About 2.7k states. |
| `kernel_heap` | ObjectsBacked, HeapAccounted | `KernelHeap` on a 10-block heap: after boot, 2 blocks are free and userMain's 2 are freed when it exits. Two user threads, one semaphore, one record, timed waits of 1. The heap runs dry in every order, through user `mem_alloc`, wrapper stacks, semaphores and records. About 773k states, 2.5 minutes. |
| `alloc_kernel` | IndexConsistent, RefinesBlockSpace | N = 8 and a 1-block index. Requests of 1 to 3 blocks; frees of what was handed out; the word past the index is positive. The index stays a coalesced tiling of the heap, and the allocator implements first-fit block space. |

Properties of `kernel_untimed`:
- **QueuesWellFormed:** every queue is a ring.
- **ThreadsAccounted:** every live thread is in exactly one place (running, ready, waiting on one semaphore, or sleeping). A thread that has exited is in none and is named by no record.
- **SemaphoreCount:** a negative `val` is minus the number of waiters.
- **TimeoutsMatchWaiters:** every queued record belongs to a thread that is sleeping or waiting on that semaphore.
- **ResumeDelivered:** a thread that resumes from a blocking call finds its result in `a0`.
- **DeadlinesKept:** every queued record's absolute deadline goes down by exactly one per tick and stays put otherwise.
- **ReadyFifo:** the ready ring is a FIFO queue, which is what makes the policy round robin (spec 4.3). In one trap it loses at most its head, and that thread then runs. The rest keeps its order and is followed only by threads pushed at the tail.
- **SleepersWake / ReadyThreadsRun:** under the fair timer, a thread in `time_sleep` wakes, and a thread on the ready ring gets the CPU.
- **AllExitedStop:** once no user thread is alive, `kernel_main` calls `__stop`. So `user_thread_count` reaches 0 exactly when the last thread exits, since any drift would leave `kernel_main` idling for ever.

Properties of `kernel_heap`:
- **ObjectsBacked:** each of the following is an allocated run of its own size, and no two share a block:
  - every live thread's record and stack;
  - every open semaphore and every queued record;
  - every stack a wrapper holds;
  - every run user code got.
  So no free ever releases something still in use.
- **HeapAccounted:** every allocated run is one of those, the boot runs, or a stack lost by a failed create. Nothing else leaks.

Property of `kernel_timed_lone` beyond the two invariants:
- **TimedWaitResolves:** a thread blocked in `sem_timed_wait` eventually runs again, unless the machine has halted.

Properties of `console_io`:
- **ConsoleTypeOK:** neither buffer grows past `CONSOLE_BUFFER_SIZE`.
- **InputInOrder:** what getc returned, then the receive buffer, then the UART FIFO, are exactly the arrivals in order. No character is lost, duplicated or reordered, including when the interrupt hands characters to several waiters.
- **OutputInOrder:** what the UART was sent, then the send buffer, is exactly what putc accepted. A refused putc that is retried is sent once.
- **ConsoleThreadsAccounted:** every live thread is in exactly one place, the input wait ring among them. Every waiter still has 0x41 in `a0`, and nobody waits while the receive buffer holds a character.
- **InputReachesWaiters:** a thread blocked in getc runs again once the UART holds at least as many characters as there are blocked threads.

Violation runs each check one property. Each is a bug or divergence found while modelling and is recorded in `findings`:

| Run | Property | What TLC finds |
|---|---|---|
| `kernel_timed_available` | NoPanic | `sem_timed_wait` on an available semaphore leaves its timeout queued. The tick then panics with "Thread lost". |
| `kernel_timeout_head` | SemaphoreCount | `__sem_remove_thread` never advances its search, so it unlinks the first waiter, not the thread that timed out. |
| `kernel_timeout_result` | ResumeDelivered | A lone timed-out waiter resumes with 0x25 in `a0`, not `SEM_WAIT_TIMEOUT`. |
| `kernel_cancel_first` | DeadlinesKept | Cancelling the head record of a longer delta list leaves `sleeping_threads` pointing at the freed record. |
| `kernel_close_timed` | TimeoutsMatchWaiters | `sem_close` frees the semaphore but leaves the waiters' timeouts queued. |
| `kernel_sleep_ties` | SleepTiesFifo | Three threads each sleep one tick. The third record is inserted before the second, which has the same deadline, so the threads wake u1, u3, u2, not in FIFO order (scheduler.c 203). |
| `alloc_zero` | IndexConsistent | `mem_alloc(0)` overwrites two boundary tags. |

Every property of a passing run has a mutant in `PROJECT.json`. The mutant is a plausible bug in the operator that translates the code, and the run's own configuration catches it. Examples: an insert that stores its pointers in the wrong order, a `wait` that blocks at `val <= 0`, a record never freed.

## Bounds

- **Kernel runs.**
  - Two user threads are enough for every interleaving of one thread with another: a wait against a signal, a timeout against a signal, exit against dispatch.
  - Two sleep records equal the number of user threads, so the pool runs out only through a leak.
  - Time slice 2 and sleep times 1 and 2 give equal and unequal deadlines in the delta list, and preemption in the middle of a sleep.
  - `MaxSemValue` bounds `val`. Otherwise `sem_signal` with no waiter would grow it without limit.
- **Where the bugs need more.** The timed-wait bugs need a semaphore someone signals while a timed waiter sits on it, or several records in the delta list. The violation configurations add timed waits with up to three threads. The passing timed run is the lone-thread one, because with two threads and timed waits the bugs above make every invariant fail.
- **Console.** Three arrivals through a two-byte buffer fill it and leave a character in the UART. Two waiters in getc are served by one interrupt. Three characters are written through the two-byte send buffer. `MaxOutput` must exceed `CONSOLE_BUFFER_SIZE`, because otherwise a full buffer means that every allowed putc has already been accepted. With three, a putc meets a full buffer, is refused, and is retried. Readiness counts of 0 to 2 give every partial send. The time slice is 1, so every tick preempts; `DEFAULT_TIME_SLICE` is a constant of `lib/hw.h`, which is not in the sources. With a slice of 2 the run exceeds 7M states. `MaxInput` and `MaxOutput` bound the device's activity.
- **Allocator.** N = 8 with sizes 1 to 3 reaches first-fit holes, all three coalescing cases and a full heap.
- **Heap and kernel.** All object sizes are 1 block, because the sizes depend on `MEM_BLOCK_SIZE` in `lib/hw.h`, which is not in the sources.
  - With 2 free blocks after boot, every NULL path is reached within about 100 states: a leaked stack, `sem_open` returning `SEM_CREATE_NO_MEMORY`, and a sleep that panics on the NULL record.
  - Two threads are alive at once, and userMain's exit frees runs in the middle of the heap.
  - `MaxHeld = 1` bounds user `mem_alloc`. With 11 blocks and no bound, the run exceeds 1.2M states.

## Fairness

- **Timer.** The timer interrupt keeps coming while the machine runs. User threads run with interrupts enabled, and `kernel_main` opens a one-instruction window in every turn of its loop (main.c 506-520). So `Spec` assumes weak fairness of `IrqTimer`. `TimerFair` writes `WF_vars(IrqTimer)` out explicitly: `IrqTimer` is a total function of the state, so it is enabled whenever the machine runs.
- **UART interrupt.** `InputFair` is weak fairness of `IrqHw` while the UART holds data. The UART's receive interrupt stays raised while data is pending, and user code and the idle loop run with interrupts enabled. It is written out, as `TimerFair` is, because TLC evaluates it far faster in that form.
- **kernel_main.** `Spec` also has `WF_vars(KernelStop)`. `kernel_main` is kernel code. Once it holds the CPU with no user thread counted, only a timer tick can come between it and `__stop`, and that tick hands the CPU back to it. This is what `AllExitedStop` rests on. It is stated with `WF_` directly, because `KernelStop` is cheap for TLC to test for being enabled.
- **User threads.** No fairness is assumed: user code may never make another call. Liveness therefore depends only on the tick and on round-robin slicing.
- **Deadlock.** `CHECK_DEADLOCK FALSE` is used because the kernel does stop: after `__stop` or `__panic` no step is possible.

## Not modelled

- **Zero timeouts.** `sem_timed_wait` with a timeout of 0 wraps the record's delta to 2^64-1 (scheduler.c 279). With `TimedWaitTimes = {0}` in the lone-thread configuration, `DeadlinesKept` fails within four steps. The spec does not say what a zero timeout means, so the case is recorded as a hazard and no run checks it.

- **Printing and user wrappers.** These are output formatting and register marshalling. `__print_u64` and its siblings write digits through `__putc`, and no property is about the digits. The putc retry re-executes the wrapper's `ecall` with the same registers, and `SysPutc` models that.
- **UART and PLIC.** Their behaviour is not in the source. A receive interrupt that fires again while the buffer is full and nobody calls getc is a listed hazard, and no run checks it.
- **`mem_free` of an interior block.** `__mem_free` can accept the last block of a run (mem.c 103). No caller reaches this: `SYSCALL_MEM_FREE` has no handler, and the kernel frees only its own allocation starts. It is a hazard with a note.
- **The `semaphores[10]`/`sem_cnt` debug table.** It can overflow (semaphore.c 110); this is listed as a hazard.
- **Stack overflow.** Stack pointers and the stack-overflow check are not modelled.
- **Register contents.** Only the `a0` result slot is modelled.
- **Interrupts before the first dispatch.** `main()` keeps supervisor interrupts off until its first `SYSCALL_KERNEL_DISPATCH` (main.c 458-459, 503-504). `Init` does not: it lets `IrqTimer` fire while kernel_main is still booting. This only adds behaviours. Where a counterexample starts with such a tick, the same one follows with `KernelDispatch` first.
- **`trywait` against the spec.** The spec's `tryWait` decrements or reports "would block". The code's `sem_trywait` returns 38 and changes nothing (`SysUnhandled`). This is plain from the switch, and no run is kept to show it.
- **The `Semaphore` constructor.** `Semaphore::Semaphore` ignores `sem_open`'s result, so after `SEM_CREATE_NO_MEMORY` its handle is garbage. The C++ objects are not modelled, and the kernel model uses only handles that `sem_open` returned. It is a hazard.
- **Exhaustion panics and the create leak.** In `kernel_heap`, a full heap makes `time_sleep` panic on the NULL record (scheduler.c 154). A failed create also leaks its stack (syscall_c.c 104). The spec forbids both. They are recorded as hazards, and no violation run is kept for them. `HeapAccounted` counts the lost stacks on purpose, so that it checks the kernel's own frees.
- **A full heap and the word past the index.** When the heap is full, `__mem_alloc` reads one word past the index, and a 0 there makes it panic instead of returning null (mem.c 82). What that word holds depends on `lib/hw.h`. No run is kept for it, and it is a hazard with a note.
- **C++ wrappers.** `syscall_cpp` only calls the C wrappers. Its destructors call `mem_free`, which frees nothing, as `HMemAlloc`'s `held` reflects.

## Plan for later sittings

1. Write an abstract timer specification: a set of absolute deadlines. Show the delta list refines it, in a fix-free configuration where the bugs cannot occur.
2. Check `IntrusiveList` against a sequence model of the ring.
3. Model the `sem_cnt` table with its bound.
4. Give violation runs to the heap-exhaustion panic, the create leak, the `sem_cnt` overflow and `trywait`, in place of less telling ones.
