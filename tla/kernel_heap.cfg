\* The kernel on a 10-block heap with every object one block: after main()
\* has allocated its runs (index, two console buffers, kernel_main's record,
\* the scheduler, two stacks, userMain's record) two blocks are free, so
\* creates, sem_open, sleeps, timed waits and user mem_alloc run the heap
\* dry in every order.  Two user threads, one semaphore, one sleep record,
\* timed waits of 1 tick.
CONSTANTS
    NULL = NULL
    KernelMain = km
    u1 = u1
    u2 = u2
    s1 = s1
    UserThreads = {u1, u2}
    UserMain = u1
    Semaphores = {s1}
    SleepRecords = {r1}
    DEFAULT_TIME_SLICE = 2
    SemInits = {0}
    SleepTimes = {1}
    TimedWaitTimes = {1}
    MaxSemValue = 1
    UnhandledCodes = {}
    FaultCauses = {}
    HeapBlocks = 10
    IndexBlocks = 1
    BufBlocks = 1
    ThreadBlocks = 1
    SchedBlocks = 1
    StackBlocks = 1
    SemBlocks = 1
    RecBlocks = 1
    UserSizes = {1}
    MaxHeld = 1
    PastWord = 7
SPECIFICATION HSpec
INVARIANT ObjectsBacked
INVARIANT HeapAccounted
CHECK_DEADLOCK FALSE
