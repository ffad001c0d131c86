\* The console composed with the kernel: two user threads doing getc and
\* putc, thread create, exit and dispatch, the timer, the UART interrupt;
\* three characters arrive through a two-byte buffer; three are written,
\* one more than the send buffer holds, so a putc is refused and retried.
\* A time slice of 1: every tick preempts.
CONSTANTS
    NULL = NULL
    KernelMain = km
    u1 = u1
    u2 = u2
    u3 = u3
    s1 = s1
    s2 = s2
    c1 = c1
    c2 = c2
    UserThreads = {u1, u2}
    UserMain = u1
    Semaphores = {}
    SleepRecords = {}
    DEFAULT_TIME_SLICE = 1
    SemInits = {}
    SleepTimes = {}
    TimedWaitTimes = {}
    MaxSemValue = 0
    UnhandledCodes = {}
    FaultCauses = {}
    CONSOLE_BUFFER_SIZE = 2
    OutChars = {c1, c2}
    MaxInput = 3
    MaxOutput = 3
SPECIFICATION ConsoleSpec
INVARIANT ConsoleTypeOK
INVARIANT InputInOrder
INVARIANT OutputInOrder
INVARIANT ConsoleThreadsAccounted
PROPERTY InputReachesWaiters
CHECK_DEADLOCK FALSE
