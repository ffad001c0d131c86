\* sem_timed_wait on a semaphore it need not wait for leaves its timeout queued.
CONSTANTS
    NULL = NULL
    KernelMain = km
    u1 = u1
    u2 = u2
    u3 = u3
    s1 = s1
    s2 = s2
    UserThreads = {u1, u2}
    UserMain = u1
    Semaphores = {s1}
    SleepRecords = {r1, r2}
    DEFAULT_TIME_SLICE = 2
    SemInits = {0, 1}
    SleepTimes = {1, 2}
    TimedWaitTimes = {1, 2}
    MaxSemValue = 1
    UnhandledCodes = {}
    FaultCauses = {}
SPECIFICATION Spec
INVARIANT NoPanic
CHECK_DEADLOCK FALSE
