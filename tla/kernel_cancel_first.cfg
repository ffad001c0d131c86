\* A signal cancels the timeout at the head of a delta list of two records.
CONSTANTS
    NULL = NULL
    KernelMain = km
    u1 = u1
    u2 = u2
    u3 = u3
    s1 = s1
    s2 = s2
    UserThreads = {u1, u2, u3}
    UserMain = u1
    Semaphores = {s1}
    SleepRecords = {r1, r2}
    DEFAULT_TIME_SLICE = 2
    SemInits = {0}
    SleepTimes = {1, 2}
    TimedWaitTimes = {1, 2}
    MaxSemValue = 0
    UnhandledCodes = {}
    FaultCauses = {}
SPECIFICATION Spec
PROPERTY DeadlinesKept
CHECK_DEADLOCK FALSE
