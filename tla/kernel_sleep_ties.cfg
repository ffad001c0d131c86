\* Three user threads sleep for 1, 2 and 2 ticks: the third record has the
\* same deadline as the second, which is not the head of the delta list.
CONSTANTS
    NULL = NULL
    KernelMain = km
    u1 = u1
    u2 = u2
    u3 = u3
    s1 = s1
    s2 = s2
    UserThreads = {u1, u2, u3}
    UserMain = u1
    Semaphores = {}
    SleepRecords = {r1, r2, r3}
    DEFAULT_TIME_SLICE = 2
    SemInits = {}
    SleepTimes = {1, 2}
    TimedWaitTimes = {}
    MaxSemValue = 0
    UnhandledCodes = {}
    FaultCauses = {}
SPECIFICATION Spec
PROPERTY SleepTiesFifo
CHECK_DEADLOCK FALSE
