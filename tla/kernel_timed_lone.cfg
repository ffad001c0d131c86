\* One user thread, which times out on semaphores nobody signals: the
\* timeout path of sem_timed_wait with the waiter alone on its ring.
CONSTANTS
    NULL = NULL
    KernelMain = km
    u1 = u1
    u2 = u2
    u3 = u3
    s1 = s1
    s2 = s2
    UserThreads = {u1}
    UserMain = u1
    Semaphores = {s1, s2}
    SleepRecords = {r1, r2}
    DEFAULT_TIME_SLICE = 2
    SemInits = {0}
    SleepTimes = {1, 2}
    TimedWaitTimes = {1, 2, 3}
    MaxSemValue = 0
    UnhandledCodes = {2, 38}
    FaultCauses = {2, 5, 7}
SPECIFICATION Spec
INVARIANT SemaphoreCount
INVARIANT TimeoutsMatchWaiters
CHECK_DEADLOCK FALSE
PROPERTY TimedWaitResolves
