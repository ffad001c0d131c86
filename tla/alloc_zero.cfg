\* A request for zero blocks (mem_alloc(0) from user code).
CONSTANTS
    N = 8
    IndexLen = 1
    Sizes = {0, 1, 2}
    PastIndex = {7}
    FreeAnyBlock = FALSE
SPECIFICATION Spec
INVARIANT IndexConsistent
