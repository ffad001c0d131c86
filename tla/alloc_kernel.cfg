\* A heap of 8 blocks with a one-block index; callers request 1 to 3
\* blocks and free only what they were given; the word past the index is
\* nonzero (positive).
CONSTANTS
    N = 8
    IndexLen = 1
    Sizes = {1, 2, 3}
    PastIndex = {7}
    FreeAnyBlock = FALSE
SPECIFICATION Spec
INVARIANT IndexConsistent
PROPERTY RefinesBlockSpace
