SPECIFICATION SequentialSpec
CONSTANTS
    DIGIT_COUNT = 2
    INT_BITS    = 9
    LONG_BITS   = 18
    Samples    <- MCSamples
    Limit       = 1000000000
    Address = {n1, n2, n3, n4}
    Name = {a, b}
    NULL = NULL
    MaxLength = 3
SYMMETRY AddressSymmetry
INVARIANTS Exact AnswersExact
PROPERTIES AgreesWithFileTree
CHECK_DEADLOCK FALSE
