SPECIFICATION Spec
CONSTANTS
    N = 5
    Mask <- DefaultMask
    Says <- DefaultSays
    Broken = {}
    MayFail = {1}
    ProbeFails = TRUE
    Disposable = TRUE
INVARIANT TypeOK
INVARIANT Exclusive
INVARIANT NoStaleCallback
INVARIANT NeverStuck
INVARIANT UplinkTruth
CHECK_DEADLOCK FALSE
