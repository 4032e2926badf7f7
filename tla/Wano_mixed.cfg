SPECIFICATION Spec
CONSTANTS
    N = 3
    Mask <- MixedMask
    Says <- MixedSays
    Broken = {}
    MayFail = {}
    ProbeFails = FALSE
    Disposable = FALSE
INVARIANT Exclusive
