SPECIFICATION FairSpec
CONSTANTS
    N = 2
    Mask <- SmallMask
    Says <- SmallSays
    Broken = {1}
    MayFail = {1}
    ProbeFails = FALSE
    Disposable = FALSE
PROPERTY Provisioned
