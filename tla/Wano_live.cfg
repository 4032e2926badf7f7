SPECIFICATION FairSpec
CONSTANTS
    N = 2
    Mask <- SmallMask
    Says <- SmallSays
    Broken = {}
    MayFail = {}
    ProbeFails = FALSE
    Disposable = FALSE
PROPERTY Provisioned
PROPERTY ChainEnds
