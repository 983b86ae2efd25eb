CONSTANTS
    MaxOut = 3
    TubeSize = 12
    Radix = 16
    RollMod = 128
    RkMod = 16384
    RABINKARP_MULT = 549
    RABINKARP_INVM = 2477
    mix32 <- MCMix32
    StrongSum <- MCStrongSum
    RS_MD4_SIG_MAGIC = 54
    RS_BLAKE2_SIG_MAGIC = 55
    RS_RK_MD4_SIG_MAGIC = 70
    RS_RK_BLAKE2_SIG_MAGIC = 71
    RS_MD4_SUM_LENGTH = 4
    RS_BLAKE2_SUM_LENGTH = 8
    RS_MAX_STRONG_SUM_LENGTH = 8
    RS_DEFAULT_BLOCK_LEN = 3
    RS_DEFAULT_MIN_STRONG_LEN = 2
    Inputs <- MCInputs
    Args <- MCArgs
SPECIFICATION Spec
INVARIANT AssertionsHold
PROPERTIES ImplementsTransducer Terminates
