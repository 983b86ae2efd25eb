CONSTANTS
    RS_MD4_SIG_MAGIC = 310
    RS_BLAKE2_SIG_MAGIC = 311
    RS_RK_MD4_SIG_MAGIC = 326
    RS_RK_BLAKE2_SIG_MAGIC = 327
    RS_MD4_SUM_LENGTH = 16
    RS_BLAKE2_SUM_LENGTH = 32
    RS_MAX_STRONG_SUM_LENGTH = 32
    RS_DEFAULT_BLOCK_LEN = 2048
    RS_DEFAULT_MIN_STRONG_LEN = 12
    Names = {"a", "b"}
    Scenarios <- MCScenarios
SPECIFICATION Spec
INVARIANT ZeroIsSuccess
