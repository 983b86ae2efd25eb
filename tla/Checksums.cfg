CONSTANTS
    RollMod = 32768
    RkMod = 16384
    RABINKARP_MULT = 549
    RABINKARP_INVM = 2477
    mix32 <- MCMix32
    Bytes = {0, 1, 128, 255}
    MaxWindow = 4
    MdBlock = 4
    MdCountLen = 2
    MdCountRadix = 16
    BLAKE2B_BLOCKBYTES = 4
    BlakeCounterMod = 16
    RS_MAX_STRONG_SUM_LENGTH = 3
    Keys <- MCKeys
    MaxMessage = 36
SPECIFICATION Spec
INVARIANTS DigestOfWindow MessageIntact StrongDigest
