CONSTANTS
    MaxOut = 3
    TubeSize = 36
    Radix = 4
    MaxImmediate = 1
    RS_DELTA_MAGIC <- MCMagic
    SIZE_MAX <- MCSizeMax
    RollMod = 32768
    RkMod = 16384
    RABINKARP_MULT = 549
    RABINKARP_INVM = 2477
    mix32 <- MCMix32
    Inputs <- MCInputs
    Bases <- MCBases
    BlockLen = 2
    WeakKinds = {"RS_ROLLSUM", "RS_RABINKARP"}
    MAX_DELTA_CMD = 5
SPECIFICATION Spec
INVARIANTS AssertionsHold DeltaDecodesToScanned WeakSumInSync ScanPointerValid StatisticsBalance
PROPERTIES ImplementsTransducer Terminates
