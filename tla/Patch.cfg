CONSTANTS
    MaxOut = 2
    TubeSize = 36
    Radix = 4
    MaxImmediate = 2
    RS_DELTA_MAGIC <- MCMagic
    Deltas <- MCDeltas
    Basis <- MCBasis
    CallbackFaults = {}
    SIZE_MAX <- MCSizeMax
SPECIFICATION Spec
INVARIANTS AssertionsHold StatisticsBalance
PROPERTIES ImplementsTransducer Terminates
