CONSTANTS
    MaxOut = 4
    TubeSize = 36
    Radix = 4
    MaxImmediate = 2
    RS_DELTA_MAGIC <- MCMagic
    Deltas <- MCDeltas
    Basis <- MCBasis
    CallbackFaults = {"RS_IO_ERROR"}
    SIZE_MAX <- MCSizeMax
    InBufLens = {1, 3, 20}
    OutBufLens = {1, 4}
    IoFaults = {"fread", "fwrite"}
    EofResults = {"RS_DONE", "RS_INPUT_ENDED"}
SPECIFICATION FileSpec
INVARIANTS InputBufferIntact OutputBufferIntact NewFileCorrect
PROPERTIES KeepsCallersContract DriveEnds
