CONSTANTS
    BUFFER_SIZE = 2
    WireRoom = 2
    Tasks <- MCTasks
    MaxFaults = 1
SPECIFICATION Spec
INVARIANTS BuffersIntact MessagesInStep FileOldOrComplete
PROPERTY Succeeds
