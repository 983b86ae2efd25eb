CONSTANTS
    StreamLen <- MCStreamLen
    MaxRead <- MCMaxRead
    ScoopSizes <- MCScoopSizes
SPECIFICATION Spec
INVARIANTS TypeOK ScoopIntegrity PeekContiguous
PROPERTY ImplementsByteStream
