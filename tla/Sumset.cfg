CONSTANTS
    HashBits = 4
    WeakSums = {0, 1, 2, 9, 15}
    StrongSums = {"a", "b"}
    MaxBlocks = 4
    block_len = 3
    FillWeakSums = {0, 7}
    Requests = {0, 1, 2, 4}
    MaxFill = 7
SPECIFICATION SumsetSpec
INVARIANTS ProbesEnd MatchIsFirstBlock EntriesDistinct
