SPECIFICATION MemoriesSpec
CONSTANTS
    Word = 16
    PageSize = 2
    Zero = Zero
    Dirty = Dirty
    Deltas <- AllWords
    MemoryLimits <- BoundedMemories
    Programs <- MCPrograms
    MaxPages = 8
    Asks <- AllWords
    Limits <- MCLimits
INVARIANTS
    IndirectCallsTyped
    MemoryBacked
    SizesAgree
PROPERTIES
    RtMemorySpec
    GrowsUnlessWrapped
