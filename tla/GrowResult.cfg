SPECIFICATION MemoriesSpec
CONSTANTS
    Word = 16
    PageSize = 2
    Zero = Zero
    Dirty = Dirty
    Deltas <- AllWords
    MemoryLimits <- BoundedMemories
    Programs <- OneProgram
    MaxPages = 8
    Asks <- AllWords
    Limits <- MCLimits
PROPERTY GrowsAsAsked
