---------------------------- MODULE InterpMemory ----------------------------
(***************************************************************************)
(* A memory of the interpreter (src/interp), as the code of modules sees   *)
(* it.  The size is kept twice, in page_limits.initial, which memory.size  *)
(* answers and imports are checked against, and in the vector of bytes,    *)
(* which loads and stores are checked against.                             *)
(***************************************************************************)
EXTENDS MemoryPages

CONSTANTS
    MaxPages,  \* WABT_MAX_PAGES
    Asks,      \* operands of memory.grow
    Limits     \* the limits the memory may have: [initial, has_max, max]

ASSUME InterpMemoryAssumption ==
    /\ MaxPages \in Nat /\ MaxPages < Word
    /\ Asks \subseteq 0..(Word - 1)
    /\ Limits \subseteq [initial : 0..MaxPages, has_max : BOOLEAN, max : 0..MaxPages]
    /\ \A limits \in Limits : limits.has_max => limits.initial <= limits.max

VARIABLES page_limits, data, pushed

memoryVars == <<page_limits, data, pushed>>

MaxPageSize == IF page_limits.has_max THEN page_limits.max ELSE MaxPages

\* Mutant: the product is compared in 32 bits.
TooLargeInWord(new_page_size) ==
    new_page_size > MaxPageSize \/ ByteSize(new_page_size) > Word - 1

TooLarge(new_page_size) ==
    new_page_size > MaxPageSize \/ new_page_size * PageSize > Word - 1

\* Mutant: the limits keep the size the memory was made with.
MemoryGrowKeepsLimits(grow_pages) ==
    LET new_page_size == (page_limits.initial + grow_pages) % Word
    IN /\ ~TooLarge(new_page_size)
       /\ data' = Resized(data, ByteSize(new_page_size) \div PageSize, Zero)
       /\ pushed' = page_limits.initial
       /\ UNCHANGED page_limits

\* The sum is of type uint32_t and wraps; the product is taken in 64 bits.
MemoryGrow(grow_pages) ==
    LET new_page_size == (page_limits.initial + grow_pages) % Word
    IN \/ /\ TooLarge(new_page_size)
          /\ pushed' = Failed
          /\ UNCHANGED <<page_limits, data>>
       \/ /\ ~TooLarge(new_page_size)
          /\ data' = Resized(data, ByteSize(new_page_size) \div PageSize, Zero)
          /\ page_limits' = [page_limits EXCEPT !.initial = new_page_size]
          /\ pushed' = page_limits.initial

MemorySize == pushed' = page_limits.initial /\ UNCHANGED <<page_limits, data>>

\* A store of one byte: a trap unless the address is inside the data.
Store(addr) ==
    /\ addr + 1 <= Len(data) * PageSize
    /\ data' = [data EXCEPT ![(addr \div PageSize) + 1] = Dirty]
    /\ UNCHANGED <<page_limits, pushed>>

\* The constructor of Memory.
MemoryInit ==
    /\ page_limits \in Limits
    /\ data = Zeros(page_limits.initial)
    /\ pushed = 0

MemoryNext ==
    \/ \E grow_pages \in Asks : MemoryGrow(grow_pages)
    \/ MemorySize
    \/ \E addr \in 0..(Word - 1) : Store(addr)

MemorySpec == MemoryInit /\ [][MemoryNext]_memoryVars

(***************************************************************************)
(* Properties                                                              *)
(***************************************************************************)
\* The two sizes agree, and neither is above the maximum: what memory.size
\* answers is what loads and stores may reach.
SizesAgree == page_limits.initial = Len(data) /\ Len(data) <= MaxPageSize

Memory == INSTANCE GrowableMemory WITH contents <- data, maximum <- MaxPageSize

\* The sum of the pages and the operand does not fit in 32 bits, and is taken
\* for a size that the memory may have.
GrowWraps ==
    \E grow_pages \in Asks :
        page_limits.initial + grow_pages >= Word /\ MemoryGrow(grow_pages)

\* The memory grows at its end, by zeros, up to its maximum, unless the new
\* size has wrapped.
GrowsUnlessWrapped ==
    Memory!Init /\ [][Memory!Grow \/ Memory!Store \/ GrowWraps]_<<data, MaxPageSize>>
=============================================================================
