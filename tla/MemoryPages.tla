---------------------------- MODULE MemoryPages ----------------------------
(***************************************************************************)
(* The pages of a memory and the words that count them.                    *)
(***************************************************************************)
EXTENDS Naturals, Sequences

CONSTANTS
    Word,         \* 2^32: numbers of pages and of bytes are of type uint32_t
    PageSize,     \* bytes in a page
    Zero, Dirty   \* a page that is all zero, and one that is not

ASSUME MemoryPagesAssumption ==
    /\ PageSize \in Nat \ {0} /\ Word \in Nat \ {0}
    /\ Word % PageSize = 0
    /\ Zero # Dirty

Failed == Word - 1  \* -1, as a uint32_t

Zeros(n) == [i \in 1..n |-> Zero]

\* The first n pages of data, filled up with new pages of the given content.
Resized(data, n, new) == [i \in 1..n |-> IF i <= Len(data) THEN data[i] ELSE new]

\* A number of pages in bytes, computed in 32 bits.
ByteSize(pages) == (pages * PageSize) % Word
=============================================================================
