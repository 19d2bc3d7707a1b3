--------------------------- MODULE Memories_proofs --------------------------
(***************************************************************************)
(* The memory of the interpreter and the runtime of wasm2c, for words and  *)
(* pages of any size, any programs and any requests.                       *)
(*                                                                         *)
(* The interpreter's memory: its two sizes agree, and it changes as        *)
(* GrowableMemory says unless a new size has wrapped.  That of wasm2c is   *)
(* one that grows, as long as no maximum is so large that its size in      *)
(* bytes wraps; and indirect calls tell signatures apart.                  *)
(***************************************************************************)
EXTENDS Memories, SequenceTheorems, TLAPS

-----------------------------------------------------------------------------
(* What the operators on pages return.                                       *)

LEMMA Division ==
    ASSUME NEW n \in Nat, NEW p \in Nat \ {0}
    PROVE  (n * p) \div p = n
  OBVIOUS

LEMMA QuotientBelow ==
    ASSUME NEW a \in Nat, NEW n \in Nat, NEW p \in Nat \ {0}, a < n * p
    PROVE  (a \div p) + 1 \in 1..n
  OBVIOUS

LEMMA ByteSizeOfFitting ==
    ASSUME NEW n \in Nat, n * PageSize < Word
    PROVE  ByteSize(n) \div PageSize = n
<1>1. n * PageSize \in Nat
  BY MemoryPagesAssumption
<1>2. ByteSize(n) = n * PageSize
  BY <1>1, MemoryPagesAssumption DEF ByteSize
<1> QED
  BY <1>2, Division, MemoryPagesAssumption

LEMMA ResizedData ==
    ASSUME NEW S, NEW s \in Seq(S), NEW n \in Nat, NEW new \in S
    PROVE  /\ Resized(s, n, new) \in Seq(S)
           /\ Len(Resized(s, n, new)) = n
  BY DEF Resized

-----------------------------------------------------------------------------
(* The inductive invariant says beside SizesAgree what the values are, and   *)
(* that the limits are those that a memory may have.                         *)
LimitsKept ==
    /\ page_limits \in [initial : Nat, has_max : BOOLEAN, max : Nat]
    /\ MaxPageSize \in 0..MaxPages

Inv ==
    /\ LimitsKept
    /\ data \in Seq({Zero, Dirty})
    /\ SizesAgree

LEMMA InitInv == MemoryInit => Inv
<1> SUFFICES ASSUME MemoryInit PROVE Inv
  OBVIOUS
<1> USE InterpMemoryAssumption, MemoryPagesAssumption DEF MemoryInit
<1>1. page_limits \in [initial : 0..MaxPages, has_max : BOOLEAN, max : 0..MaxPages]
  OBVIOUS
<1>2. LimitsKept
  BY <1>1 DEF LimitsKept, MaxPageSize
<1>3. page_limits.initial <= MaxPageSize
  BY <1>1 DEF MaxPageSize
<1>4. data \in Seq({Zero, Dirty}) /\ Len(data) = page_limits.initial
  BY <1>1 DEF Zeros
<1> QED
  BY <1>2, <1>3, <1>4 DEF Inv, SizesAgree

(* A size that is not too large is one that the data can be given.           *)
LEMMA GrownData ==
    ASSUME Inv, NEW n \in Nat, ~TooLarge(n)
    PROVE  LET grown == Resized(data, ByteSize(n) \div PageSize, Zero)
           IN /\ grown = Resized(data, n, Zero)
              /\ grown \in Seq({Zero, Dirty})
              /\ Len(grown) = n
              /\ n <= MaxPageSize
<1>1. n <= MaxPageSize /\ n * PageSize <= Word - 1
  <2>1. n * PageSize \in Nat /\ Word \in Nat /\ MaxPageSize \in Nat
    BY InterpMemoryAssumption, MemoryPagesAssumption DEF Inv, LimitsKept
  <2> QED
    BY <2>1 DEF TooLarge
<1>2. ByteSize(n) \div PageSize = n
  <2>1. n * PageSize < Word
    BY <1>1, MemoryPagesAssumption
  <2> QED
    BY <2>1, ByteSizeOfFitting
<1> QED
  BY <1>1, <1>2, ResizedData DEF Inv

LEMMA MemoryGrowInv ==
    ASSUME Inv, NEW grow_pages \in Asks, MemoryGrow(grow_pages)
    PROVE  Inv'
<1> DEFINE n == (page_limits.initial + grow_pages) % Word
<1>1. n \in Nat
  BY InterpMemoryAssumption, MemoryPagesAssumption DEF Inv, LimitsKept
<1>2. CASE TooLarge(n)
  BY <1>2 DEF MemoryGrow, Inv, LimitsKept, MaxPageSize, SizesAgree
<1>3. CASE ~TooLarge(n)
  <2> HIDE DEF n
  <2>1. /\ data' = Resized(data, ByteSize(n) \div PageSize, Zero)
        /\ page_limits' = [page_limits EXCEPT !.initial = n]
    BY <1>3 DEF MemoryGrow, n
  <2>2. /\ data' \in Seq({Zero, Dirty}) /\ Len(data') = n /\ n <= MaxPageSize
    BY <1>1, <1>3, <2>1, GrownData
  <2>3. MaxPageSize' = MaxPageSize
    BY <2>1 DEF MaxPageSize, Inv, LimitsKept
  <2> QED
    BY <1>1, <2>1, <2>2, <2>3 DEF Inv, LimitsKept, SizesAgree
<1> QED
  BY <1>2, <1>3

(* A store that is let through is to a page that there is.                   *)
LEMMA StoredData ==
    ASSUME Inv, NEW addr \in 0..(Word - 1), Store(addr)
    PROVE  /\ \E p \in DOMAIN data : data' = [data EXCEPT ![p] = Dirty]
           /\ data' \in Seq({Zero, Dirty})
           /\ Len(data') = Len(data)
<1> DEFINE p == (addr \div PageSize) + 1
<1>1. data \in Seq({Zero, Dirty}) /\ Len(data) \in Nat
  BY DEF Inv
<1>2. addr \in Nat /\ addr < Len(data) * PageSize
  <2>1. addr \in Nat /\ Len(data) * PageSize \in Nat
    BY <1>1, MemoryPagesAssumption
  <2> QED
    BY <2>1 DEF Store
<1>3. p \in 1..Len(data)
  BY <1>1, <1>2, QuotientBelow, MemoryPagesAssumption
<1>4. data' = [data EXCEPT ![p] = Dirty]
  BY DEF Store
<1> HIDE DEF p
<1>5. p \in DOMAIN data
  BY <1>1, <1>3
<1>6. data' \in Seq({Zero, Dirty}) /\ Len(data') = Len(data)
  BY <1>1, <1>3, <1>4, ExceptSeq
<1> QED
  BY <1>4, <1>5, <1>6

LEMMA StoreInv ==
    ASSUME Inv, NEW addr \in 0..(Word - 1), Store(addr)
    PROVE  Inv'
<1>1. data' \in Seq({Zero, Dirty}) /\ Len(data') = Len(data)
  BY StoredData
<1> QED
  BY <1>1 DEF Store, Inv, LimitsKept, MaxPageSize, SizesAgree

LEMMA NextInv == Inv /\ [MemoryNext]_memoryVars => Inv'
<1> SUFFICES ASSUME Inv, [MemoryNext]_memoryVars PROVE Inv'
  OBVIOUS
<1>1. CASE \E grow_pages \in Asks : MemoryGrow(grow_pages)
  BY <1>1, MemoryGrowInv
<1>2. CASE MemorySize
  BY <1>2 DEF MemorySize, Inv, LimitsKept, MaxPageSize, SizesAgree
<1>3. CASE \E addr \in 0..(Word - 1) : Store(addr)
  BY <1>3, StoreInv
<1>4. CASE UNCHANGED memoryVars
  BY <1>4 DEF memoryVars, Inv, LimitsKept, MaxPageSize, SizesAgree
<1> QED
  BY <1>1, <1>2, <1>3, <1>4 DEF MemoryNext

(* Whatever numbers of pages are asked for, also those that wrap, the size   *)
(* that memory.size answers and imports are checked against is that of the   *)
(* data, and not above the maximum.                                          *)
THEOREM SizesAlwaysAgree == MemorySpec => []SizesAgree
<1>1. Inv => SizesAgree
  BY DEF Inv
<1> QED
  BY InitInv, NextInv, <1>1, PTL DEF MemorySpec

-----------------------------------------------------------------------------
(* The data is given more pages, and they are zero.                          *)
LEMMA ResizedAppendsZeros ==
    ASSUME NEW s \in Seq({Zero, Dirty}), NEW k \in Nat
    PROVE  Resized(s, Len(s) + k, Zero) = s \o Zeros(k)
  BY DEF Resized, Zeros

LEMMA MemoryGrowSteps ==
    ASSUME Inv, NEW grow_pages \in Asks, MemoryGrow(grow_pages),
           page_limits.initial + grow_pages < Word
    PROVE  Memory!Grow \/ UNCHANGED <<data, MaxPageSize>>
<1> DEFINE n == (page_limits.initial + grow_pages) % Word
<1>1. /\ page_limits.initial = Len(data) /\ Len(data) \in Nat
      /\ grow_pages \in Nat /\ data \in Seq({Zero, Dirty})
  BY InterpMemoryAssumption, MemoryPagesAssumption DEF Inv, SizesAgree
<1>2. n = Len(data) + grow_pages
  BY <1>1, MemoryPagesAssumption
<1> HIDE DEF n
<1>3. CASE TooLarge(n)
  BY <1>3 DEF MemoryGrow, MaxPageSize, n
<1>4. CASE ~TooLarge(n)
  <2>1. /\ data' = Resized(data, ByteSize(n) \div PageSize, Zero)
        /\ page_limits' = [page_limits EXCEPT !.initial = n]
    BY <1>4 DEF MemoryGrow, n
  <2>2. MaxPageSize' = MaxPageSize
    BY <2>1 DEF MaxPageSize, Inv, LimitsKept
  <2>3. data' = data \o Zeros(grow_pages) /\ n <= MaxPageSize
    <3>1. n \in Nat
      BY <1>1, <1>2
    <3>2. data' = Resized(data, n, Zero) /\ n <= MaxPageSize
      BY <1>4, <2>1, <3>1, GrownData
    <3> QED
      BY <1>1, <1>2, <3>2, ResizedAppendsZeros
  <2>4. CASE grow_pages = 0
    <3>1. data \o Zeros(0) = data
      BY <1>1 DEF Zeros
    <3> QED
      BY <2>2, <2>3, <2>4, <3>1
  <2>5. CASE grow_pages # 0
    <3>1. grow_pages \in 1..(MaxPageSize - Len(data))
      BY <1>1, <1>2, <2>3, <2>5, InterpMemoryAssumption DEF Inv, LimitsKept
    <3> QED
      BY <2>2, <2>3, <3>1 DEF Memory!Grow, Memory!Zeros, Zeros
  <2> QED
    BY <2>4, <2>5
<1> QED
  BY <1>3, <1>4

LEMMA NextSteps ==
    ASSUME Inv, [MemoryNext]_memoryVars
    PROVE  [Memory!Grow \/ Memory!Store \/ GrowWraps]_<<data, MaxPageSize>>
<1>1. ASSUME NEW grow_pages \in Asks, MemoryGrow(grow_pages)
      PROVE  Memory!Grow \/ GrowWraps \/ UNCHANGED <<data, MaxPageSize>>
  <2>1. CASE page_limits.initial + grow_pages >= Word
    BY <1>1, <2>1 DEF GrowWraps
  <2>2. CASE page_limits.initial + grow_pages < Word
    BY <1>1, <2>2, MemoryGrowSteps
  <2>3. page_limits.initial + grow_pages \in Nat /\ Word \in Nat
    BY InterpMemoryAssumption, MemoryPagesAssumption DEF Inv, LimitsKept
  <2> QED
    BY <2>1, <2>2, <2>3
<1>2. CASE MemorySize
  BY <1>2 DEF MemorySize, MaxPageSize
<1>3. ASSUME NEW addr \in 0..(Word - 1), Store(addr)
      PROVE  Memory!Store
  <2>1. UNCHANGED MaxPageSize
    BY <1>3 DEF Store, MaxPageSize
  <2> QED
    BY <1>3, <2>1, StoredData DEF Memory!Store
<1>4. CASE UNCHANGED memoryVars
  BY <1>4 DEF memoryVars, MaxPageSize
<1> QED
  BY <1>1, <1>2, <1>3, <1>4 DEF MemoryNext

(* A memory that the code of modules stores to and asks to grow loses none   *)
(* of its pages and gains only pages of zeros, up to its maximum, but for    *)
(* the steps whose new size wraps.                                           *)
THEOREM AlwaysGrowsUnlessWrapped == MemorySpec => GrowsUnlessWrapped
<1>1. ASSUME MemoryInit PROVE Memory!Init
  <2>1. data = Zeros(page_limits.initial) /\ page_limits.initial \in Nat
    BY <1>1, InterpMemoryAssumption DEF MemoryInit
  <2>2. data = Zeros(Len(data))
    BY <2>1 DEF Zeros
  <2>3. Len(data) <= MaxPageSize
    BY <1>1, InitInv DEF Inv, SizesAgree
  <2> QED
    BY <2>2, <2>3 DEF Memory!Init, Memory!Zeros, Zeros
<1> QED
  BY <1>1, InitInv, NextInv, NextSteps, PTL DEF MemorySpec, GrowsUnlessWrapped

-----------------------------------------------------------------------------
(* Memory.                                                                   *)

\* Fewer than 65536 pages.
SmallMaxima == \A limits \in MemoryLimits : limits.max_pages * PageSize < Word

MemoryInv ==
    /\ rt_memory \in [pages : Nat, max_pages : Nat, size : Nat, data : Seq({Zero, Dirty})]
    /\ rt_memory.pages <= rt_memory.max_pages
    /\ rt_memory.max_pages * PageSize < Word
    /\ rt_memory.size = rt_memory.pages * PageSize
    /\ Len(rt_memory.data) = rt_memory.pages

LEMMA Monotonic ==
    ASSUME NEW a \in Nat, NEW b \in Nat, a <= b, NEW p \in Nat
    PROVE  a * p <= b * p
  OBVIOUS

\* The sizes of a memory that is within a small maximum do not wrap.
LEMMA SmallSizes ==
    ASSUME NEW n \in Nat, NEW max \in Nat, n <= max, max * PageSize < Word
    PROVE  ByteSize(n) = n * PageSize /\ ByteSize(n) \div PageSize = n
<1>1. n * PageSize \in Nat /\ max * PageSize \in Nat
  BY MemoryPagesAssumption
<1>2. n * PageSize < Word
  BY <1>1, Monotonic, MemoryPagesAssumption
<1> QED
  BY <1>1, <1>2, ByteSizeOfFitting, MemoryPagesAssumption DEF ByteSize

\* A sum of two words, in a word, is not below the first unless it wraps.
LEMMA SumInWord ==
    ASSUME NEW a \in 0..(Word - 1), NEW b \in 0..(Word - 1), (a + b) % Word >= a
    PROVE  (a + b) % Word = a + b
<1>1. CASE a + b < Word
  BY <1>1, MemoryPagesAssumption
<1>2. CASE a + b >= Word
  <2>1. (a + b) % Word = a + b - Word
    BY <1>2, MemoryPagesAssumption
  <2> QED
    BY <2>1, MemoryPagesAssumption
<1> QED
  BY <1>1, <1>2, MemoryPagesAssumption

\* An update of fields with the values they have.
LEMMA SameFields ==
    ASSUME MemoryInv, NEW pages, NEW size, NEW bytes,
           pages = rt_memory.pages, size = rt_memory.size, bytes = rt_memory.data
    PROVE  [rt_memory EXCEPT !.pages = pages, !.size = size, !.data = bytes] = rt_memory
  BY DEF MemoryInv

LEMMA RtInitMemory == SmallMaxima /\ RtInit => MemoryInv
<1> SUFFICES ASSUME SmallMaxima, RtInit PROVE MemoryInv
  OBVIOUS
<1>1. PICK limits \in MemoryLimits : rt_memory = AllocateMemory(limits)
  BY DEF RtInit
<1>2. /\ limits.initial \in Nat /\ limits.max_pages \in Nat
      /\ limits.initial <= limits.max_pages /\ limits.max_pages * PageSize < Word
  BY RtAssumption DEF SmallMaxima
<1>3. /\ ByteSize(limits.initial) = limits.initial * PageSize
      /\ ByteSize(limits.initial) \div PageSize = limits.initial
  BY <1>2, SmallSizes
<1>4. rt_memory = [pages |-> limits.initial, max_pages |-> limits.max_pages,
                   size |-> limits.initial * PageSize, data |-> Zeros(limits.initial)]
  BY <1>1, <1>3 DEF AllocateMemory
<1>5. Zeros(limits.initial) \in Seq({Zero, Dirty}) /\ Len(Zeros(limits.initial)) = limits.initial
  BY <1>2 DEF Zeros
<1>6. limits.initial * PageSize \in Nat
  BY <1>2, MemoryPagesAssumption
<1> QED
  BY <1>2, <1>4, <1>5, <1>6 DEF MemoryInv

\* What realloc adds is cleared, all of it and nothing else.
LEMMA ClearedGrown ==
    ASSUME NEW s \in Seq({Zero, Dirty}), NEW k \in Nat
    PROVE  Memset(Resized(s, Len(s) + k, Garbage), Len(s), k) = s \o Zeros(k)
  BY DEF Memset, Resized, Zeros

LEMMA GrowMemorySteps ==
    ASSUME MemoryInv, NEW delta \in Deltas, GrowMemory(delta)
    PROVE  \/ UNCHANGED rt_memory
           \/ /\ delta \in 1..(rt_memory.max_pages - rt_memory.pages)
              /\ rt_memory' = [rt_memory EXCEPT
                     !.pages = rt_memory.pages + delta,
                     !.size = (rt_memory.pages + delta) * PageSize,
                     !.data = rt_memory.data \o Zeros(delta)]
<1> DEFINE old_pages == rt_memory.pages
           new_pages == (old_pages + delta) % Word
           new_size == ByteSize(new_pages)
<1>1. /\ old_pages \in Nat /\ rt_memory.max_pages \in Nat
      /\ old_pages <= rt_memory.max_pages /\ rt_memory.max_pages * PageSize < Word
      /\ delta \in 0..(Word - 1) /\ rt_memory.data \in Seq({Zero, Dirty})
      /\ Len(rt_memory.data) = old_pages
      /\ PageSize \in Nat \ {0} /\ Word \in Nat \ {0}
  BY RtAssumption, MemoryPagesAssumption DEF MemoryInv
<1>2. CASE new_pages = 0 \/ ~Fits(new_pages, old_pages)
  BY <1>2 DEF GrowMemory
<1>3. CASE new_pages # 0 /\ Fits(new_pages, old_pages)
  <2>1. rt_memory.max_pages < Word
    BY <1>1, Monotonic
  <2>2. new_pages = old_pages + delta /\ new_pages \in Nat
    <3>1. old_pages \in 0..(Word - 1) /\ (old_pages + delta) % Word >= old_pages
      BY <1>1, <1>3, <2>1 DEF Fits
    <3>2. (old_pages + delta) % Word = old_pages + delta
      BY <1>1, <3>1, SumInWord
    <3>3. new_pages = old_pages + delta
      BY <3>2
    <3>4. old_pages + delta \in Nat
      BY <1>1
    <3> HIDE DEF new_pages
    <3> QED
      BY <3>3, <3>4
  <2> HIDE DEF new_pages
  <2>3. new_pages \in Nat \ {0} /\ new_pages <= rt_memory.max_pages /\ delta \in Nat
        /\ delta <= rt_memory.max_pages
    BY <1>1, <1>3, <2>2 DEF Fits
  <2>4. /\ new_size = new_pages * PageSize /\ new_size \div PageSize = new_pages
        /\ ByteSize(old_pages) \div PageSize = old_pages
        /\ ByteSize(delta) \div PageSize = delta
    BY <1>1, <2>3, SmallSizes
  <2>5. new_size # 0
    BY <1>1, <2>3, <2>4
  <2>6. \/ UNCHANGED rt_memory
        \/ rt_memory' = [rt_memory EXCEPT !.pages = new_pages, !.size = new_size,
               !.data = Cleared(Resized(rt_memory.data, new_size \div PageSize, Garbage),
                                old_pages, delta)]
    BY <1>3, <2>5 DEF GrowMemory, new_pages
  <2>7. Cleared(Resized(rt_memory.data, new_size \div PageSize, Garbage), old_pages, delta)
          = rt_memory.data \o Zeros(delta)
    <3>1. Resized(rt_memory.data, new_size \div PageSize, Garbage)
            = Resized(rt_memory.data, Len(rt_memory.data) + delta, Garbage)
      BY <1>1, <2>2, <2>4
    <3> QED
      BY <1>1, <2>3, <2>4, <3>1, ClearedGrown DEF Cleared
  <2>8. CASE delta = 0
    <3>1. rt_memory.data \o Zeros(0) = rt_memory.data
      BY <1>1 DEF Zeros
    <3>2. new_pages = rt_memory.pages /\ new_size = rt_memory.size
      BY <1>1, <2>2, <2>4, <2>8 DEF MemoryInv
    <3>3. rt_memory.data \o Zeros(delta) = rt_memory.data
      BY <2>8, <3>1
    <3> HIDE DEF new_size, old_pages
    <3>4. CASE rt_memory' = [rt_memory EXCEPT !.pages = new_pages, !.size = new_size,
               !.data = rt_memory.data \o Zeros(delta)]
      <4>1. [rt_memory EXCEPT !.pages = new_pages, !.size = new_size,
               !.data = rt_memory.data \o Zeros(delta)] = rt_memory
        BY <3>2, <3>3, SameFields
      <4> QED
        BY <3>4, <4>1
    <3> QED
      BY <2>6, <2>7, <3>4
  <2>9. CASE delta # 0
    <3>1. delta \in 1..(rt_memory.max_pages - rt_memory.pages)
      BY <1>1, <2>2, <2>3, <2>9
    <3> QED
      BY <2>2, <2>4, <2>6, <2>7, <3>1
  <2> QED
    BY <2>8, <2>9
<1> QED
  BY <1>2, <1>3

LEMMA GrowMemoryInv ==
    ASSUME MemoryInv, NEW delta \in Deltas, GrowMemory(delta)
    PROVE  MemoryInv'
<1>1. CASE UNCHANGED rt_memory
  BY <1>1 DEF MemoryInv
<1>2. CASE /\ delta \in 1..(rt_memory.max_pages - rt_memory.pages)
           /\ rt_memory' = [rt_memory EXCEPT
                  !.pages = rt_memory.pages + delta,
                  !.size = (rt_memory.pages + delta) * PageSize,
                  !.data = rt_memory.data \o Zeros(delta)]
  <2>1. /\ delta \in Nat /\ rt_memory.pages + delta \in Nat
        /\ rt_memory.pages + delta <= rt_memory.max_pages
    BY <1>2 DEF MemoryInv
  <2>2. /\ rt_memory.data \o Zeros(delta) \in Seq({Zero, Dirty})
        /\ Len(rt_memory.data \o Zeros(delta)) = rt_memory.pages + delta
    BY <2>1 DEF MemoryInv, Zeros
  <2>3. (rt_memory.pages + delta) * PageSize \in Nat
    BY <2>1, MemoryPagesAssumption
  <2> QED
    BY <1>2, <2>1, <2>2, <2>3 DEF MemoryInv
<1> QED
  BY <1>1, <1>2, GrowMemorySteps

\* A store that is let through is to a page that there is.
LEMMA StoreByteSteps ==
    ASSUME MemoryInv, NEW addr \in 0..(Word - 1), StoreByte(addr)
    PROVE  \E p \in DOMAIN rt_memory.data :
              rt_memory' = [rt_memory EXCEPT !.data = [rt_memory.data EXCEPT ![p] = Dirty]]
<1> DEFINE p == (addr \div PageSize) + 1
<1>1. addr \in Nat /\ rt_memory.pages \in Nat /\ addr < rt_memory.pages * PageSize
  <2>1. addr \in Nat /\ rt_memory.pages * PageSize \in Nat
    BY MemoryPagesAssumption DEF MemoryInv
  <2> QED
    BY <2>1 DEF StoreByte, MemoryInv
<1>2. p \in 1..rt_memory.pages
  BY <1>1, QuotientBelow, MemoryPagesAssumption
<1>3. rt_memory' = [rt_memory EXCEPT !.data = [rt_memory.data EXCEPT ![p] = Dirty]]
  BY DEF StoreByte, MemoryInv
<1> HIDE DEF p
<1>4. p \in DOMAIN rt_memory.data
  BY <1>2 DEF MemoryInv
<1> QED
  BY <1>3, <1>4, Zenon

LEMMA StoreByteInv ==
    ASSUME MemoryInv, NEW addr \in 0..(Word - 1), StoreByte(addr)
    PROVE  MemoryInv'
<1>1. PICK p \in DOMAIN rt_memory.data :
          rt_memory' = [rt_memory EXCEPT !.data = [rt_memory.data EXCEPT ![p] = Dirty]]
  BY StoreByteSteps
<1>2. rt_memory.data \in Seq({Zero, Dirty}) /\ p \in 1..Len(rt_memory.data)
  BY DEF MemoryInv
<1>3. /\ [rt_memory.data EXCEPT ![p] = Dirty] \in Seq({Zero, Dirty})
      /\ Len([rt_memory.data EXCEPT ![p] = Dirty]) = Len(rt_memory.data)
  BY <1>2, ExceptSeq
<1> QED
  BY <1>1, <1>3 DEF MemoryInv

LEMMA NextMemory == MemoryInv /\ [RtNext]_rtVars => MemoryInv'
<1> SUFFICES ASSUME MemoryInv, [RtNext]_rtVars PROVE MemoryInv'
  OBVIOUS
<1>1. CASE \E m \in DOMAIN program : RegisterFuncType(m) \/ InitTable(m)
  BY <1>1 DEF RegisterFuncType, InitTable, MemoryInv
<1>2. CASE \E delta \in Deltas : GrowMemory(delta)
  BY <1>2, GrowMemoryInv
<1>3. CASE \E addr \in 0..(Word - 1) : StoreByte(addr)
  BY <1>3, StoreByteInv
<1>4. CASE UNCHANGED rtVars
  BY <1>4 DEF rtVars, MemoryInv
<1> QED
  BY <1>1, <1>2, <1>3, <1>4 DEF RtNext

(* Whatever is asked for and whenever realloc fails, every byte below the    *)
(* size that a load or store is checked against is one of the pages.         *)
THEOREM MemoryAlwaysBacked == SmallMaxima => (RtSpec => []MemoryBacked)
<1> SUFFICES ASSUME SmallMaxima PROVE RtSpec => []MemoryBacked
  OBVIOUS
<1>1. RtInit => MemoryInv
  BY RtInitMemory
<1>2. MemoryInv => MemoryBacked
  BY DEF MemoryInv, MemoryBacked
<1> QED
  BY <1>1, <1>2, NextMemory, PTL DEF RtSpec

-----------------------------------------------------------------------------
\* What the module sees of its memory is all of the data.
LEMMA AllOfTheData ==
    MemoryInv => SubSeq(rt_memory.data, 1, rt_memory.pages) = rt_memory.data
  BY DEF MemoryInv

LEMMA NextMemorySteps ==
    ASSUME MemoryInv, MemoryInv', [RtNext]_rtVars
    PROVE  [RtMemory!Grow \/ RtMemory!Store]_<<SubSeq(rt_memory.data, 1, rt_memory.pages),
                                               rt_memory.max_pages>>
<1>1. /\ SubSeq(rt_memory.data, 1, rt_memory.pages) = rt_memory.data
      /\ SubSeq(rt_memory.data, 1, rt_memory.pages)' = rt_memory'.data
  BY AllOfTheData DEF MemoryInv
<1>2. CASE UNCHANGED rt_memory
  BY <1>2
<1>3. ASSUME NEW delta \in Deltas, GrowMemory(delta), ~UNCHANGED rt_memory
      PROVE  RtMemory!Grow
  <2>1. /\ delta \in 1..(rt_memory.max_pages - rt_memory.pages)
        /\ rt_memory'.data = rt_memory.data \o Zeros(delta)
        /\ rt_memory'.max_pages = rt_memory.max_pages
    BY <1>3, GrowMemorySteps DEF MemoryInv
  <2>2. Len(rt_memory.data) = rt_memory.pages
    BY DEF MemoryInv
  <2> QED
    BY <1>1, <2>1, <2>2 DEF RtMemory!Grow, RtMemory!Zeros, Zeros
<1>4. ASSUME NEW addr \in 0..(Word - 1), StoreByte(addr)
      PROVE  RtMemory!Store
  <2>1. PICK p \in DOMAIN rt_memory.data :
            rt_memory' = [rt_memory EXCEPT !.data = [rt_memory.data EXCEPT ![p] = Dirty]]
    BY <1>4, StoreByteSteps
  <2>2. /\ rt_memory'.data = [rt_memory.data EXCEPT ![p] = Dirty]
        /\ rt_memory'.max_pages = rt_memory.max_pages
    BY <2>1 DEF MemoryInv
  <2> QED
    BY <1>1, <2>2 DEF RtMemory!Store
<1>5. CASE \E m \in DOMAIN program : RegisterFuncType(m) \/ InitTable(m)
  BY <1>2, <1>5 DEF RegisterFuncType, InitTable
<1>6. CASE UNCHANGED rtVars
  BY <1>2, <1>6 DEF rtVars
<1> QED
  BY <1>2, <1>3, <1>4, <1>5, <1>6 DEF RtNext

(* The memory of a module that wasm2c has compiled implements one that grows *)
(* at its end by pages of zeros and loses nothing.                           *)
THEOREM MemoryAlwaysGrows == SmallMaxima => (RtSpec => RtMemorySpec)
<1> SUFFICES ASSUME SmallMaxima PROVE RtSpec => RtMemorySpec
  OBVIOUS
<1>1. RtInit => MemoryInv
  BY RtInitMemory
<1>2. ASSUME RtInit PROVE RtMemory!Init
  <2>1. PICK limits \in MemoryLimits : rt_memory = AllocateMemory(limits)
    BY <1>2 DEF RtInit
  <2>2. rt_memory.data = Zeros(ByteSize(limits.initial) \div PageSize)
    BY <2>1 DEF AllocateMemory
  <2>3. Len(rt_memory.data) = rt_memory.pages /\ rt_memory.pages <= rt_memory.max_pages
        /\ rt_memory.pages \in Nat
    BY <1>1, <1>2 DEF MemoryInv
  <2>4. rt_memory.data = Zeros(Len(rt_memory.data))
    <3>1. /\ limits.initial \in Nat /\ limits.max_pages \in Nat
          /\ limits.initial <= limits.max_pages /\ limits.max_pages * PageSize < Word
      BY RtAssumption DEF SmallMaxima
    <3>2. ByteSize(limits.initial) \div PageSize = limits.initial
      BY <3>1, SmallSizes
    <3> QED
      BY <2>2, <3>1, <3>2 DEF Zeros
  <2>5. SubSeq(rt_memory.data, 1, rt_memory.pages) = rt_memory.data
    BY <1>1, <1>2, AllOfTheData
  <2> QED
    BY <2>3, <2>4, <2>5 DEF RtMemory!Init, RtMemory!Zeros, Zeros
<1> QED
  BY <1>1, <1>2, NextMemory, NextMemorySteps, PTL DEF RtSpec, RtMemorySpec, RtMemory!Spec

-----------------------------------------------------------------------------
(* Function types.                                                           *)

\* A signature is registered once, and an index is that of a signature.
TypesInv ==
    /\ program \in Programs
    /\ g_func_types \in Seq(Signatures(program))
    /\ \A i, j \in DOMAIN g_func_types : g_func_types[i] = g_func_types[j] => i = j
    /\ func_types \in [DOMAIN program -> Seq(Nat)]
    /\ \A m \in DOMAIN program : \A t \in DOMAIN func_types[m] :
          /\ t \in DOMAIN program[m].types
          /\ func_types[m][t] \in DOMAIN g_func_types
          /\ g_func_types[func_types[m][t]] = program[m].types[t]
    /\ DOMAIN table = DOMAIN program
    /\ \A m \in DOMAIN program :
          /\ DOMAIN table[m] = DOMAIN program[m].elems
          /\ \A i \in DOMAIN table[m] :
                \/ table[m][i] = NoElem
                \/ \E f \in DOMAIN g_func_types :
                      table[m][i] = [func_type |-> f, func |-> <<g_func_types[f]>>]

LEMMA RtInitTypes == RtInit => TypesInv
<1> SUFFICES ASSUME RtInit PROVE TypesInv
  OBVIOUS
<1>1. /\ program \in Programs /\ g_func_types = <<>>
      /\ func_types = [m \in DOMAIN program |-> <<>>]
      /\ table = [m \in DOMAIN program |-> [i \in DOMAIN program[m].elems |-> NoElem]]
  BY DEF RtInit
<1> QED
  BY <1>1 DEF TypesInv

\* The type that init_func_types registers next.
LEMMA NextType ==
    ASSUME TypesInv, NEW m \in DOMAIN program, ~Initialized(m)
    PROVE  /\ Len(func_types[m]) + 1 \in DOMAIN program[m].types
           /\ program[m].types[Len(func_types[m]) + 1] \in Signatures(program)
<1>1. program[m].types \in Seq(Signatures(program))
  BY RtAssumption DEF TypesInv
<1>2. func_types[m] \in Seq(Nat)
  BY DEF TypesInv
<1>3. \A t \in 1..Len(func_types[m]) : t \in 1..Len(program[m].types)
  BY <1>1, <1>2, SMTT(30) DEF TypesInv
<1>4. Len(func_types[m]) <= Len(program[m].types)
  BY <1>1, <1>2, <1>3
<1>5. Len(func_types[m]) + 1 \in 1..Len(program[m].types)
  BY <1>1, <1>2, <1>4 DEF Initialized
<1> QED
  BY <1>1, <1>5

\* Module m is given an index f of its next type: one that was registered,
\* or that of a signature that no registered one equals.
LEMMA RegisteredIndex ==
    ASSUME TypesInv, NEW m \in DOMAIN program, RegisterFuncType(m),
           NEW type, type = program[m].types[Len(func_types[m]) + 1]
    PROVE  \E f \in Nat :
              /\ func_types' = [func_types EXCEPT ![m] = Append(@, f)]
              /\ \/ /\ f \in DOMAIN g_func_types /\ g_func_types[f] = type
                    /\ UNCHANGED g_func_types
                 \/ /\ g_func_types' = Append(g_func_types, type)
                    /\ f = Len(g_func_types) + 1
                    /\ \A i \in DOMAIN g_func_types : g_func_types[i] # type
<1> DEFINE same == {i \in DOMAIN g_func_types : Equal(g_func_types[i], type)}
<1>1. ~Initialized(m)
  BY DEF RegisterFuncType
<1>2. type \in Signatures(program)
  BY <1>1, NextType
<1>3. g_func_types \in Seq(Signatures(program))
  BY DEF TypesInv
<1>4. \A a, b \in Signatures(program) : Equal(a, b) <=> a = b
  BY RtAssumption DEF TypesInv, Equal
<1>5. \A i \in DOMAIN g_func_types : g_func_types[i] \in Signatures(program)
  BY <1>3
<1>6. same = {i \in DOMAIN g_func_types : g_func_types[i] = type}
  BY <1>2, <1>4, <1>5
<1>7. CASE same # {}
  <2>1. PICK f \in DOMAIN g_func_types : g_func_types[f] = type
    BY <1>6, <1>7
  <2>2. same = {f} /\ f \in Nat
    BY <1>3, <1>6, <2>1 DEF TypesInv
  <2>3. Min({f}) = f
    BY <2>2 DEF Min
  <2>4. func_types' = [func_types EXCEPT ![m] = Append(@, Min(same))] /\ UNCHANGED g_func_types
    BY <1>7 DEF RegisterFuncType
  <2> QED
    BY <2>1, <2>2, <2>3, <2>4
<1>8. CASE same = {}
  <2>1. /\ g_func_types' = Append(g_func_types, type)
        /\ func_types' = [func_types EXCEPT ![m] = Append(@, Len(g_func_types'))]
    BY <1>8 DEF RegisterFuncType
  <2>2. Len(g_func_types') = Len(g_func_types) + 1 /\ Len(g_func_types) + 1 \in Nat
    BY <1>2, <1>3, <2>1
  <2>3. \A i \in DOMAIN g_func_types : g_func_types[i] # type
    BY <1>6, <1>8
  <2> QED
    BY <2>1, <2>2, <2>3
<1> QED
  BY <1>7, <1>8

LEMMA RegisterTypes ==
    ASSUME TypesInv, NEW m \in DOMAIN program, RegisterFuncType(m)
    PROVE  TypesInv'
<1> DEFINE k == Len(func_types[m]) + 1
           type == program[m].types[k]
<1>1. k \in DOMAIN program[m].types /\ type \in Signatures(program)
  BY NextType DEF RegisterFuncType
<1> HIDE DEF type
<1>2. PICK f \in Nat :
          /\ func_types' = [func_types EXCEPT ![m] = Append(@, f)]
          /\ \/ /\ f \in DOMAIN g_func_types /\ g_func_types[f] = type
                /\ UNCHANGED g_func_types
             \/ /\ g_func_types' = Append(g_func_types, type)
                /\ f = Len(g_func_types) + 1
                /\ \A i \in DOMAIN g_func_types : g_func_types[i] # type
  BY RegisteredIndex DEF type
<1>3. UNCHANGED <<program, table>>
  BY DEF RegisterFuncType
<1>4. /\ g_func_types' \in Seq(Signatures(program))
      /\ f \in DOMAIN g_func_types' /\ g_func_types'[f] = type
      /\ \A i \in DOMAIN g_func_types :
            i \in DOMAIN g_func_types' /\ g_func_types'[i] = g_func_types[i]
  <2>1. g_func_types \in Seq(Signatures(program))
    BY DEF TypesInv
  <2>2. CASE f \in DOMAIN g_func_types /\ g_func_types[f] = type /\ UNCHANGED g_func_types
    BY <2>1, <2>2
  <2>3. CASE g_func_types' = Append(g_func_types, type) /\ f = Len(g_func_types) + 1
    BY <1>1, <2>1, <2>3
  <2> QED
    BY <1>2, <2>2, <2>3
<1>5. \A i, j \in DOMAIN g_func_types' : g_func_types'[i] = g_func_types'[j] => i = j
  <2>1. CASE UNCHANGED g_func_types
    BY <2>1 DEF TypesInv
  <2>2. CASE /\ g_func_types' = Append(g_func_types, type)
             /\ \A i \in DOMAIN g_func_types : g_func_types[i] # type
    BY <1>1, <2>2 DEF TypesInv
  <2> QED
    BY <1>2, <2>1, <2>2
<1>6. /\ func_types' \in [DOMAIN program -> Seq(Nat)]
      /\ DOMAIN func_types'[m] = DOMAIN func_types[m] \cup {k}
      /\ func_types'[m][k] = f
      /\ \A t \in DOMAIN func_types[m] : func_types'[m][t] = func_types[m][t]
      /\ \A n \in DOMAIN program \ {m} : func_types'[n] = func_types[n]
  BY <1>2 DEF TypesInv
<1>7. ASSUME NEW n \in DOMAIN program, NEW t \in DOMAIN func_types'[n]
      PROVE  /\ t \in DOMAIN program[n].types
             /\ func_types'[n][t] \in DOMAIN g_func_types'
             /\ g_func_types'[func_types'[n][t]] = program[n].types[t]
  <2>1. CASE n = m /\ t = k
    BY <1>1, <1>4, <1>6, <2>1 DEF type
  <2>2. CASE t \in DOMAIN func_types[n] /\ func_types'[n][t] = func_types[n][t]
    BY <1>4, <2>2 DEF TypesInv
  <2> QED
    BY <1>6, <1>7, <2>1, <2>2
<1>8. ASSUME NEW n \in DOMAIN program, NEW i \in DOMAIN table[n], table[n][i] # NoElem
      PROVE  \E e \in DOMAIN g_func_types' :
                table[n][i] = [func_type |-> e, func |-> <<g_func_types'[e]>>]
  BY <1>4, <1>8 DEF TypesInv
<1> QED
  BY <1>3, <1>4, <1>5, <1>6, <1>7, <1>8 DEF TypesInv

LEMMA InitTableTypes ==
    ASSUME TypesInv, NEW m \in DOMAIN program, InitTable(m)
    PROVE  TypesInv'
<1>1. UNCHANGED <<program, g_func_types, func_types>>
  BY DEF InitTable
<1>2. table' = [table EXCEPT ![m] =
          [i \in DOMAIN table[m] |->
              [func_type |-> func_types[m][program[m].elems[i]],
               func |-> <<program[m].types[program[m].elems[i]]>>]]]
  BY DEF InitTable, TypesInv
<1>3. ASSUME NEW i \in DOMAIN table[m]
      PROVE  \E f \in DOMAIN g_func_types :
                table'[m][i] = [func_type |-> f, func |-> <<g_func_types[f]>>]
  <2> DEFINE t == program[m].elems[i]
  <2>1. program[m].types \in Seq(Signatures(program)) /\ func_types[m] \in Seq(Nat)
    BY RtAssumption DEF TypesInv
  <2>2. t \in DOMAIN program[m].types
    BY <1>3, RtAssumption DEF TypesInv
  <2>3. Len(func_types[m]) = Len(program[m].types)
    BY DEF InitTable, Initialized
  <2>4. t \in DOMAIN func_types[m]
    BY <2>1, <2>2, <2>3
  <2>5. table'[m][i] = [func_type |-> func_types[m][t], func |-> <<program[m].types[t]>>]
    BY <1>2, <1>3 DEF TypesInv
  <2> HIDE DEF t
  <2> QED
    BY <2>4, <2>5 DEF TypesInv
<1>4. /\ DOMAIN table' = DOMAIN table /\ DOMAIN table'[m] = DOMAIN table[m]
      /\ \A n \in DOMAIN program \ {m} : table'[n] = table[n]
  BY <1>2 DEF TypesInv
<1>5. ASSUME NEW n \in DOMAIN program
      PROVE  /\ DOMAIN table'[n] = DOMAIN program[n].elems
             /\ \A i \in DOMAIN table'[n] :
                   \/ table'[n][i] = NoElem
                   \/ \E f \in DOMAIN g_func_types :
                         table'[n][i] = [func_type |-> f, func |-> <<g_func_types[f]>>]
  <2>1. CASE n = m
    BY <1>3, <1>4, <2>1 DEF TypesInv
  <2>2. CASE n # m
    BY <1>4, <2>2 DEF TypesInv
  <2> QED
    BY <2>1, <2>2
<1> QED
  BY <1>1, <1>4, <1>5 DEF TypesInv

LEMMA NextTypes == TypesInv /\ [RtNext]_rtVars => TypesInv'
<1> SUFFICES ASSUME TypesInv, [RtNext]_rtVars PROVE TypesInv'
  OBVIOUS
<1>1. CASE \E m \in DOMAIN program : RegisterFuncType(m)
  BY <1>1, RegisterTypes
<1>2. CASE \E m \in DOMAIN program : InitTable(m)
  BY <1>2, InitTableTypes
<1>3. CASE UNCHANGED <<program, g_func_types, func_types, table>>
  BY <1>3 DEF TypesInv
<1>4. CASE \E delta \in Deltas : GrowMemory(delta)
  BY <1>3, <1>4 DEF GrowMemory, Return
<1>5. CASE \E addr \in 0..(Word - 1) : StoreByte(addr)
  BY <1>3, <1>5 DEF StoreByte
<1>6. CASE UNCHANGED rtVars
  BY <1>3, <1>6 DEF rtVars
<1> QED
  BY <1>1, <1>2, <1>4, <1>5, <1>6 DEF RtNext

(* However many modules declare however many types, in whatever order their  *)
(* registrations and tables come: an indirect call is let through exactly    *)
(* when the function has the signature that the caller declares.             *)
THEOREM IndirectCallsAlwaysTyped == RtSpec => []IndirectCallsTyped
<1>1. TypesInv => IndirectCallsTyped
  <2> SUFFICES ASSUME TypesInv, NEW m \in DOMAIN program, NEW n \in DOMAIN program,
                      NEW i \in DOMAIN table[m], NEW t \in DOMAIN func_types[n],
                      table[m][i] # NoElem
               PROVE  table[m][i].func_type = func_types[n][t]
                        <=> table[m][i].func = <<program[n].types[t]>>
    BY DEF IndirectCallsTyped
  <2>1. PICK f \in DOMAIN g_func_types :
            table[m][i] = [func_type |-> f, func |-> <<g_func_types[f]>>]
    BY DEF TypesInv
  <2>2. /\ func_types[n][t] \in DOMAIN g_func_types
        /\ g_func_types[func_types[n][t]] = program[n].types[t]
    BY DEF TypesInv
  <2>3. f = func_types[n][t] <=> g_func_types[f] = program[n].types[t]
    BY <2>1, <2>2 DEF TypesInv
  <2> QED
    BY <2>1, <2>3
<1> QED
  BY <1>1, RtInitTypes, NextTypes, PTL DEF RtSpec
=============================================================================
