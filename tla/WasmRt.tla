------------------------------- MODULE WasmRt -------------------------------
(***************************************************************************)
(* The runtime of the C that wasm2c writes (wasm2c/wasm-rt-impl.c), and    *)
(* the initialization of modules that share it: function types, a table    *)
(* that the first module exports to the others, and a memory.  Numbers of  *)
(* pages and of bytes are of type uint32_t.                                *)
(***************************************************************************)
EXTENDS MemoryPages, FiniteSetsExt

CONSTANTS
    Deltas,       \* the numbers of pages that modules ask for
    MemoryLimits, \* the limits of the memory: [initial, max_pages]
    Programs      \* sequences of modules that share the runtime, each
                  \* [types, elems]: the signatures it declares, and which
                  \* of them the functions have that it puts in the table

\* The signatures of a program.
Signatures(p) == UNION {Range(p[m].types) : m \in DOMAIN p}

ASSUME RtAssumption ==
    /\ Deltas \subseteq 0..(Word - 1)
    /\ MemoryLimits \subseteq [initial : Nat, max_pages : Nat]
    /\ \A limits \in MemoryLimits :
          limits.initial <= limits.max_pages /\ limits.max_pages < Word
    /\ \A p \in Programs :
          /\ \A m \in DOMAIN p :
                /\ p[m].types \in Seq(Signatures(p))
                /\ p[m].elems \in Seq(DOMAIN p[m].types)
          /\ \A a, b \in Signatures(p) :
                a.params = b.params /\ a.results = b.results => a = b

Garbage == "garbage"  \* a page as realloc leaves it
NoElem == [func_type |-> 0, func |-> <<>>]

VARIABLES
    program,
    g_func_types,  \* the registered signatures
    func_types,    \* func_types of each module: indices of registered types
    table,         \* the elements, each [func_type, func]; func stands for
                   \* a function by its signature
    rt_memory,     \* wasm_rt_memory_t: [pages, max_pages, size, data]
    returned       \* what wasm_rt_grow_memory has returned

rtVars == <<program, g_func_types, func_types, table, rt_memory, returned>>

(***************************************************************************)
(* Memory                                                                  *)
(***************************************************************************)
AllocateMemory(limits) ==
    [pages |-> limits.initial, max_pages |-> limits.max_pages,
     size |-> ByteSize(limits.initial),
     data |-> Zeros(ByteSize(limits.initial) \div PageSize)]

\* memset(data + offset, 0, length), both in whole pages.
Memset(data, offset, length) ==
    [i \in DOMAIN data |-> IF i - 1 \in offset..(offset + length - 1) THEN Zero ELSE data[i]]

\* Mutant: the new pages are left as realloc made them.
NotCleared(data, old_pages, delta) == data

Cleared(data, old_pages, delta) ==
    Memset(data, ByteSize(old_pages) \div PageSize, ByteSize(delta) \div PageSize)

\* Mutant: the page count wraps unnoticed.
FitsWrapped(new_pages, old_pages) == new_pages <= rt_memory.max_pages

Fits(new_pages, old_pages) == new_pages >= old_pages /\ new_pages <= rt_memory.max_pages

Return(value) == returned' = value /\ UNCHANGED <<program, g_func_types, func_types, table>>

\* Mutant: the pages are counted before realloc is known to succeed.
GrowMemoryCountsFirst(delta) ==
    LET new_pages == rt_memory.pages + delta
    IN /\ new_pages < Word /\ Fits(new_pages, rt_memory.pages)
       /\ rt_memory' = [rt_memory EXCEPT !.pages = new_pages]
       /\ Return(Failed)

\* wasm_rt_grow_memory.  Of a size that has wrapped to 0, realloc frees the
\* data, whether or not what it returns is NULL.
GrowMemory(delta) ==
    LET old_pages == rt_memory.pages
        new_pages == (old_pages + delta) % Word
        new_size == ByteSize(new_pages)
        new_data == Resized(rt_memory.data, new_size \div PageSize, Garbage)
    IN \/ new_pages = 0 /\ Return(0) /\ UNCHANGED rt_memory
       \/ new_pages # 0 /\ ~Fits(new_pages, old_pages) /\ Return(Failed) /\ UNCHANGED rt_memory
       \/ /\ new_pages # 0 /\ Fits(new_pages, old_pages)
          /\ \/ /\ rt_memory' = IF new_size = 0 THEN [rt_memory EXCEPT !.data = <<>>]
                                ELSE rt_memory
                /\ Return(Failed)
             \/ /\ rt_memory' = [rt_memory EXCEPT !.pages = new_pages, !.size = new_size,
                                     !.data = Cleared(new_data, old_pages, delta)]
                /\ Return(old_pages)

\* A store of one byte: a trap unless the address is below the size.
StoreByte(addr) ==
    /\ addr + 1 <= rt_memory.size
    /\ rt_memory' = [rt_memory EXCEPT !.data[(addr \div PageSize) + 1] = Dirty]
    /\ UNCHANGED <<program, g_func_types, func_types, table, returned>>

(***************************************************************************)
(* Function types and the table                                            *)
(***************************************************************************)
\* Mutant: only the parameters are compared.
EqualParams(a, b) == a.params = b.params

\* func_types_are_equal.
Equal(a, b) == a.params = b.params /\ a.results = b.results

Initialized(m) == Len(func_types[m]) = Len(program[m].types)

\* The modules are initialized one after the other, an exporter before its
\* importers.
Begins(m) == \A n \in 1..(m - 1) : Initialized(n)

\* wasm_rt_register_func_type, called by init_func_types for the next type
\* of module m.
RegisterFuncType(m) ==
    LET type == program[m].types[Len(func_types[m]) + 1]
        same == {i \in DOMAIN g_func_types : Equal(g_func_types[i], type)}
    IN /\ Begins(m) /\ ~Initialized(m)
       /\ IF same # {}
          THEN /\ func_types' = [func_types EXCEPT ![m] = Append(@, Min(same))]
               /\ UNCHANGED g_func_types
          ELSE /\ g_func_types' = Append(g_func_types, type)
               /\ func_types' = [func_types EXCEPT ![m] = Append(@, Len(g_func_types'))]
       /\ UNCHANGED <<program, table, rt_memory, returned>>

IsNew(m) == \A i \in DOMAIN table[m] : table[m][i] = NoElem

\* init_table of module m: each element carries the type index of its own
\* module.  Modules write to places of their own.
InitTable(m) ==
    /\ Begins(m) /\ Initialized(m) /\ IsNew(m) /\ table[m] # <<>>
    /\ table' = [table EXCEPT ![m] =
           [i \in DOMAIN @ |-> LET t == program[m].elems[i]
                               IN [func_type |-> func_types[m][t], func |-> <<program[m].types[t]>>]]]
    /\ UNCHANGED <<program, g_func_types, func_types, rt_memory, returned>>

RtInit ==
    /\ program \in Programs
    /\ g_func_types = <<>>
    /\ func_types = [m \in DOMAIN program |-> <<>>]
    /\ table = [m \in DOMAIN program |-> [i \in DOMAIN program[m].elems |-> NoElem]]
    /\ rt_memory \in {AllocateMemory(limits) : limits \in MemoryLimits}
    /\ returned = 0

\* The code of a module runs when all are initialized.
Running == \A m \in DOMAIN program : Initialized(m) /\ (table[m] = <<>> \/ ~IsNew(m))

RtNext ==
    \/ \E m \in DOMAIN program : RegisterFuncType(m) \/ InitTable(m)
    \/ Running /\ \E delta \in Deltas : GrowMemory(delta)
    \/ Running /\ \E addr \in 0..(Word - 1) : StoreByte(addr)

RtSpec == RtInit /\ [][RtNext]_rtVars

(***************************************************************************)
(* Properties                                                              *)
(***************************************************************************)
\* CALL_INDIRECT compares an element's type, registered by the module that
\* has the function, with one that the calling module registered: they are
\* the same index exactly when the signatures are the same.
IndirectCallsTyped ==
    \A m, n \in DOMAIN program : \A i \in DOMAIN table[m], t \in DOMAIN func_types[n] :
        table[m][i] # NoElem =>
            (table[m][i].func_type = func_types[n][t]
                <=> table[m][i].func = <<program[n].types[t]>>)

\* Every byte that MEMCHECK lets through is a byte of the allocated data,
\* and its size is that of the pages.
MemoryBacked ==
    /\ rt_memory.size = rt_memory.pages * PageSize
    /\ rt_memory.size = Len(rt_memory.data) * PageSize

\* The memory is one that grows at its end, by zeros, up to its maximum.
RtMemory == INSTANCE GrowableMemory WITH
    contents <- SubSeq(rt_memory.data, 1, rt_memory.pages),
    maximum <- rt_memory.max_pages

RtMemorySpec == RtMemory!Spec

\* wasm2c/README.md:317: wasm_rt_grow_memory grows the memory by the given
\* number of pages and returns its previous size, or returns 0xffffffff and
\* fails.
GrowsAsAsked ==
    [][\A delta \in Deltas : GrowMemory(delta) =>
           \/ returned' = Failed /\ rt_memory' = rt_memory
           \/ returned' = rt_memory.pages
              /\ Len(rt_memory'.data) = rt_memory.pages + delta]_rtVars

=============================================================================
