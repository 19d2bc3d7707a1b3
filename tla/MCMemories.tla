----------------------------- MODULE MCMemories -----------------------------
(***************************************************************************)
(* Instances of Memories: words of 4 bits and pages of 2 bytes, so that 8  *)
(* pages are as many as 32 bits can address, and no more, as in the code.  *)
(***************************************************************************)
EXTENDS Memories

AllWords == 0..(Word - 1)

InitialAndMax(initials, maxes) == {<<i, m>> \in initials \X maxes : i <= m}

\* Maxima below the 65536 pages whose size in bytes is 0 in 32 bits.
BoundedMemories ==
    {[initial |-> l[1], max_pages |-> l[2]] : l \in InitialAndMax(0..2, {0, 3, 7})}

MCLimits ==
    {[initial |-> l[1], has_max |-> TRUE, max |-> l[2]] : l \in InitialAndMax({0, 1, 8}, {1, 3, 8})}
    \cup {[initial |-> 1, has_max |-> FALSE, max |-> 0]}

Sig(params, results) == [params |-> params, results |-> results]

MCTypes == {Sig(<<>>, <<>>), Sig(<<"i32">>, <<>>), Sig(<<>>, <<"i32">>)}

\* A module that declares up to two types, the same one twice perhaps, and
\* puts a function of its last type into the table.
MCModules ==
    {[types |-> types, elems |-> <<Len(types)>>] : types \in MCTypes \X MCTypes}
    \cup {[types |-> <<type>>, elems |-> <<>>] : type \in MCTypes}

MCPrograms == {<<m>> : m \in MCModules} \cup (MCModules \X MCModules)

OneProgram == {<<[types |-> <<>>, elems |-> <<>>]>>}
=============================================================================
