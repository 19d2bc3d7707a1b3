--------------------------- MODULE GrowableMemory ---------------------------
(***************************************************************************)
(* What a memory promises to the module that uses it: its pages are zero   *)
(* until they are stored to, it grows at its end and only up to a maximum, *)
(* and nothing is ever taken from it.                                      *)
(***************************************************************************)
EXTENDS MemoryPages

VARIABLES contents, maximum

Init == Len(contents) <= maximum /\ contents = Zeros(Len(contents))

Grow ==
    /\ \E n \in 1..(maximum - Len(contents)) : contents' = contents \o Zeros(n)
    /\ UNCHANGED maximum

Store ==
    /\ \E p \in DOMAIN contents : contents' = [contents EXCEPT ![p] = Dirty]
    /\ UNCHANGED maximum

Spec == Init /\ [][Grow \/ Store]_<<contents, maximum>>

=============================================================================
