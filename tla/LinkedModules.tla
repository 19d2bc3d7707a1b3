---------------------------- MODULE LinkedModules ----------------------------
(***************************************************************************)
(* What an environment promises to those that link against it: a sequence  *)
(* of module interfaces that only grows, by one whole interface at a time. *)
(* An interface is a set of items, each a name with what it stands for.    *)
(***************************************************************************)
EXTENDS Integers, Sequences

CONSTANTS Initial, Items

VARIABLE linked

Init == linked = Initial

Link ==
    /\ Len(linked') = Len(linked) + 1
    /\ SubSeq(linked', 1, Len(linked)) = linked
    /\ linked'[Len(linked')] \in SUBSET Items

Spec == Init /\ [][Link]_linked

=============================================================================
