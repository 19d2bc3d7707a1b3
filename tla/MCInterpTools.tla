---------------------------- MODULE MCInterpTools ----------------------------
(***************************************************************************)
(* Instances of InterpTools: scripts of up to MaxLoads loads beside a host *)
(* module with a function and a table, and one load that makes its host    *)
(* modules as it goes.                                                     *)
(***************************************************************************)
EXTENDS InterpTools

MCNames == {"spectest", "M"}
MCFields == {"f", "t"}
MCSigs == {"v", "i"}
OneSig == {"v"}
TwoLimits == {[initial |-> 0, max |-> 1], [initial |-> 1, max |-> NoMax]}
OneLimit == {[initial |-> 1, max |-> 1]}

\* The first features: what a module command leaves behind when its module is
\* removed again.
Mvp(startTraps, segments) ==
    [tool |-> "spectest-interp", max_funcs |-> 1, bulk_memory |-> FALSE,
     reference_types |-> FALSE, start_traps |-> startTraps,
     sigs |-> OneSig, limits |-> OneLimit, max_segments |-> segments,
     commands |-> {"module", "register"}]

\* Bulk memory and reference types, whose code changes tables.
Bulk(startTraps, commands) ==
    [tool |-> "spectest-interp", max_funcs |-> 1, bulk_memory |-> TRUE,
     reference_types |-> TRUE, start_traps |-> startTraps,
     sigs |-> MCSigs, limits |-> TwoLimits, max_segments |-> 1,
     commands |-> commands]

DummyImports ==
    [tool |-> "wasm-interp", max_funcs |-> 3, bulk_memory |-> TRUE,
     reference_types |-> TRUE, start_traps |-> TRUE,
     sigs |-> MCSigs, limits |-> {[initial |-> 0, max |-> 1]}, max_segments |-> 1,
     commands |-> {}]

MCSetups ==
    {Mvp(FALSE, 2),
     Bulk(TRUE, {"assert", "register", "action"}),
     DummyImports}

TrappingStart == {Mvp(TRUE, 1)}

GrowingTables == {Bulk(FALSE, {"module", "register", "action"})}
=============================================================================
