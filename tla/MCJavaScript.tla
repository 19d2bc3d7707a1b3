---------------------------- MODULE MCJavaScript -----------------------------
(***************************************************************************)
(* JavaScript with three texts, of which two build whatever is checked and *)
(* one only with a feature that is not checked at first, with two files,   *)
(* and with programs that hold up to two modules.                          *)
(***************************************************************************)
EXTENDS JavaScript

Example(contents, js) == [contents |-> contents, js |-> js]

MCExamples == <<Example("bulk", "fill"), Example("simple", "add"), Example("factorial", "fac")>>

MCBoxes == {"bulk_memory"}

NoBoxes == {}

MCCompiles == {<<"bulk", MCBoxes>>} \cup ({"simple", "factorial"} \X SUBSET MCBoxes)

MCWasmExamples == <<"simple.wasm", "factorial.wasm">>

MCOptions == {"readDebugNames", "generateNames"}

MCFeatures == <<"mutable_globals", "bulk_memory", "reference_types">>

MCDefault == {"mutable_globals"}

Input(type, bytes, backing, width) ==
    [type |-> type, bytes |-> bytes, backing |-> backing, width |-> width]

Whole == {Input("ArrayBuffer", 2, 2, 1), Input("view", 2, 2, 1), Input("other", 0, 0, 1)}

\* Typed arrays over a part of their buffer, and of elements of two bytes.
Views == {Input("view", 1, 3, 1), Input("view", 2, 2, 2), Input("DataView", 2, 2, 1)}
=============================================================================
