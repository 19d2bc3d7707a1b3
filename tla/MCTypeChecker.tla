--------------------------- MODULE MCTypeChecker ---------------------------
(***************************************************************************)
(* TypeChecker on small sets of signatures and opcodes, with its safety    *)
(* properties.                                                             *)
(***************************************************************************)
EXTENDS TypeCheckerProps

I32 == <<"i32">>
I64 == <<"i64">>

MCFuncTypes == {[params |-> << >>, results |-> I32],
                [params |-> I64, results |-> I32]}

\* i32.wrap_i64 and i32.store.
MCOpcodes == {[params |-> I64, result |-> "i32"],
              [params |-> <<"i32", "i32">>, result |-> "void"]}

\* A lane operator of the shape of i32x4.extract_lane.
MCLaneOps == {[params |-> <<"v128">>, result |-> "i32"]}

NoLaneOps == {}

MCPushedTypes == {"i32", "i64"}

MCEventTypes == {I64}

LanePushedTypes == {"v128"}

Untyped == {"any"}
=============================================================================
