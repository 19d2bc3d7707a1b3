-------------------------- MODULE MCValidatorWalk --------------------------
(***************************************************************************)
(* ValidatorWalk on small sets of signatures and opcodes.                  *)
(***************************************************************************)
EXTENDS ValidatorWalk

I32 == <<"i32">>

MCFuncTypes == {[params |-> <<"nullref">>, results |-> I32]}

\* i32.eqz and i32.store.
MCOpcodes == {[params |-> I32, result |-> "i32"],
              [params |-> <<"i32", "i32">>, result |-> "void"]}

MCLaneOps == {[params |-> <<"v128">>, result |-> "i32"]}

MCPushedTypes == {"i32", "nullref"}

MCEventTypes == {I32}

MCSelectTypes == {"any", "nullref"}
=============================================================================
