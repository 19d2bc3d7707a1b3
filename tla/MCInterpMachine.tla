-------------------------- MODULE MCInterpMachine --------------------------
(***************************************************************************)
(* InterpMachine on four families of small modules, which divide the       *)
(* instruction set between them.                                           *)
(***************************************************************************)
EXTENDS InterpMachine

I32 == <<"i32">>
I64 == <<"i64">>

Type(params, results) == [params |-> params, results |-> results]

Func(params, results, locals) ==
    [params |-> params, results |-> results, locals |-> locals]

Nothing == {}

Wrap == [params |-> I64, result |-> "i32"]
Add == [params |-> <<"i32", "i32">>, result |-> "i32"]
Eqz == [params |-> I32, result |-> "i32"]

MCOpcodes == {Wrap, Add, Eqz}
MCPushed == {"i32"}
Untyped == {"any"}
Typed == {"i64"}

\* Branches: one function with a parameter and a local.
Branches ==
    [funcs |-> <<Func(I64, I32, I32)>>, hosts |-> << >>,
     types |-> {Type(<< >>, I32), Type(I32, I32)}, opcodes |-> {Wrap},
     menu |-> {"block", "loop", "if", "br", "br_if", "br_table", "return"},
     value_stack_size |-> 7, call_stack_size |-> 1,
     max_instrs |-> 7, max_depth |-> 2, max_types |-> 3, max_labels |-> 3]

\* Calls: the functions call each other and the host, with other arities.
Calls ==
    [funcs |-> <<Func(<<"i64", "i32">>, I32, << >>), Func(I64, I32, << >>)>>,
     hosts |-> <<Type(I64, I32)>>,
     types |-> {Type(I64, I32)}, opcodes |-> {Wrap},
     menu |-> {"call", "call_indirect", "return_call", "return_call_indirect", "local_get"},
     value_stack_size |-> 7, call_stack_size |-> 2,
     max_instrs |-> 6, max_depth |-> 0, max_types |-> 4, max_labels |-> 1]

\* Locals under operands, and the instructions that move values.
Locals(opcodes) ==
    [funcs |-> <<Func(<<"i64", "i32">>, I32, I64)>>, hosts |-> << >>,
     types |-> {Type(<< >>, I32)}, opcodes |-> opcodes,
     menu |-> {"block", "br", "local_get", "local_set", "local_tee", "drop",
               "select", "unreachable", "return"},
     value_stack_size |-> 8, call_stack_size |-> 1,
     max_instrs |-> 5, max_depth |-> 1, max_types |-> 4, max_labels |-> 2]

\* Empty blocks in dead code, which share an offset with the code after them.
DeadBlocks ==
    [funcs |-> <<Func(I64, I32, I32)>>, hosts |-> << >>,
     types |-> {Type(<< >>, << >>)}, opcodes |-> {},
     menu |-> {"block", "br_if", "return"},
     value_stack_size |-> 7, call_stack_size |-> 1,
     max_instrs |-> 7, max_depth |-> 2, max_types |-> 3, max_labels |-> 3]

MCFuncTypes ==
    {Type(<< >>, << >>), Type(<< >>, I32), Type(I32, I32), Type(I64, I32)}

MCUnits == {Branches, DeadBlocks, Calls, Locals({Wrap, Add})}

SelectUnits == {Locals({Eqz})}
=============================================================================
