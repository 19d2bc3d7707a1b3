------------------------------ MODULE Memories ------------------------------
(***************************************************************************)
(* A module in one of the two places where WABT runs it: compiled to C,    *)
(* with the runtime of wasm2c, or in the interpreter.                      *)
(***************************************************************************)
EXTENDS WasmRt, InterpMemory

VARIABLE place

memoriesVars == <<place, rtVars, memoryVars>>

\* What there is of the place that the module does not run in.
NoRt ==
    /\ program = <<>> /\ g_func_types = <<>> /\ func_types = <<>> /\ table = <<>>
    /\ rt_memory = AllocateMemory([initial |-> 0, max_pages |-> 0]) /\ returned = 0

NoMemory == page_limits = [initial |-> 0, has_max |-> TRUE, max |-> 0] /\ data = <<>> /\ pushed = 0

MemoriesInit ==
    \/ place = "wasm2c" /\ RtInit /\ NoMemory
    \/ place = "interp" /\ MemoryInit /\ NoRt

MemoriesNext ==
    \/ place = "wasm2c" /\ RtNext /\ UNCHANGED <<place, memoryVars>>
    \/ place = "interp" /\ MemoryNext /\ UNCHANGED <<place, rtVars>>

MemoriesSpec == MemoriesInit /\ [][MemoriesNext]_memoriesVars
=============================================================================
