----------------------------- MODULE InterpTools -----------------------------
(***************************************************************************)
(* The two tools that load modules into an environment: spectest-interp    *)
(* and wasm-interp, of which one is run.                                   *)
(***************************************************************************)
EXTENDS SpectestRunner, WasmInterp

IsRun(tool) == setup.tool = tool /\ UNCHANGED setup

ToolsInit ==
    \/ RunnerInit /\ setup.tool = "spectest-interp"
    \/ InterpInit /\ setup.tool = "wasm-interp" /\ command = "module"

ToolsNext ==
    \/ IsRun("spectest-interp") /\ RunnerStep
    \/ IsRun("wasm-interp") /\ InterpStep /\ UNCHANGED command

ToolsSpec == ToolsInit /\ [][ToolsNext]_runnerVars

\* The environment as a script sees it between two commands.  With
\* wasm-interp, which runs no script, none looks.
Seen == IF setup.tool = "wasm-interp" THEN InitEnvironment
        ELSE IF phase = "idle" THEN env ELSE saved

\* An item is a function that exists, or a table by its index.
LinkedItems ==
    (Fields \X {"func"} \X [sig : Sigs, owner : 0..MaxLoads])
    \cup (Fields \X {"table"} \X (Nat \ {0}))

Linked == INSTANCE LinkedModules WITH
    linked <- InterfaceOf(Seen),
    Initial <- InterfaceOf(InitEnvironment),
    Items <- LinkedItems

\* Seen from a script between two commands, a load is atomic: the modules
\* there are keep their exports, each the same function or table as before,
\* and a command adds one module, whole, or none.
LinkedSpec == Linked!Spec

=============================================================================
