----------------------------- MODULE WasmInterp ------------------------------
(***************************************************************************)
(* wasm-interp: one module is read into an environment whose host modules  *)
(* make what it imports on demand (--dummy-import-func: any function of    *)
(* any module), it is initialized, and its exports may be run.             *)
(***************************************************************************)
EXTENDS ModuleLoader

\* --dummy-import-func registers a callback and adds nothing.
InitDummyEnvironment == [EmptyEnvironment EXCEPT !.on_unknown_module = TRUE]

InterpInit == LoaderInit(InitDummyEnvironment)

ReadModule ==
    /\ phase = "idle"
    /\ BeginLoad

\* A failed read or initialization ends the program.
Exit ==
    /\ phase \in {"read_failed", "init_failed", "ready"}
    /\ UNCHANGED loaderVars

RunAllExports ==
    /\ phase = "ready"
    /\ TableSet(module) \/ TableGrow(module)
    /\ UNCHANGED <<phase, pass, segment>>
    /\ Running

InterpStep == ReadModule \/ ReadNext \/ InitializeNext \/ RunAllExports \/ Exit

=============================================================================
