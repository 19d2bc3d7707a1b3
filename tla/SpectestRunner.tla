--------------------------- MODULE SpectestRunner ----------------------------
(***************************************************************************)
(* spectest-interp's CommandRunner: the commands of a script load modules  *)
(* into one environment, name and register them, and run their exports.    *)
(* Some commands expect the load to fail; OnModuleCommand removes the      *)
(* module again when its initialization fails, and the others leave it.    *)
(***************************************************************************)
EXTENDS ModuleLoader

CONSTANTS
    ScriptNames,\* the names a script gives modules
    Spectest,   \* the name of the host module InitEnvironment appends
    HostField,  \* the name of the function it exports
    TableField, \* the name of the table it exports
    MaxRegistered \* bound of the model: names registered

ASSUME RunnerAssumption ==
    /\ ScriptNames \subseteq Names \ {NoName}
    /\ Spectest \in Names
    /\ {HostField, TableField} \subseteq Fields
    /\ MaxTableSize >= 1

VARIABLES
    command   \* the command that loads a module

runnerVars == <<loaderVars, command>>

\* Of the functions and tables of the code, one each.
InitEnvironment ==
    AppendTableExport(
        AppendFuncExport(AppendHostModule(EmptyEnvironment, Spectest, {}),
                         1, HostField, NullarySig, 0),
        1, TableField, NewTable([initial |-> 1, max |-> MaxTableSize]))

RunnerInit ==
    /\ LoaderInit(InitEnvironment)
    /\ command = "module"

\* "assert" is assert_unlinkable and assert_uninstantiable, which differ in
\* what they print.
LoadCommands == {"module", "assert"}

OnLoadCommand ==
    /\ phase = "idle"
    /\ command' \in LoadCommands \cap setup.commands
    /\ BeginLoad

EndCommand(e) ==
    /\ EndLoad(e)
    /\ command' = "module"

\* OnModuleCommand took its own mark, equal to the one of ReadBinaryInterp.
ModuleReadFailed ==
    /\ command = "module" /\ phase = "read_failed"
    /\ EndCommand(ResetToMarkPoint(env, mark))

ModuleInitFailed ==
    /\ command = "module" /\ phase = "init_failed"
    /\ EndCommand(ResetToMarkPoint(env, mark))

\* The command may name the module.
ModuleReady ==
    /\ command = "module" /\ phase = "ready"
    /\ \/ EndCommand(env)
       \/ \E name \in ScriptNames :
             EndCommand([env EXCEPT !.modules[module].name = name,
                                    !.bindings = @ \cup {<<name, Len(env.modules)>>}])

\* Mutant: an uninstantiable module is removed again.
AssertEndsReset ==
    /\ command = "assert"
    /\ phase \in {"read_failed", "init_failed", "ready"}
    /\ EndCommand(IF phase = "init_failed" THEN ResetToMarkPoint(env, mark) ELSE env)

\* The asserting commands only report, and leave the environment modified.
AssertEnds ==
    /\ command = "assert"
    /\ phase \in {"read_failed", "init_failed", "ready"}
    /\ EndCommand(env)

OnRegisterCommand(of, as) ==
    /\ "register" \in setup.commands
    /\ phase = "idle"
    /\ \E m \in IF of = NoName THEN {Len(env.modules)} ELSE FindModuleIndex(env, of) :
           /\ m # Invalid
           /\ Cardinality(env.registered) < MaxRegistered
           /\ env' = [env EXCEPT !.registered = @ \cup {<<as, m>>}]
    /\ UNCHANGED <<phase, pass, segment, command>>
    /\ Running

\* A function of a named module, or of the last one, runs; RunAction asserts
\* that a module of the name exists.
OnActionCommand(of) ==
    /\ "action" \in setup.commands
    /\ phase = "idle"
    /\ \E m \in IF of = NoName THEN {Len(env.modules)}
                ELSE FindModuleIndex(env, of) \ {Invalid} :
           TableSet(m) \/ TableGrow(m)
    /\ UNCHANGED <<phase, pass, segment, command>>
    /\ Running

\* The script is over; only between commands may nothing more happen.
ScriptEnds ==
    /\ phase = "idle"
    /\ UNCHANGED runnerVars

RunnerStep ==
    \/ OnLoadCommand
    \/ ReadNext /\ UNCHANGED command
    \/ InitializeNext /\ UNCHANGED command
    \/ ModuleReadFailed
    \/ ModuleInitFailed
    \/ ModuleReady
    \/ AssertEnds
    \/ \E of \in {NoName} \cup ScriptNames, as \in Names : OnRegisterCommand(of, as)
    \/ \E of \in {NoName} \cup ScriptNames : OnActionCommand(of)
    \/ ScriptEnds

(***************************************************************************)
(* Properties.                                                             *)
(***************************************************************************)
Entries == UNION {Range(env.tables[t].entries) : t \in DOMAIN env.tables}

\* A function reference in a table, wherever it came from, is to the function
\* it was made of: not to one that was removed with a failed load, nor to one
\* that a later load put at the same index (ReturnCallIndirect, CallIndirect
\* and Environment::GetFunc rely on it).
TableEntriesLive ==
    \A ref \in Entries \ {Null} :
        /\ ref.index \in DOMAIN env.funcs
        /\ env.funcs[ref.index].owner = ref.owner

\* What a script sees of an environment: per module the exports, each with the
\* function or table it is.
NoFunction == [sig |-> NullarySig, owner |-> Invalid - 1]

InterfaceOf(e) ==
    LET Func(index) ==
            IF index \in DOMAIN e.funcs THEN e.funcs[index] ELSE NoFunction
        Item(x) ==
            <<x.name, x.kind, IF x.kind = "table" THEN x.index ELSE Func(x.index)>>
    IN  [m \in DOMAIN e.modules |-> {Item(x) : x \in Range(e.modules[m].exports)}]

=============================================================================
