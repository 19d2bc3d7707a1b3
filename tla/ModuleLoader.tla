---------------------------- MODULE ModuleLoader -----------------------------
(***************************************************************************)
(* ReadBinaryInterp and Executor::Initialize: a binary module is read into *)
(* the environment section by section, its imports resolved against the    *)
(* modules already there; then its active segments are copied and its      *)
(* start function run.  Function bodies are InterpCompiler's; memories,    *)
(* globals and data segments are left out, but for a data segment that is  *)
(* out of bounds.                                                          *)
(*                                                                         *)
(* `declared' and `saved' are not in the code: the signatures the binary   *)
(* gives its functions, and the environment before the load.  Of tables    *)
(* there is one element type.                                              *)
(***************************************************************************)
EXTENDS Environment

CONSTANTS
    NullarySig,      \* the signature without parameters or results
    Setups,          \* what the runs vary, see Setup
    MaxTableSize,    \* bounds of the model: entries of a table,
    MaxItems,        \* tables or exports of a module,
    MaxLoads         \* loads

\* The tool, the features, whether a start function may trap, and of what the
\* binaries and the script are made: signatures, limits of tables (ReadTable
\* refuses others), at most so many functions and active segments in a module,
\* and commands.
Setup ==
    {s \in [tool : {"spectest-interp", "wasm-interp"}, bulk_memory : BOOLEAN, reference_types : BOOLEAN, start_traps : BOOLEAN,
            sigs : SUBSET Sigs,
            limits : SUBSET [initial : 0..MaxTableSize, max : (0 - 1)..MaxTableSize],
            max_funcs : 0..3, max_segments : 0..2,
            commands : SUBSET {"module", "assert", "register", "action"}] :
        /\ s.reference_types => s.bulk_memory
        /\ \A l \in s.limits : l.max # NoMax => l.initial <= l.max}

ASSUME LoaderAssumption ==
    /\ NullarySig \in Sigs
    /\ Setups \subseteq Setup
    /\ {MaxTableSize, MaxItems, MaxLoads} \subseteq Nat

VARIABLES
    setup,     \* the features and the bounds
    phase,     \* "idle", "read", "init", "start", or how the load ended
    module,    \* module_, the module being loaded
    section,   \* the section being read
    mark,      \* the mark taken before the load
    to_define, \* functions or tables announced by a count, not yet made
    declared,  \* ghost: signatures of the module's functions, imported first
    start_func_index, \* of the module being loaded
    active_elem_segments,
    pass,      \* InitializeSegments: 0 is Check and 1 is Init
    segment,   \* InitializeSegments: the next segment of the pass
    loads,     \* ghost: number of loads begun
    saved,     \* ghost: the environment when the load began
    message    \* the last error that states the size of a table

readerVars == <<module, section, mark, to_define, declared, start_func_index,
                active_elem_segments, saved, message>>

loaderVars == <<setup, env, phase, pass, segment, loads, readerVars>>

NoMessage == [table |-> Invalid, size |-> 0]

NewTable(limits) ==
    [entries |-> [i \in 1..limits.initial |-> Null], limits |-> limits]

LoaderInit(e) ==
    /\ setup \in Setups
    /\ env = e
    /\ phase = "idle"
    /\ module = Invalid
    /\ section = 1
    /\ mark = Mark(e)
    /\ to_define = 0
    /\ declared = << >>
    /\ start_func_index = Invalid
    /\ active_elem_segments = << >>
    /\ pass = 1
    /\ segment = 1
    /\ loads = 0
    /\ saved = e
    /\ message = NoMessage

(***************************************************************************)
(* ReadBinaryInterp.                                                       *)
(***************************************************************************)
BeginLoad ==
    /\ loads < MaxLoads
    /\ phase' = "read"
    /\ module' = Len(env.modules) + 1
    /\ env' = [env EXCEPT !.modules = Append(@, NewModule(FALSE, {}))]
    /\ section' = 1
    /\ mark' = Mark(env)
    /\ to_define' = 0
    /\ declared' = << >>
    /\ start_func_index' = Invalid
    /\ active_elem_segments' = << >>
    /\ loads' = loads + 1
    /\ saved' = env
    /\ message' = NoMessage
    /\ UNCHANGED <<pass, segment>>

\* ReadBinary stopped at the first error, with the environment left as e.
Fail(e, error) ==
    /\ env' = ResetToMarkPoint(e, mark)
    /\ phase' = "read_failed"
    /\ message' = error
    /\ UNCHANGED <<module, mark, to_define, declared, start_func_index,
                   active_elem_segments, pass, segment, loads, saved>>

\* The binary is malformed, or a function body does not type check.
Malformed ==
    /\ phase = "read"
    /\ Fail(env, NoMessage)
    /\ UNCHANGED section

\* The reader is destroyed; what Initialize needed of it is not used again.
EndLoad(e) ==
    /\ phase' = "idle"
    /\ env' = e
    /\ module' = Invalid
    /\ section' = 1
    /\ mark' = Mark(e)
    /\ to_define' = 0
    /\ declared' = << >>
    /\ start_func_index' = Invalid
    /\ active_elem_segments' = << >>
    /\ pass' = 1
    /\ segment' = 1
    /\ saved' = e
    /\ message' = NoMessage
    /\ UNCHANGED loads

FirstPass == IF setup.bulk_memory THEN 1 ELSE 0

\* Mutant: segments are copied in one pass whatever the features.
EndReadOnePass ==
    /\ phase = "read"
    /\ to_define = 0
    /\ phase' = "init"
    /\ pass' = 1
    /\ segment' = 1
    /\ UNCHANGED <<env, loads, readerVars>>

EndRead ==
    /\ phase = "read"
    /\ to_define = 0
    /\ phase' = "init"
    /\ pass' = FirstPass
    /\ segment' = 1
    /\ UNCHANGED <<env, loads, readerVars>>

Sections == <<"import", "function", "table", "export", "start", "elem">>

\* Sections come in order, and a section holds as many items as it announced.
InSection(name) ==
    /\ phase = "read"
    /\ to_define = 0
    /\ \E n \in section..Len(Sections) : Sections[n] = name /\ section' = n

Read(e) ==
    /\ env' = e
    /\ UNCHANGED <<phase, module, mark, pass, segment, loads, saved, message>>

(***************************************************************************)
(* Imports.                                                                *)
(***************************************************************************)
NoExport == [kind |-> "none", index |-> Invalid, name |-> NoName]

\* The outcomes of resolving an import: the environment, to which a host
\* module or function may have been added, and the export found.  When no
\* signature matches, any export of the name is found, of whatever kind.
ResolveImport(kind, name, field, sig) ==
    LET ByName(e, m) ==
            {[env |-> e, export |-> IF x = Invalid THEN NoExport
                                    ELSE e.modules[m].exports[x]] :
                 x \in GetExport(e, m, field)}
        BySignature(e, m) ==
            UNION {IF got.export = Invalid THEN ByName(got.env, m)
                   ELSE {[env |-> got.env,
                          export |-> got.env.modules[m].exports[got.export]]} :
                       got \in GetFuncExport(e, m, field, sig, loads)}
    IN  UNION {IF found.module = Invalid
               THEN {[env |-> found.env, export |-> NoExport]}
               ELSE IF kind = "func" THEN BySignature(found.env, found.module)
                                     ELSE ByName(found.env, found.module) :
                    found \in FindRegisteredModule(env, name)}

MapFunc(e, index) == [e EXCEPT !.modules[module].funcs = Append(@, index)]
MapTable(e, index) == [e EXCEPT !.modules[module].tables = Append(@, index)]

\* Mutant: the signature is not compared, as if only overloads were found.
OnImportFuncAnySig(name, field, sig) ==
    /\ InSection("import")
    /\ Len(env.modules[module].funcs) < setup.max_funcs
    /\ \E found \in ResolveImport("func", name, field, sig) :
           IF found.export.kind # "func"
           THEN /\ Fail(found.env, NoMessage)
           ELSE /\ Read(MapFunc(found.env, found.export.index))
                /\ declared' = Append(declared, sig)
                /\ UNCHANGED <<to_define, start_func_index, active_elem_segments>>

OnImportFunc(name, field, sig) ==
    /\ InSection("import")
    /\ Len(env.modules[module].funcs) < setup.max_funcs
    /\ \E found \in ResolveImport("func", name, field, sig) :
           IF \/ found.export.kind # "func"
              \/ found.env.funcs[found.export.index].sig # sig
           THEN Fail(found.env, NoMessage)
           ELSE /\ Read(MapFunc(found.env, found.export.index))
                /\ declared' = Append(declared, sig)
                /\ UNCHANGED <<to_define, start_func_index, active_elem_segments>>

\* CheckImportLimits: the initial size is first, then the maximum.
ImportTooSmall(limits, actual) == actual.initial < limits.initial

ImportMaxTooLarge(limits, actual) ==
    limits.max # NoMax /\ (actual.max = NoMax \/ actual.max > limits.max)

OnImportTable(name, field, limits) ==
    /\ InSection("import")
    /\ Len(env.modules[module].tables) < MaxItems
    /\ \E found \in ResolveImport("table", name, field, Invalid) :
           LET index == found.export.index
               actual == found.env.tables[index].limits
           IN  IF found.export.kind # "table" THEN Fail(found.env, NoMessage)
               ELSE IF ImportTooSmall(limits, actual)
               THEN Fail(found.env, [table |-> index, size |-> actual.initial])
               ELSE IF ImportMaxTooLarge(limits, actual)
               THEN Fail(found.env, NoMessage)
               ELSE /\ Read(MapTable(found.env, index))
                    /\ UNCHANGED <<to_define, declared, start_func_index,
                                   active_elem_segments>>

(***************************************************************************)
(* Definitions.  The index of each item is fixed when their number is      *)
(* read, before any of them is made.                                       *)
(***************************************************************************)
\* Mutant: the count is taken to be the next index, as after the items.
OnFunctionCountAfter(count) ==
    /\ InSection("function")
    /\ section < section'
    /\ Len(env.modules[module].funcs) + count <= setup.max_funcs
    /\ Read([env EXCEPT !.modules[module].funcs =
                 @ \o [i \in 1..count |-> Len(env.funcs) + count]])
    /\ to_define' = count
    /\ UNCHANGED <<declared, start_func_index, active_elem_segments>>

OnFunctionCount(count) ==
    /\ InSection("function")
    /\ section < section'
    /\ Len(env.modules[module].funcs) + count <= setup.max_funcs
    /\ Read([env EXCEPT !.modules[module].funcs =
                 @ \o [i \in 1..count |-> Len(env.funcs) + i]])
    /\ to_define' = count
    /\ UNCHANGED <<declared, start_func_index, active_elem_segments>>

OnFunction(sig) ==
    /\ phase = "read"
    /\ Sections[section] = "function" /\ to_define > 0
    /\ Read([env EXCEPT !.funcs = Append(@, [sig |-> sig, owner |-> loads])])
    /\ to_define' = to_define - 1
    /\ declared' = Append(declared, sig)
    /\ UNCHANGED <<section, start_func_index, active_elem_segments>>

OnTableCount(count) ==
    /\ InSection("table")
    /\ section < section'
    /\ Len(env.modules[module].tables) + count <= MaxItems
    /\ Read([env EXCEPT !.modules[module].tables =
                 @ \o [i \in 1..count |-> Len(env.tables) + i]])
    /\ to_define' = count
    /\ UNCHANGED <<declared, start_func_index, active_elem_segments>>

OnTable(limits) ==
    /\ phase = "read"
    /\ Sections[section] = "table" /\ to_define > 0
    /\ Read([env EXCEPT !.tables = Append(@, NewTable(limits))])
    /\ to_define' = to_define - 1
    /\ UNCHANGED <<section, declared, start_func_index, active_elem_segments>>

(***************************************************************************)
(* Exports, the start function and active segments.                        *)
(***************************************************************************)
IndexSpace(kind) == IF kind = "func" THEN env.modules[module].funcs
                                     ELSE env.modules[module].tables

\* Only a defined module refuses a second export of a name.
OnExport(kind, item, field) ==
    /\ InSection("export")
    /\ Len(env.modules[module].exports) < MaxItems
    /\ item \in DOMAIN IndexSpace(kind)
    /\ IF GetExport(env, module, field) # {Invalid}
       THEN Fail(env, NoMessage)
       ELSE /\ Read(AppendExport(env, module, kind, IndexSpace(kind)[item], field))
            /\ UNCHANGED <<to_define, declared, start_func_index, active_elem_segments>>

OnStartFunction(item) ==
    /\ InSection("start")
    /\ section < section'
    /\ item \in DOMAIN env.modules[module].funcs
    /\ LET func == env.modules[module].funcs[item]
       IN  IF env.funcs[func].sig # NullarySig
           THEN Fail(env, NoMessage)
           ELSE /\ start_func_index' = func
                /\ Read(env)
                /\ UNCHANGED <<to_define, declared, active_elem_segments>>

FuncRef(func) == [index |-> func, owner |-> env.funcs[func].owner]

\* A segment of one reference, or of none when item is 0.
OnActiveElemSegment(table, offset, item) ==
    /\ InSection("elem")
    /\ Len(active_elem_segments) < setup.max_segments
    /\ table \in DOMAIN env.modules[module].tables
    /\ item \in 0..Len(env.modules[module].funcs)
    /\ LET src == IF item = 0 THEN << >>
                  ELSE <<FuncRef(env.modules[module].funcs[item])>>
       IN  active_elem_segments' =
               Append(active_elem_segments,
                      [table |-> env.modules[module].tables[table],
                       dst |-> offset, src |-> src])
    /\ Read(env)
    /\ UNCHANGED <<to_define, declared, start_func_index>>

ReadNext ==
    \/ \E n \in Names, f \in Fields, s \in setup.sigs : OnImportFunc(n, f, s)
    \/ \E n \in Names, f \in Fields, l \in setup.limits :
           OnImportTable(n, f, l)
    \/ \E count \in 1..setup.max_funcs : OnFunctionCount(count)
    \/ \E count \in 1..MaxItems : OnTableCount(count)
    \/ \E s \in setup.sigs : OnFunction(s)
    \/ \E l \in setup.limits : OnTable(l)
    \/ \E k \in {"func", "table"}, i \in 1..setup.max_funcs + MaxItems, f \in Fields : OnExport(k, i, f)
    \/ \E i \in 1..setup.max_funcs : OnStartFunction(i)
    \/ \E t \in 1..MaxItems, d \in 0..MaxTableSize, i \in 0..setup.max_funcs :
           OnActiveElemSegment(t, d, i)
    \/ Malformed
    \/ EndRead

(***************************************************************************)
(* Executor::Initialize.                                                   *)
(***************************************************************************)
Running == UNCHANGED <<loads, readerVars>>

CheckBounds(start, length, max) == start <= max /\ length <= max - start

CopySegment(e, info) ==
    [e EXCEPT !.tables[info.table].entries =
        [i \in DOMAIN @ |-> IF i \in info.dst + 1 .. info.dst + Len(info.src)
                            THEN info.src[i - info.dst] ELSE @[i]]]

InitSegment ==
    /\ phase = "init"
    /\ segment <= Len(active_elem_segments)
    /\ LET info == active_elem_segments[segment]
       IN  IF CheckBounds(info.dst, Len(info.src), TableSize(env.tables[info.table]))
           THEN /\ env' = IF pass = 1 THEN CopySegment(env, info) ELSE env
                /\ segment' = segment + 1
                /\ UNCHANGED phase
           ELSE /\ phase' = "init_failed"
                /\ UNCHANGED <<env, segment>>
    /\ UNCHANGED pass
    /\ Running

\* A data segment, which comes after the element segments, is out of bounds;
\* it is in the first pass, since memories do not change in between.
DataSegmentOutOfBounds ==
    /\ phase = "init"
    /\ segment > Len(active_elem_segments)
    /\ pass = FirstPass
    /\ phase' = "init_failed"
    /\ UNCHANGED <<env, pass, segment>>
    /\ Running

\* From the pass that checks to the one that copies, then RunStartFunction.
EndPass ==
    /\ phase = "init"
    /\ segment > Len(active_elem_segments)
    /\ IF pass = 0
       THEN /\ pass' = 1
            /\ segment' = 1
            /\ UNCHANGED phase
       ELSE /\ phase' = IF start_func_index = Invalid THEN "ready" ELSE "start"
            /\ UNCHANGED <<pass, segment>>
    /\ UNCHANGED env
    /\ Running

\* What the code of a module can do to its tables: table.set and table.grow,
\* with a null reference or one that ref.func gives.
RefsOf(m) == {Null} \cup {FuncRef(f) : f \in Range(env.modules[m].funcs)}

TableSet(m) ==
    /\ setup.reference_types
    /\ \E t \in Range(env.modules[m].tables), ref \in RefsOf(m) :
           \E i \in DOMAIN env.tables[t].entries :
               env' = [env EXCEPT !.tables[t].entries[i] = ref]

\* The limits keep the initial size.
GrowTo(m, MaxSize(_)) ==
    /\ setup.reference_types
    /\ \E t \in Range(env.modules[m].tables), ref \in RefsOf(m),
          increment \in 1..MaxTableSize :
           /\ TableSize(env.tables[t]) + increment <= MaxSize(env.tables[t].limits)
           /\ env' = [env EXCEPT !.tables[t].entries =
                          @ \o [i \in 1..increment |-> ref]]

\* Mutant: the maximum is not consulted.
TableGrowUnbounded(m) == GrowTo(m, LAMBDA limits : 2 * MaxTableSize)

TableGrow(m) ==
    GrowTo(m, LAMBDA limits : IF limits.max = NoMax THEN MaxTableSize ELSE limits.max)

StartRuns ==
    /\ phase = "start"
    /\ TableSet(module) \/ TableGrow(module)
    /\ UNCHANGED <<phase, pass, segment>>
    /\ Running

StartEnds ==
    /\ phase = "start"
    /\ phase' \in {"ready"} \cup (IF setup.start_traps THEN {"init_failed"} ELSE {})
    /\ UNCHANGED <<env, pass, segment>>
    /\ Running

InitializeNext ==
    InitSegment \/ DataSegmentOutOfBounds \/ EndPass \/ StartRuns \/ StartEnds

(***************************************************************************)
(* Properties.                                                             *)
(***************************************************************************)
\* Types, and no table has grown past its maximum.
TypeOK ==
    /\ phase \in {"idle", "read", "init", "start", "read_failed",
                  "init_failed", "ready"}
    /\ DOMAIN env = {"modules", "funcs", "tables", "bindings", "registered",
                   "on_unknown_module"}
    /\ env.funcs \in Seq([sig : Sigs, owner : 0..MaxLoads])
    /\ \A t \in DOMAIN env.tables :
           env.tables[t].limits.max # NoMax =>
               TableSize(env.tables[t]) <= env.tables[t].limits.max
    /\ module \in 0..Len(env.modules) + 1
    /\ section \in DOMAIN Sections
    /\ declared \in Seq(Sigs)
    /\ {to_define, pass, segment, loads} \subseteq Nat

\* ReadBinaryInterp undoes a load that failed: the environment is what it was
\* before the load, exports and registered names of host modules included.
FailedLoadRestores == phase = "read_failed" => env = saved

\* The index space of the module being loaded, which is laid out from counts
\* before the functions exist, maps each function to one of the signature the
\* binary declares, imported functions included.
IndexSpacesExact ==
    phase \in {"read", "init", "start", "ready"} =>
        \A i \in DOMAIN declared :
            /\ env.modules[module].funcs[i] \in DOMAIN env.funcs
            /\ env.funcs[env.modules[module].funcs[i]].sig = declared[i]

\* The names that scripts and imports look modules up by are of modules that
\* exist.
BindingsResolve ==
    \A b \in env.bindings \cup env.registered : b[2] \in DOMAIN env.modules

\* When an import is refused because the table is too small, the size called
\* "actual" in the message is the size of the table.
ReportedSizeIsActual ==
    message.table # Invalid => message.size = TableSize(env.tables[message.table])

=============================================================================
