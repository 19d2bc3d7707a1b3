----------------------------- MODULE Environment -----------------------------
(***************************************************************************)
(* The environment of the interpreter: the modules loaded so far and the   *)
(* functions and tables they share by index, with the marks by which a     *)
(* load that fails is undone.                                              *)
(*                                                                         *)
(* A name is looked up in a multimap whose order among equal names is      *)
(* unspecified: an operator that looks one up returns the set of what it   *)
(* may return.  Indices count from 1, and 0 is kInvalidIndex.              *)
(*                                                                         *)
(* `owner' is not in the code: it is the number of the load that made a    *)
(* function, and tells two functions apart that had the same index one     *)
(* after the other.                                                        *)
(***************************************************************************)
EXTENDS Integers, Sequences, SequencesExt, FiniteSets

CONSTANTS
    Names,           \* module names
    Fields,          \* names of exports
    Sigs             \* function signatures, equal when structurally equal

VARIABLE env

Invalid == 0
NoMax == 0 - 1
Null == [index |-> Invalid, owner |-> 0]

\* What a module is called that has no name; no binding is for it.
NoName == ""

TableSize(table) == Len(table.entries)

(***************************************************************************)
(* Modules and their exports.                                              *)
(***************************************************************************)
\* `funcs' and `tables' are the indices that the code of a module embeds.
NewModule(host, creates) ==
    [host |-> host, name |-> NoName, creates |-> creates, exports |-> << >>,
     funcs |-> << >>, tables |-> << >>]

AppendExport(e, m, kind, index, field) ==
    [e EXCEPT !.modules[m].exports =
        Append(@, [kind |-> kind, index |-> index, name |-> field])]

\* HostModule::AppendFuncExport: the indices of the new function and export.
AppendFuncExport(e, m, field, sig, owner) ==
    AppendExport([e EXCEPT !.funcs = Append(@, [sig |-> sig, owner |-> owner])],
                 m, "func", Len(e.funcs) + 1, field)

AppendTableExport(e, m, field, table) ==
    AppendExport([e EXCEPT !.tables = Append(@, table)],
                 m, "table", Len(e.tables) + 1, field)

\* A host module registers under its name and leaves module_bindings_ alone.
AppendHostModule(e, name, creates) ==
    [e EXCEPT
        !.modules = Append(@, [NewModule(TRUE, creates) EXCEPT !.name = name]),
        !.registered = @ \cup {<<name, Len(e.modules) + 1>>}]

GetExport(e, m, field) ==
    LET found == {i \in DOMAIN e.modules[m].exports :
                      e.modules[m].exports[i].name = field}
    IN  IF found = {} THEN {Invalid} ELSE found

\* Functions may be overloaded: a matching signature is preferred, then a
\* host module may make the function on the spot.
GetFuncExport(e, m, field, sig, owner) ==
    LET module == e.modules[m]
        found == {i \in DOMAIN module.exports :
                      /\ module.exports[i].name = field
                      /\ module.exports[i].kind = "func"
                      /\ e.funcs[module.exports[i].index].sig = sig}
    IN  IF found # {} THEN {[env |-> e, export |-> i] : i \in found}
        ELSE IF field \in module.creates
             THEN {[env |-> AppendFuncExport(e, m, field, sig, owner),
                    export |-> Len(module.exports) + 1]}
             ELSE {[env |-> e, export |-> Invalid]}

(***************************************************************************)
(* Names of modules.                                                       *)
(***************************************************************************)
Bound(bindings, name) == {b[2] : b \in {x \in bindings : x[1] = name}}

FindModuleIndex(e, name) ==
    IF Bound(e.bindings, name) = {} THEN {Invalid} ELSE Bound(e.bindings, name)

FindRegisteredModule(e, name) ==
    LET found == Bound(e.registered, name)
    IN  IF found # {} THEN {[env |-> e, module |-> m] : m \in found}
        ELSE IF e.on_unknown_module
             THEN {[env |-> AppendHostModule(e, name, Fields),
                    module |-> Len(e.modules) + 1]}
             ELSE {[env |-> e, module |-> Invalid]}

(***************************************************************************)
(* Marks.                                                                  *)
(***************************************************************************)
Mark(e) == [modules |-> Len(e.modules), funcs |-> Len(e.funcs),
            tables |-> Len(e.tables)]

\* Mutant: one more is removed.
TruncateOneMore(s, n) == SubSeq(s, 1, n - 1)

Truncate(s, n) == SubSeq(s, 1, n)

\* Mutant: registrations of modules that are removed are kept.
ResetKeepRegistered(e, mark) ==
    [e EXCEPT !.modules = Truncate(@, mark.modules),
              !.funcs = Truncate(@, mark.funcs),
              !.tables = Truncate(@, mark.tables)]

\* Mutant: the tables are kept.
ResetKeepTables(e, mark) ==
    LET removed == {e.modules[i].name : i \in mark.modules + 1 .. Len(e.modules)}
    IN  [e EXCEPT !.modules = Truncate(@, mark.modules),
                  !.funcs = Truncate(@, mark.funcs),
                  !.bindings = {b \in @ : b[1] = NoName \/ b[1] \notin removed},
                  !.registered = {r \in @ : r[2] <= mark.modules}]

\* Every binding of a removed module's name goes, whichever module it is of;
\* the exports of modules older than the mark and the contents of tables stay.
ResetToMarkPoint(e, mark) ==
    LET removed == {e.modules[i].name : i \in mark.modules + 1 .. Len(e.modules)}
    IN  [e EXCEPT !.modules = Truncate(@, mark.modules),
                  !.funcs = Truncate(@, mark.funcs),
                  !.tables = Truncate(@, mark.tables),
                  !.bindings = {b \in @ : b[1] = NoName \/ b[1] \notin removed},
                  !.registered = {r \in @ : r[2] <= mark.modules}]

\* With on_unknown_module, a host module is made for a name nobody registered.
EmptyEnvironment ==
    [modules |-> << >>, funcs |-> << >>, tables |-> << >>,
     bindings |-> {}, registered |-> {}, on_unknown_module |-> FALSE]

=============================================================================
