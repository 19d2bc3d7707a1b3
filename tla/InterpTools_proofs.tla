------------------------- MODULE InterpTools_proofs -------------------------
(***************************************************************************)
(* The interpreter's environment as spectest-interp and wasm-interp use    *)
(* it: the environment stays well formed, a module that fails to load      *)
(* leaves it as it was, the reader's index spaces are those of the         *)
(* environment, and the two loads implement LinkedModules.                 *)
(***************************************************************************)
EXTENDS InterpTools, TLAPS

-----------------------------------------------------------------------------
(* Types. *)
RefRecords == [index : Nat, owner : Nat]

ExportRecords == [kind : {"func", "table"}, index : Nat, name : Fields]

ModuleRecords ==
    [host : BOOLEAN, name : Names \cup {NoName}, creates : SUBSET Fields,
     exports : Seq(ExportRecords), funcs : Seq(Nat), tables : Seq(Nat)]

FuncRecords == [sig : Sigs, owner : 0..MaxLoads]

LimitRecords == [initial : Nat, max : Int]

TableRecords == [entries : Seq(RefRecords), limits : LimitRecords]

BindingSets == SUBSET (Names \X Nat)

EnvRecords ==
    [modules : Seq(ModuleRecords), funcs : Seq(FuncRecords), tables : Seq(TableRecords),
     bindings : BindingSets, registered : BindingSets, on_unknown_module : BOOLEAN]

(* What an append and an update do to a sequence. *)
LEMMA Appended ==
    ASSUME NEW S, NEW s \in Seq(S), NEW x \in S, NEW t, t = Append(s, x)
    PROVE  /\ t \in Seq(S)
           /\ Len(t) = Len(s) + 1
           /\ DOMAIN t = 1..Len(t)
           /\ DOMAIN s = 1..Len(s)
           /\ t[Len(s) + 1] = x
           /\ \A i \in 1..Len(s) : t[i] = s[i]
OBVIOUS

LEMMA Replaced ==
    ASSUME NEW S, NEW s \in Seq(S), NEW m \in DOMAIN s, NEW x \in S,
           NEW t, t = [s EXCEPT ![m] = x]
    PROVE  /\ t \in Seq(S)
           /\ Len(t) = Len(s)
           /\ DOMAIN t = DOMAIN s
           /\ t[m] = x
           /\ \A i \in DOMAIN s : i # m => t[i] = s[i]
OBVIOUS

(* An environment, a module or a table with one field changed. *)
LEMMA WithModules ==
    ASSUME NEW e \in EnvRecords, NEW ms \in Seq(ModuleRecords), NEW t, t = [e EXCEPT !.modules = ms]
    PROVE  /\ t \in EnvRecords
           /\ t.modules = ms
           /\ t.funcs = e.funcs
           /\ t.tables = e.tables
           /\ t.bindings = e.bindings
           /\ t.registered = e.registered
           /\ t.on_unknown_module = e.on_unknown_module
BY DEF EnvRecords

LEMMA WithFuncs ==
    ASSUME NEW e \in EnvRecords, NEW fs \in Seq(FuncRecords), NEW t, t = [e EXCEPT !.funcs = fs]
    PROVE  /\ t \in EnvRecords
           /\ t.funcs = fs
           /\ t.modules = e.modules
           /\ t.tables = e.tables
           /\ t.bindings = e.bindings
           /\ t.registered = e.registered
           /\ t.on_unknown_module = e.on_unknown_module
BY DEF EnvRecords

LEMMA WithTables ==
    ASSUME NEW e \in EnvRecords, NEW ts \in Seq(TableRecords), NEW t, t = [e EXCEPT !.tables = ts]
    PROVE  /\ t \in EnvRecords
           /\ t.tables = ts
           /\ t.modules = e.modules
           /\ t.funcs = e.funcs
           /\ t.bindings = e.bindings
           /\ t.registered = e.registered
           /\ t.on_unknown_module = e.on_unknown_module
BY DEF EnvRecords

LEMMA WithBindings ==
    ASSUME NEW e \in EnvRecords, NEW bs \in BindingSets, NEW t, t = [e EXCEPT !.bindings = bs]
    PROVE  /\ t \in EnvRecords
           /\ t.bindings = bs
           /\ t.modules = e.modules
           /\ t.funcs = e.funcs
           /\ t.tables = e.tables
           /\ t.registered = e.registered
           /\ t.on_unknown_module = e.on_unknown_module
BY DEF EnvRecords

LEMMA WithRegistered ==
    ASSUME NEW e \in EnvRecords, NEW rs \in BindingSets, NEW t, t = [e EXCEPT !.registered = rs]
    PROVE  /\ t \in EnvRecords
           /\ t.registered = rs
           /\ t.modules = e.modules
           /\ t.funcs = e.funcs
           /\ t.tables = e.tables
           /\ t.bindings = e.bindings
           /\ t.on_unknown_module = e.on_unknown_module
BY DEF EnvRecords

LEMMA WithName ==
    ASSUME NEW e \in ModuleRecords, NEW n \in Names \cup {NoName}, NEW t, t = [e EXCEPT !.name = n]
    PROVE  /\ t \in ModuleRecords
           /\ t.name = n
           /\ t.host = e.host
           /\ t.creates = e.creates
           /\ t.exports = e.exports
           /\ t.funcs = e.funcs
           /\ t.tables = e.tables
BY DEF ModuleRecords

LEMMA WithExports ==
    ASSUME NEW e \in ModuleRecords, NEW xs \in Seq(ExportRecords), NEW t, t = [e EXCEPT !.exports = xs]
    PROVE  /\ t \in ModuleRecords
           /\ t.exports = xs
           /\ t.host = e.host
           /\ t.name = e.name
           /\ t.creates = e.creates
           /\ t.funcs = e.funcs
           /\ t.tables = e.tables
BY DEF ModuleRecords

LEMMA WithFuncSpace ==
    ASSUME NEW e \in ModuleRecords, NEW is \in Seq(Nat), NEW t, t = [e EXCEPT !.funcs = is]
    PROVE  /\ t \in ModuleRecords
           /\ t.funcs = is
           /\ t.host = e.host
           /\ t.name = e.name
           /\ t.creates = e.creates
           /\ t.exports = e.exports
           /\ t.tables = e.tables
BY DEF ModuleRecords

LEMMA WithTableSpace ==
    ASSUME NEW e \in ModuleRecords, NEW is \in Seq(Nat), NEW t, t = [e EXCEPT !.tables = is]
    PROVE  /\ t \in ModuleRecords
           /\ t.tables = is
           /\ t.host = e.host
           /\ t.name = e.name
           /\ t.creates = e.creates
           /\ t.exports = e.exports
           /\ t.funcs = e.funcs
BY DEF ModuleRecords

LEMMA WithEntries ==
    ASSUME NEW e \in TableRecords, NEW xs \in Seq(RefRecords), NEW t, t = [e EXCEPT !.entries = xs]
    PROVE  /\ t \in TableRecords
           /\ t.entries = xs
           /\ t.limits = e.limits
BY DEF TableRecords

-----------------------------------------------------------------------------
(* What holds of an environment. *)

(* Exports and index spaces name what exists. *)
ExportsWithin(r, nf, nt) ==
    \A i \in DOMAIN r.exports :
        r.exports[i].index \in 1..(IF r.exports[i].kind = "func" THEN nf ELSE nt)

SpacesWithin(r, nf, nt) ==
    /\ \A i \in DOMAIN r.funcs : r.funcs[i] \in 1..nf
    /\ \A i \in DOMAIN r.tables : r.tables[i] \in 1..nt

SizeWithin(table) == table.limits.max # NoMax => TableSize(table) <= table.limits.max

(* Host modules are made for the names nobody registered. *)
MakesHosts(e) == e.on_unknown_module = TRUE

(* The module `open' is being read: its index spaces run ahead of what exists.
   Host modules that make functions are only of the tool that runs no script. *)
WellFormed(e, open) ==
    /\ e \in EnvRecords
    /\ \A m \in 1..Len(e.modules) :
          /\ ExportsWithin(e.modules[m], Len(e.funcs), Len(e.tables))
          /\ m # open => SpacesWithin(e.modules[m], Len(e.funcs), Len(e.tables))
          /\ e.modules[m].creates # {} => MakesHosts(e)
    /\ \A t \in 1..Len(e.tables) : SizeWithin(e.tables[t])
    /\ \A r \in e.registered : r[2] \in 1..Len(e.modules)
    /\ \A b \in e.bindings : b[1] # NoName /\ b[2] \in 1..Len(e.modules)
    /\ MakesHosts(e) => e.bindings = {}

(* e has what s had, at the same places, and the modules that are new have names
   no binding is for. *)
Extends(s, e) ==
    /\ Len(s.modules) <= Len(e.modules)
    /\ \A m \in 1..Len(s.modules) : e.modules[m] = s.modules[m]
    /\ \A m \in Len(s.modules) + 1 .. Len(e.modules) :
          e.modules[m].name # NoName => MakesHosts(s)
    /\ Len(s.funcs) <= Len(e.funcs)
    /\ \A f \in 1..Len(s.funcs) : e.funcs[f] = s.funcs[f]
    /\ Len(s.tables) <= Len(e.tables)
    /\ e.bindings = s.bindings
    /\ s.registered \subseteq e.registered
    /\ \A r \in e.registered : r \in s.registered \/ r[2] > Len(s.modules)
    /\ e.on_unknown_module = s.on_unknown_module

TablesKept(s, e) == \A t \in 1..Len(s.tables) : e.tables[t] = s.tables[t]

LEMMA SequenceFields ==
    ASSUME NEW S, NEW s \in Seq(S)
    PROVE  Len(s) \in Nat /\ DOMAIN s = 1..Len(s) /\ \A i \in 1..Len(s) : s[i] \in S
OBVIOUS

LEMMA EnvFields ==
    ASSUME NEW e \in EnvRecords
    PROVE  /\ e.modules \in Seq(ModuleRecords) /\ Len(e.modules) \in Nat
           /\ DOMAIN e.modules = 1..Len(e.modules)
           /\ e.funcs \in Seq(FuncRecords) /\ Len(e.funcs) \in Nat
           /\ DOMAIN e.funcs = 1..Len(e.funcs)
           /\ e.tables \in Seq(TableRecords) /\ Len(e.tables) \in Nat
           /\ DOMAIN e.tables = 1..Len(e.tables)
           /\ e.bindings \in BindingSets /\ e.registered \in BindingSets
           /\ e.on_unknown_module \in BOOLEAN
BY DEF EnvRecords

LEMMA ModuleFields ==
    ASSUME NEW r \in ModuleRecords
    PROVE  /\ r.host \in BOOLEAN /\ r.name \in Names \cup {NoName}
           /\ r.creates \in SUBSET Fields
           /\ r.exports \in Seq(ExportRecords) /\ Len(r.exports) \in Nat
           /\ DOMAIN r.exports = 1..Len(r.exports)
           /\ r.funcs \in Seq(Nat) /\ Len(r.funcs) \in Nat
           /\ DOMAIN r.funcs = 1..Len(r.funcs)
           /\ r.tables \in Seq(Nat) /\ Len(r.tables) \in Nat
           /\ DOMAIN r.tables = 1..Len(r.tables)
<1>1. /\ r.host \in BOOLEAN /\ r.name \in Names \cup {NoName}
      /\ r.creates \in SUBSET Fields /\ r.exports \in Seq(ExportRecords)
      /\ r.funcs \in Seq(Nat) /\ r.tables \in Seq(Nat)
  BY DEF ModuleRecords
<1> QED BY <1>1, SequenceFields

LEMMA ModuleAt ==
    ASSUME NEW e \in EnvRecords, NEW m \in 1..Len(e.modules)
    PROVE  e.modules[m] \in ModuleRecords
BY EnvFields

LEMMA TableAt ==
    ASSUME NEW e \in EnvRecords, NEW m \in 1..Len(e.tables)
    PROVE  /\ e.tables[m] \in TableRecords
           /\ e.tables[m].entries \in Seq(RefRecords)
           /\ Len(e.tables[m].entries) \in Nat
           /\ DOMAIN e.tables[m].entries = 1..Len(e.tables[m].entries)
           /\ e.tables[m].limits.initial \in Nat
           /\ e.tables[m].limits.max \in Int
<1>1. e.tables[m] \in TableRecords BY EnvFields
<1>2. e.tables[m].entries \in Seq(RefRecords) /\ e.tables[m].limits \in LimitRecords
  BY <1>1 DEF TableRecords
<1> QED BY <1>1, <1>2, SequenceFields DEF LimitRecords

LEMMA ExportAt ==
    ASSUME NEW r \in ModuleRecords, NEW i \in 1..Len(r.exports)
    PROVE  /\ r.exports[i] \in ExportRecords
           /\ r.exports[i].kind \in {"func", "table"}
           /\ r.exports[i].index \in Nat
           /\ r.exports[i].name \in Fields
<1>1. r.exports[i] \in ExportRecords BY ModuleFields, SequenceFields
<1> QED BY <1>1 DEF ExportRecords

LEMMA WithinMore ==
    ASSUME NEW r \in ModuleRecords, NEW nf \in Nat, NEW nt \in Nat,
           NEW mf \in Nat, NEW mt \in Nat, nf <= mf, nt <= mt
    PROVE  /\ ExportsWithin(r, nf, nt) => ExportsWithin(r, mf, mt)
           /\ SpacesWithin(r, nf, nt) => SpacesWithin(r, mf, mt)
<1>1. \A i \in 1..nf : i \in 1..mf OBVIOUS
<1>2. \A i \in 1..nt : i \in 1..mt OBVIOUS
<1> QED BY <1>1, <1>2 DEF ExportsWithin, SpacesWithin

LEMMA ExtendsFields ==
    ASSUME NEW s \in EnvRecords, NEW e \in EnvRecords, Extends(s, e)
    PROVE  /\ Len(s.modules) \in Nat /\ Len(s.modules) <= Len(e.modules)
           /\ Len(s.funcs) \in Nat /\ Len(s.funcs) <= Len(e.funcs)
           /\ Len(s.tables) \in Nat /\ Len(s.tables) <= Len(e.tables)
           /\ \A m \in 1..Len(s.modules) :
                 m \in 1..Len(e.modules) /\ e.modules[m] = s.modules[m]
           /\ \A f \in 1..Len(s.funcs) : f \in 1..Len(e.funcs) /\ e.funcs[f] = s.funcs[f]
           /\ \A t \in 1..Len(s.tables) : t \in 1..Len(e.tables)
<1>1. /\ Len(s.modules) \in Nat /\ Len(s.funcs) \in Nat /\ Len(s.tables) \in Nat
      /\ Len(e.modules) \in Nat /\ Len(e.funcs) \in Nat /\ Len(e.tables) \in Nat
  BY EnvFields
<1>2. /\ Len(s.modules) <= Len(e.modules) /\ Len(s.funcs) <= Len(e.funcs)
      /\ Len(s.tables) <= Len(e.tables)
  BY DEF Extends
<1>3. \A i, j \in Nat : i <= j => \A k \in 1..i : k \in 1..j OBVIOUS
<1>4. /\ \A m \in 1..Len(s.modules) : e.modules[m] = s.modules[m]
      /\ \A f \in 1..Len(s.funcs) : e.funcs[f] = s.funcs[f]
  BY DEF Extends
<1> QED BY <1>1, <1>2, <1>3, <1>4

-----------------------------------------------------------------------------
(* An environment with a module, a function or a table more. *)
LEMMA ModuleAppended ==
    ASSUME NEW e, NEW o, WellFormed(e, o),
           NEW r \in ModuleRecords, r.exports = << >>, r.funcs = << >>, r.tables = << >>,
           r.creates # {} => MakesHosts(e),
           NEW t \in EnvRecords, t.modules = Append(e.modules, r),
           t.funcs = e.funcs, t.tables = e.tables, t.bindings = e.bindings,
           t.on_unknown_module = e.on_unknown_module, e.registered \subseteq t.registered,
           \A x \in t.registered : x \in e.registered \/ x[2] = Len(e.modules) + 1
    PROVE  /\ WellFormed(t, o)
           /\ Len(t.modules) = Len(e.modules) + 1
           /\ t.modules[Len(e.modules) + 1] = r
           /\ \A m \in 1..Len(e.modules) : t.modules[m] = e.modules[m]
<1>1. e \in EnvRecords BY DEF WellFormed
<1>2. /\ Len(t.modules) = Len(e.modules) + 1
      /\ t.modules[Len(e.modules) + 1] = r
      /\ \A m \in 1..Len(e.modules) : t.modules[m] = e.modules[m]
      /\ Len(e.modules) \in Nat
  BY <1>1, EnvFields, Appended
<1>3. \A nf, nt \in Nat : ExportsWithin(r, nf, nt) /\ SpacesWithin(r, nf, nt)
  BY DEF ExportsWithin, SpacesWithin
<1>4. ASSUME NEW m \in 1..Len(t.modules)
      PROVE  /\ ExportsWithin(t.modules[m], Len(t.funcs), Len(t.tables))
             /\ m # o => SpacesWithin(t.modules[m], Len(t.funcs), Len(t.tables))
             /\ t.modules[m].creates # {} => MakesHosts(t)
  <2>1. CASE m = Len(e.modules) + 1
    BY <1>1, <1>2, <1>3, <2>1, EnvFields DEF MakesHosts
  <2>2. CASE m # Len(e.modules) + 1
    <3>1. m \in 1..Len(e.modules) /\ t.modules[m] = e.modules[m]
      BY <1>2, <2>2
    <3> QED BY <3>1 DEF WellFormed, MakesHosts
  <2> QED BY <2>1, <2>2
<1>5. \A k \in 1..Len(e.modules) : k \in 1..Len(t.modules) BY <1>2
<1>6. Len(e.modules) + 1 \in 1..Len(t.modules) BY <1>2
<1> QED BY <1>2, <1>4, <1>5, <1>6 DEF WellFormed, MakesHosts

LEMMA AppendedExtends ==
    ASSUME NEW s \in EnvRecords, NEW e \in EnvRecords, Extends(s, e),
           NEW r \in ModuleRecords, r.name # NoName => MakesHosts(s),
           NEW t \in EnvRecords, t.modules = Append(e.modules, r),
           t.funcs = e.funcs, t.tables = e.tables, t.bindings = e.bindings,
           t.on_unknown_module = e.on_unknown_module, e.registered \subseteq t.registered,
           \A x \in t.registered : x \in e.registered \/ x[2] = Len(e.modules) + 1
    PROVE  Extends(s, t)
<1>1. /\ Len(t.modules) = Len(e.modules) + 1
      /\ t.modules[Len(e.modules) + 1] = r
      /\ \A m \in 1..Len(e.modules) : t.modules[m] = e.modules[m]
      /\ Len(e.modules) \in Nat
  BY EnvFields, Appended
<1>a. Len(s.modules) \in Nat /\ Len(s.modules) <= Len(e.modules) BY ExtendsFields
<1>2. \A m \in 1..Len(s.modules) : t.modules[m] = s.modules[m]
  BY <1>1, <1>a, ExtendsFields, Zenon
<1>3. ASSUME NEW m \in Len(s.modules) + 1 .. Len(t.modules), t.modules[m].name # NoName
      PROVE  MakesHosts(s)
  <2>1. CASE m = Len(e.modules) + 1 BY <1>1, <1>3, <2>1
  <2>2. CASE m # Len(e.modules) + 1
    <3>1. m \in Len(s.modules) + 1 .. Len(e.modules) /\ m \in 1..Len(e.modules)
      BY <1>1, <1>a, <2>2
    <3>2. t.modules[m] = e.modules[m] BY <1>1, <3>1
    <3> QED BY <1>3, <3>1, <3>2 DEF Extends
  <2> QED BY <2>1, <2>2
<1>4. ASSUME NEW x \in t.registered
      PROVE  x \in s.registered \/ x[2] > Len(s.modules)
  <2>1. CASE x \in e.registered BY <2>1 DEF Extends
  <2>2. CASE x[2] = Len(e.modules) + 1 BY <1>1, <1>a, <2>2
  <2> QED BY <2>1, <2>2
<1>5. s.registered \subseteq t.registered BY DEF Extends
<1>6. Len(s.modules) <= Len(t.modules) BY <1>1, <1>a
<1> QED BY <1>2, <1>3, <1>4, <1>5, <1>6 DEF Extends

LEMMA FuncAppended ==
    ASSUME NEW e, NEW o, WellFormed(e, o), NEW f \in FuncRecords,
           NEW t, t = [e EXCEPT !.funcs = Append(@, f)]
    PROVE  /\ WellFormed(t, o)
           /\ Len(t.funcs) = Len(e.funcs) + 1
           /\ t.funcs[Len(e.funcs) + 1] = f
           /\ \A i \in 1..Len(e.funcs) : t.funcs[i] = e.funcs[i]
           /\ t.modules = e.modules /\ t.tables = e.tables /\ t.bindings = e.bindings
           /\ t.registered = e.registered /\ t.on_unknown_module = e.on_unknown_module
           /\ \A s \in EnvRecords : Extends(s, e) => Extends(s, t)
<1>1. e \in EnvRecords BY DEF WellFormed
<1> DEFINE fs == Append(e.funcs, f)
<1>2. /\ fs \in Seq(FuncRecords) /\ Len(fs) = Len(e.funcs) + 1
      /\ fs[Len(e.funcs) + 1] = f
      /\ \A i \in 1..Len(e.funcs) : fs[i] = e.funcs[i]
  BY <1>1, EnvFields, Appended
<1>3. t = [e EXCEPT !.funcs = fs] OBVIOUS
<1> HIDE DEF fs
<1>4. /\ t \in EnvRecords /\ t.funcs = fs
      /\ t.modules = e.modules /\ t.tables = e.tables /\ t.bindings = e.bindings
      /\ t.registered = e.registered /\ t.on_unknown_module = e.on_unknown_module
  BY <1>1, <1>2, <1>3, WithFuncs
<1>5. Len(e.funcs) \in Nat /\ Len(e.tables) \in Nat BY <1>1, EnvFields
<1>6. ASSUME NEW m \in 1..Len(t.modules)
      PROVE  /\ ExportsWithin(t.modules[m], Len(t.funcs), Len(t.tables))
             /\ m # o => SpacesWithin(t.modules[m], Len(t.funcs), Len(t.tables))
             /\ t.modules[m].creates # {} => MakesHosts(t)
  <2>1. t.modules[m] \in ModuleRecords /\ t.modules[m] = e.modules[m]
        /\ m \in 1..Len(e.modules)
    BY <1>4, ModuleAt
  <2>2. /\ Len(t.funcs) \in Nat /\ Len(t.tables) \in Nat
        /\ Len(e.funcs) <= Len(t.funcs) /\ Len(e.tables) <= Len(t.tables)
    BY <1>2, <1>4, <1>5
  <2>3. /\ ExportsWithin(e.modules[m], Len(e.funcs), Len(e.tables))
        /\ m # o => SpacesWithin(e.modules[m], Len(e.funcs), Len(e.tables))
        /\ e.modules[m].creates # {} => MakesHosts(e)
    BY <2>1 DEF WellFormed
  <2> QED BY <1>4, <1>5, <2>1, <2>2, <2>3, WithinMore DEF MakesHosts
<1>7. WellFormed(t, o) BY <1>4, <1>6 DEF WellFormed, MakesHosts
<1>8. \A s \in EnvRecords : Extends(s, e) => Extends(s, t)
  <2> SUFFICES ASSUME NEW s \in EnvRecords, Extends(s, e) PROVE Extends(s, t)
    OBVIOUS
  <2>1. Len(s.funcs) \in Nat /\ Len(s.funcs) <= Len(e.funcs) BY EnvFields DEF Extends
  <2>2. Len(s.funcs) <= Len(t.funcs) BY <1>2, <1>4, <1>5, <2>1
  <2>3. \A i \in 1..Len(s.funcs) : t.funcs[i] = s.funcs[i]
    BY <1>1, <1>2, <1>4, ExtendsFields
  <2> QED BY <1>4, <2>2, <2>3 DEF Extends
<1> QED BY <1>2, <1>4, <1>7, <1>8

LEMMA TableAppended ==
    ASSUME NEW e, NEW o, WellFormed(e, o), NEW table \in TableRecords, SizeWithin(table),
           NEW t, t = [e EXCEPT !.tables = Append(@, table)]
    PROVE  /\ WellFormed(t, o)
           /\ Len(t.tables) = Len(e.tables) + 1
           /\ t.tables[Len(e.tables) + 1] = table
           /\ \A i \in 1..Len(e.tables) : t.tables[i] = e.tables[i]
           /\ t.modules = e.modules /\ t.funcs = e.funcs /\ t.bindings = e.bindings
           /\ t.registered = e.registered /\ t.on_unknown_module = e.on_unknown_module
           /\ \A s \in EnvRecords :
                 /\ Extends(s, e) => Extends(s, t)
                 /\ Extends(s, e) /\ TablesKept(s, e) => TablesKept(s, t)
<1>1. e \in EnvRecords BY DEF WellFormed
<1> DEFINE ts == Append(e.tables, table)
<1>2. /\ ts \in Seq(TableRecords) /\ Len(ts) = Len(e.tables) + 1
      /\ ts[Len(e.tables) + 1] = table
      /\ \A i \in 1..Len(e.tables) : ts[i] = e.tables[i]
  BY <1>1, EnvFields, Appended
<1>3. t = [e EXCEPT !.tables = ts] OBVIOUS
<1> HIDE DEF ts
<1>4. /\ t \in EnvRecords /\ t.tables = ts
      /\ t.modules = e.modules /\ t.funcs = e.funcs /\ t.bindings = e.bindings
      /\ t.registered = e.registered /\ t.on_unknown_module = e.on_unknown_module
  BY <1>1, <1>2, <1>3, WithTables
<1>5. Len(e.funcs) \in Nat /\ Len(e.tables) \in Nat BY <1>1, EnvFields
<1>6. ASSUME NEW m \in 1..Len(t.modules)
      PROVE  /\ ExportsWithin(t.modules[m], Len(t.funcs), Len(t.tables))
             /\ m # o => SpacesWithin(t.modules[m], Len(t.funcs), Len(t.tables))
             /\ t.modules[m].creates # {} => MakesHosts(t)
  <2>1. t.modules[m] \in ModuleRecords /\ t.modules[m] = e.modules[m]
        /\ m \in 1..Len(e.modules)
    BY <1>4, ModuleAt
  <2>2. /\ Len(t.funcs) \in Nat /\ Len(t.tables) \in Nat
        /\ Len(e.funcs) <= Len(t.funcs) /\ Len(e.tables) <= Len(t.tables)
    BY <1>2, <1>4, <1>5
  <2>3. /\ ExportsWithin(e.modules[m], Len(e.funcs), Len(e.tables))
        /\ m # o => SpacesWithin(e.modules[m], Len(e.funcs), Len(e.tables))
        /\ e.modules[m].creates # {} => MakesHosts(e)
    BY <2>1 DEF WellFormed
  <2> QED BY <1>4, <1>5, <2>1, <2>2, <2>3, WithinMore DEF MakesHosts
<1>7. ASSUME NEW i \in 1..Len(t.tables) PROVE SizeWithin(t.tables[i])
  <2>1. CASE i = Len(e.tables) + 1 BY <1>2, <1>4, <2>1
  <2>2. CASE i # Len(e.tables) + 1
    <3>1. i \in 1..Len(e.tables) BY <1>2, <1>4, <1>5, <2>2
    <3> QED BY <1>2, <1>4, <3>1 DEF WellFormed
  <2> QED BY <2>1, <2>2
<1>8. WellFormed(t, o) BY <1>4, <1>6, <1>7 DEF WellFormed, MakesHosts
<1>9. ASSUME NEW s \in EnvRecords, Extends(s, e)
      PROVE  Extends(s, t) /\ (TablesKept(s, e) => TablesKept(s, t))
  <2>1. Len(s.tables) \in Nat /\ Len(s.tables) <= Len(e.tables) BY EnvFields, <1>9 DEF Extends
  <2>2. Len(s.tables) <= Len(t.tables) BY <1>2, <1>4, <1>5, <2>1
  <2>3. Extends(s, t) BY <1>4, <1>9, <2>2 DEF Extends
  <2>4. \A i \in 1..Len(s.tables) : t.tables[i] = e.tables[i]
    BY <1>1, <1>2, <1>4, <1>9, ExtendsFields
  <2> QED BY <2>3, <2>4 DEF TablesKept
<1> QED BY <1>2, <1>4, <1>8, <1>9

-----------------------------------------------------------------------------
(* An environment with a module or a table changed. *)
ModuleSet(e, m, r) == [e EXCEPT !.modules = [e.modules EXCEPT ![m] = r]]

LEMMA ModuleChanged ==
    ASSUME NEW e, NEW o, WellFormed(e, o), NEW m \in 1..Len(e.modules),
           NEW r \in ModuleRecords, ExportsWithin(r, Len(e.funcs), Len(e.tables)),
           m # o => SpacesWithin(r, Len(e.funcs), Len(e.tables)),
           r.creates = e.modules[m].creates, NEW t, t = ModuleSet(e, m, r)
    PROVE  /\ WellFormed(t, o)
           /\ Len(t.modules) = Len(e.modules)
           /\ t.modules[m] = r
           /\ \A k \in 1..Len(e.modules) : k # m => t.modules[k] = e.modules[k]
           /\ t.funcs = e.funcs /\ t.tables = e.tables /\ t.bindings = e.bindings
           /\ t.registered = e.registered /\ t.on_unknown_module = e.on_unknown_module
           /\ \A s \in EnvRecords :
                 /\ Extends(s, e) /\ m > Len(s.modules) /\ r.name = e.modules[m].name
                       => Extends(s, t)
                 /\ TablesKept(s, e) => TablesKept(s, t)
<1>1. e \in EnvRecords BY DEF WellFormed
<1>2. e.modules \in Seq(ModuleRecords) /\ Len(e.modules) \in Nat
      /\ DOMAIN e.modules = 1..Len(e.modules)
  BY <1>1, EnvFields
<1> DEFINE ms == [e.modules EXCEPT ![m] = r]
<1>3. /\ ms \in Seq(ModuleRecords) /\ Len(ms) = Len(e.modules) /\ ms[m] = r
      /\ \A k \in 1..Len(e.modules) : k # m => ms[k] = e.modules[k]
  <2>1. m \in DOMAIN e.modules BY <1>2
  <2> QED BY <1>2, <2>1, Replaced
<1>4. t = [e EXCEPT !.modules = ms] BY DEF ModuleSet
<1> HIDE DEF ms
<1>5. /\ t \in EnvRecords /\ t.modules = ms
      /\ t.funcs = e.funcs /\ t.tables = e.tables /\ t.bindings = e.bindings
      /\ t.registered = e.registered /\ t.on_unknown_module = e.on_unknown_module
  BY <1>1, <1>3, <1>4, WithModules
<1>6. ASSUME NEW k \in 1..Len(t.modules)
      PROVE  /\ ExportsWithin(t.modules[k], Len(t.funcs), Len(t.tables))
             /\ k # o => SpacesWithin(t.modules[k], Len(t.funcs), Len(t.tables))
             /\ t.modules[k].creates # {} => MakesHosts(t)
  <2>1. CASE k = m BY <1>3, <1>5, <2>1 DEF WellFormed, MakesHosts
  <2>2. CASE k # m
    <3>1. k \in 1..Len(e.modules) /\ t.modules[k] = e.modules[k] BY <1>3, <1>5, <2>2
    <3> QED BY <1>5, <3>1 DEF WellFormed, MakesHosts
  <2> QED BY <2>1, <2>2
<1>7. WellFormed(t, o) BY <1>3, <1>5, <1>6 DEF WellFormed, MakesHosts
<1>8. ASSUME NEW s \in EnvRecords, Extends(s, e), m > Len(s.modules),
             r.name = e.modules[m].name
      PROVE  Extends(s, t)
  <2>1. Len(s.modules) \in Nat /\ Len(s.modules) <= Len(e.modules)
    BY <1>1, <1>8, ExtendsFields
  <2>2. ASSUME NEW k \in 1..Len(s.modules) PROVE t.modules[k] = s.modules[k]
    <3>1. k # m /\ k \in 1..Len(e.modules) BY <1>2, <1>8, <2>1
    <3> QED BY <1>3, <1>5, <1>8, <3>1 DEF Extends
  <2>3. ASSUME NEW k \in Len(s.modules) + 1 .. Len(t.modules), t.modules[k].name # NoName
        PROVE  MakesHosts(s)
    <3>1. k \in Len(s.modules) + 1 .. Len(e.modules) /\ k \in 1..Len(e.modules)
      BY <1>3, <1>5, <2>1
    <3>2. t.modules[k].name = e.modules[k].name
      <4>1. CASE k = m BY <1>3, <1>5, <1>8, <4>1
      <4>2. CASE k # m BY <1>3, <1>5, <3>1, <4>2
      <4> QED BY <4>1, <4>2
    <3> QED BY <1>8, <2>3, <3>1, <3>2 DEF Extends
  <2>4. Len(s.modules) <= Len(t.modules) BY <1>3, <1>5, <2>1
  <2> QED BY <1>5, <1>8, <2>2, <2>3, <2>4 DEF Extends
<1>9. \A s \in EnvRecords : TablesKept(s, e) => TablesKept(s, t) BY <1>5 DEF TablesKept
<1> QED BY <1>3, <1>5, <1>7, <1>8, <1>9

EntriesSet(e, k, xs) == [e EXCEPT !.tables[k].entries = xs]

LEMMA EntriesChanged ==
    ASSUME NEW e, NEW o, WellFormed(e, o), NEW k \in 1..Len(e.tables),
           NEW xs \in Seq(RefRecords),
           e.tables[k].limits.max # NoMax => Len(xs) <= e.tables[k].limits.max,
           NEW t, t = EntriesSet(e, k, xs)
    PROVE  /\ WellFormed(t, o)
           /\ Len(t.tables) = Len(e.tables)
           /\ t.tables[k].entries = xs
           /\ \A i \in 1..Len(e.tables) : i # k => t.tables[i] = e.tables[i]
           /\ t.modules = e.modules /\ t.funcs = e.funcs /\ t.bindings = e.bindings
           /\ t.registered = e.registered /\ t.on_unknown_module = e.on_unknown_module
           /\ \A s \in EnvRecords : Extends(s, e) => Extends(s, t)
<1>1. e \in EnvRecords BY DEF WellFormed
<1>2. /\ e.tables \in Seq(TableRecords) /\ Len(e.tables) \in Nat
      /\ DOMAIN e.tables = 1..Len(e.tables) /\ e.tables[k] \in TableRecords
  BY <1>1, EnvFields, TableAt
<1> DEFINE r == [e.tables[k] EXCEPT !.entries = xs]
           ts == [e.tables EXCEPT ![k] = r]
<1>3. r \in TableRecords /\ r.entries = xs /\ r.limits = e.tables[k].limits
  BY <1>2, WithEntries
<1>4. t = [e EXCEPT !.tables = ts] BY Zenon DEF EntriesSet
<1> HIDE DEF r
<1>5. /\ ts \in Seq(TableRecords) /\ Len(ts) = Len(e.tables) /\ ts[k] = r
      /\ \A i \in 1..Len(e.tables) : i # k => ts[i] = e.tables[i]
  <2>1. k \in DOMAIN e.tables BY <1>2
  <2> QED BY <1>2, <1>3, <2>1, Replaced
<1> HIDE DEF ts
<1>6. /\ t \in EnvRecords /\ t.tables = ts
      /\ t.modules = e.modules /\ t.funcs = e.funcs /\ t.bindings = e.bindings
      /\ t.registered = e.registered /\ t.on_unknown_module = e.on_unknown_module
  BY <1>1, <1>4, <1>5, WithTables
<1>7. ASSUME NEW i \in 1..Len(t.tables) PROVE SizeWithin(t.tables[i])
  <2>1. CASE i = k BY <1>3, <1>5, <1>6, <2>1 DEF SizeWithin, TableSize
  <2>2. CASE i # k BY <1>5, <1>6, <2>2 DEF WellFormed
  <2> QED BY <2>1, <2>2
<1>8. WellFormed(t, o) BY <1>5, <1>6, <1>7 DEF WellFormed, MakesHosts
<1>9. \A s \in EnvRecords : Extends(s, e) => Extends(s, t) BY <1>5, <1>6 DEF Extends
<1> QED BY <1>3, <1>5, <1>6, <1>8, <1>9

-----------------------------------------------------------------------------
(* Marks. *)
LEMMA Truncated ==
    ASSUME NEW S, NEW s \in Seq(S), NEW n \in Nat, n <= Len(s)
    PROVE  /\ Truncate(s, n) \in Seq(S)
           /\ Len(Truncate(s, n)) = n
           /\ \A i \in 1..n : Truncate(s, n)[i] = s[i]
BY DEF Truncate

LEMMA SameSequence ==
    ASSUME NEW S, NEW s \in Seq(S), NEW t \in Seq(S), Len(s) = Len(t),
           \A i \in 1..Len(s) : t[i] = s[i]
    PROVE  t = s
OBVIOUS

LEMMA TruncatedTo ==
    ASSUME NEW S, NEW s \in Seq(S), NEW q \in Seq(S), Len(q) <= Len(s),
           \A i \in 1..Len(q) : s[i] = q[i]
    PROVE  Truncate(s, Len(q)) = q
<1>1. Len(q) \in Nat OBVIOUS
<1>2. /\ Truncate(s, Len(q)) \in Seq(S)
      /\ Len(Truncate(s, Len(q))) = Len(q)
      /\ \A i \in 1..Len(q) : Truncate(s, Len(q))[i] = s[i]
  BY <1>1, Truncated
<1> QED BY <1>2, SameSequence

RemovedNames(e, n) == {e.modules[i].name : i \in n + 1 .. Len(e.modules)}

KeptBindings(e, n) == {b \in e.bindings : b[1] = NoName \/ b[1] \notin RemovedNames(e, n)}

KeptRegistered(e, n) == {r \in e.registered : r[2] <= n}

LEMMA ResetFields ==
    ASSUME NEW e \in EnvRecords, NEW mk, mk.modules \in Nat, mk.modules <= Len(e.modules),
           mk.funcs \in Nat, mk.funcs <= Len(e.funcs),
           mk.tables \in Nat, mk.tables <= Len(e.tables),
           NEW t, t = ResetToMarkPoint(e, mk)
    PROVE  /\ t \in EnvRecords
           /\ t.modules = Truncate(e.modules, mk.modules)
           /\ t.funcs = Truncate(e.funcs, mk.funcs)
           /\ t.tables = Truncate(e.tables, mk.tables)
           /\ t.bindings = KeptBindings(e, mk.modules)
           /\ t.registered = KeptRegistered(e, mk.modules)
           /\ t.on_unknown_module = e.on_unknown_module
<1> DEFINE ms == Truncate(e.modules, mk.modules)
           fs == Truncate(e.funcs, mk.funcs)
           ts == Truncate(e.tables, mk.tables)
           bs == KeptBindings(e, mk.modules)
           rs == KeptRegistered(e, mk.modules)
           e1 == [e EXCEPT !.modules = ms]
           e2 == [e1 EXCEPT !.funcs = fs]
           e3 == [e2 EXCEPT !.tables = ts]
           e4 == [e3 EXCEPT !.bindings = bs]
           e5 == [e4 EXCEPT !.registered = rs]
<1>1. ms \in Seq(ModuleRecords) /\ fs \in Seq(FuncRecords) /\ ts \in Seq(TableRecords)
  BY EnvFields, Truncated
<1>2. bs \in BindingSets /\ rs \in BindingSets
  BY EnvFields DEF BindingSets, KeptBindings, KeptRegistered
<1>3. t = e5 BY Zenon DEF ResetToMarkPoint, KeptBindings, KeptRegistered, RemovedNames
<1> HIDE DEF ms, fs, ts, bs, rs
<1>4. /\ e1 \in EnvRecords /\ e1.modules = ms
      /\ e1.on_unknown_module = e.on_unknown_module
  BY <1>1, WithModules
<1> HIDE DEF e1
<1>5. /\ e2 \in EnvRecords /\ e2.modules = ms /\ e2.funcs = fs
      /\ e2.on_unknown_module = e.on_unknown_module
  BY <1>1, <1>4, WithFuncs
<1> HIDE DEF e2
<1>6. /\ e3 \in EnvRecords /\ e3.modules = ms /\ e3.funcs = fs /\ e3.tables = ts
      /\ e3.on_unknown_module = e.on_unknown_module
  BY <1>1, <1>5, WithTables
<1> HIDE DEF e3
<1>7. /\ e4 \in EnvRecords /\ e4.modules = ms /\ e4.funcs = fs /\ e4.tables = ts
      /\ e4.bindings = bs /\ e4.on_unknown_module = e.on_unknown_module
  BY <1>2, <1>6, WithBindings
<1> HIDE DEF e4
<1>8. /\ e5 \in EnvRecords /\ e5.modules = ms /\ e5.funcs = fs /\ e5.tables = ts
      /\ e5.bindings = bs /\ e5.registered = rs
      /\ e5.on_unknown_module = e.on_unknown_module
  BY <1>2, <1>7, WithRegistered
<1> HIDE DEF e5
<1> QED BY <1>3, <1>8 DEF ms, fs, ts, bs, rs

(* The mark of s undoes whatever has been added to it, but for the contents of
   tables. *)
LEMMA ResetUndoes ==
    ASSUME NEW s, WellFormed(s, 0), NEW e \in EnvRecords, Extends(s, e),
           NEW t, t = ResetToMarkPoint(e, Mark(s))
    PROVE  /\ t \in EnvRecords
           /\ t.modules = s.modules /\ t.funcs = s.funcs
           /\ Len(t.tables) = Len(s.tables)
           /\ \A i \in 1..Len(s.tables) : t.tables[i] = e.tables[i]
           /\ t.bindings = s.bindings /\ t.registered = s.registered
           /\ t.on_unknown_module = s.on_unknown_module
<1> DEFINE nm == Len(s.modules)
           nf == Len(s.funcs)
           nt == Len(s.tables)
<1>1. s \in EnvRecords BY DEF WellFormed
<1>2. /\ nm \in Nat /\ nf \in Nat /\ nt \in Nat
      /\ nm <= Len(e.modules) /\ nf <= Len(e.funcs) /\ nt <= Len(e.tables)
      /\ \A m \in 1..nm : e.modules[m] = s.modules[m]
      /\ \A f \in 1..nf : e.funcs[f] = s.funcs[f]
  BY <1>1, ExtendsFields
<1>3. Mark(s).modules = nm /\ Mark(s).funcs = nf /\ Mark(s).tables = nt BY DEF Mark
<1>4. /\ t \in EnvRecords
      /\ t.modules = Truncate(e.modules, nm) /\ t.funcs = Truncate(e.funcs, nf)
      /\ t.tables = Truncate(e.tables, nt)
      /\ t.bindings = KeptBindings(e, nm) /\ t.registered = KeptRegistered(e, nm)
      /\ t.on_unknown_module = e.on_unknown_module
  <2> DEFINE mk == Mark(s)
  <2>1. mk.modules = nm /\ mk.funcs = nf /\ mk.tables = nt BY <1>3
  <2>2. t = ResetToMarkPoint(e, mk) OBVIOUS
  <2> HIDE DEF mk, nm, nf, nt
  <2> QED BY <1>2, <2>1, <2>2, ResetFields
<1>5. /\ e.modules \in Seq(ModuleRecords) /\ e.funcs \in Seq(FuncRecords)
      /\ e.tables \in Seq(TableRecords)
      /\ s.modules \in Seq(ModuleRecords) /\ s.funcs \in Seq(FuncRecords)
  BY <1>1, EnvFields
<1> HIDE DEF nm, nf, nt
<1>6. t.modules = s.modules
  <2>1. Truncate(e.modules, nm) = s.modules BY <1>2, <1>5, TruncatedTo DEF nm
  <2> QED BY <1>4, <2>1
<1>7. t.funcs = s.funcs
  <2>1. Truncate(e.funcs, nf) = s.funcs BY <1>2, <1>5, TruncatedTo DEF nf
  <2> QED BY <1>4, <2>1
<1>8. Len(t.tables) = nt /\ \A i \in 1..nt : t.tables[i] = e.tables[i]
  BY <1>2, <1>4, <1>5, Truncated
<1>9. t.bindings = s.bindings
  <2>1. e.bindings = s.bindings BY DEF Extends
  <2>2. CASE MakesHosts(s)
    <3>1. s.bindings = {} BY <2>2 DEF WellFormed
    <3> QED BY <1>4, <2>1, <3>1 DEF KeptBindings
  <2>3. CASE ~MakesHosts(s)
    <3>1. \A i \in nm + 1 .. Len(e.modules) : e.modules[i].name = NoName
      BY <2>3 DEF Extends, nm
    <3>2. \A n \in RemovedNames(e, nm) : n = NoName BY <3>1, Zenon DEF RemovedNames
    <3>3. \A b \in e.bindings : b[1] = NoName \/ b[1] \notin RemovedNames(e, nm)
      BY <3>2
    <3> QED BY <1>4, <2>1, <3>3, Zenon DEF KeptBindings
  <2> QED BY <2>2, <2>3
<1>10. t.registered = s.registered
  <2>1. ASSUME NEW r \in s.registered PROVE r \in e.registered /\ r[2] <= nm
    BY <1>2, <2>1 DEF Extends, WellFormed, nm
  <2>2. ASSUME NEW r \in e.registered, r[2] <= nm PROVE r \in s.registered
    <3>1. r[2] \in Nat BY EnvFields DEF BindingSets
    <3> QED BY <1>2, <2>2, <3>1 DEF Extends, nm
  <2> QED BY <1>4, <2>1, <2>2 DEF KeptRegistered
<1>11. t.on_unknown_module = s.on_unknown_module BY <1>4 DEF Extends
<1> QED BY <1>4, <1>6, <1>7, <1>8, <1>9, <1>10, <1>11 DEF nt

LEMMA SameEnvironment ==
    ASSUME NEW s \in EnvRecords, NEW t \in EnvRecords,
           t.modules = s.modules, t.funcs = s.funcs, t.tables = s.tables,
           t.bindings = s.bindings, t.registered = s.registered,
           t.on_unknown_module = s.on_unknown_module
    PROVE  t = s
BY DEF EnvRecords

LEMMA ResetRestores ==
    ASSUME NEW s, WellFormed(s, 0), NEW e \in EnvRecords, Extends(s, e), TablesKept(s, e)
    PROVE  ResetToMarkPoint(e, Mark(s)) = s
<1> DEFINE t == ResetToMarkPoint(e, Mark(s))
<1>1. s \in EnvRecords BY DEF WellFormed
<1>2. /\ t \in EnvRecords /\ t.modules = s.modules /\ t.funcs = s.funcs
      /\ Len(t.tables) = Len(s.tables)
      /\ \A i \in 1..Len(s.tables) : t.tables[i] = e.tables[i]
      /\ t.bindings = s.bindings /\ t.registered = s.registered
      /\ t.on_unknown_module = s.on_unknown_module
  BY ResetUndoes
<1> HIDE DEF t
<1>3. t.tables = s.tables
  <2>1. t.tables \in Seq(TableRecords) /\ s.tables \in Seq(TableRecords)
    BY <1>1, <1>2, EnvFields
  <2>2. \A i \in 1..Len(s.tables) : t.tables[i] = s.tables[i] BY <1>2 DEF TablesKept
  <2> QED BY <1>2, <2>1, <2>2, SameSequence
<1>4. t = s BY <1>1, <1>2, <1>3, SameEnvironment
<1> QED BY <1>4 DEF t

LEMMA ResetWellFormed ==
    ASSUME NEW s, WellFormed(s, 0), NEW e, NEW o, WellFormed(e, o), Extends(s, e)
    PROVE  WellFormed(ResetToMarkPoint(e, Mark(s)), 0)
<1> DEFINE t == ResetToMarkPoint(e, Mark(s))
<1>1. s \in EnvRecords /\ e \in EnvRecords BY DEF WellFormed
<1>2. /\ t \in EnvRecords /\ t.modules = s.modules /\ t.funcs = s.funcs
      /\ Len(t.tables) = Len(s.tables)
      /\ \A i \in 1..Len(s.tables) : t.tables[i] = e.tables[i]
      /\ t.bindings = s.bindings /\ t.registered = s.registered
      /\ t.on_unknown_module = s.on_unknown_module
  BY <1>1, ResetUndoes
<1> HIDE DEF t
<1>3. \A i \in 1..Len(t.tables) : SizeWithin(t.tables[i])
  BY <1>1, <1>2, ExtendsFields DEF WellFormed
<1>4. WellFormed(t, 0)
  <2>1. MakesHosts(t) <=> MakesHosts(s) BY <1>2 DEF MakesHosts
  <2>2. \A m \in 1..Len(t.modules) :
          /\ ExportsWithin(t.modules[m], Len(t.funcs), Len(t.tables))
          /\ m # 0 => SpacesWithin(t.modules[m], Len(t.funcs), Len(t.tables))
          /\ t.modules[m].creates # {} => MakesHosts(t)
    BY <1>2, <2>1 DEF WellFormed
  <2> QED BY <1>2, <1>3, <2>1, <2>2 DEF WellFormed
<1> QED BY <1>4 DEF t

-----------------------------------------------------------------------------
(* New modules and exports. *)
LEMMA NewModuleFields ==
    ASSUME NEW host \in BOOLEAN, NEW creates \in SUBSET Fields,
           NEW r, r = NewModule(host, creates)
    PROVE  /\ r \in ModuleRecords
           /\ r.exports = << >> /\ r.funcs = << >> /\ r.tables = << >>
           /\ r.name = NoName /\ r.creates = creates
<1>1. << >> \in Seq(ExportRecords) /\ << >> \in Seq(Nat) OBVIOUS
<1> QED BY <1>1 DEF NewModule, ModuleRecords

LEMMA BindingAdded ==
    ASSUME NEW bs \in BindingSets, NEW name \in Names, NEW m \in Nat
    PROVE  bs \cup {<<name, m>>} \in BindingSets
BY DEF BindingSets

LEMMA HostModuleFields ==
    ASSUME NEW e \in EnvRecords, NEW name \in Names, NEW creates \in SUBSET Fields,
           NEW t, t = AppendHostModule(e, name, creates)
    PROVE  \E r \in ModuleRecords :
              /\ r.exports = << >> /\ r.funcs = << >> /\ r.tables = << >>
              /\ r.name = name /\ r.creates = creates
              /\ t \in EnvRecords
              /\ t.modules = Append(e.modules, r)
              /\ t.registered = e.registered \cup {<<name, Len(e.modules) + 1>>}
              /\ t.funcs = e.funcs /\ t.tables = e.tables /\ t.bindings = e.bindings
              /\ t.on_unknown_module = e.on_unknown_module
<1> DEFINE n == NewModule(TRUE, creates)
           r == [n EXCEPT !.name = name]
           ms == Append(e.modules, r)
           rs == e.registered \cup {<<name, Len(e.modules) + 1>>}
           e1 == [e EXCEPT !.modules = ms]
           e2 == [e1 EXCEPT !.registered = rs]
<1>1. t = e2 BY Zenon DEF AppendHostModule
<1>2. /\ n \in ModuleRecords
      /\ n.exports = << >> /\ n.funcs = << >> /\ n.tables = << >> /\ n.creates = creates
  BY NewModuleFields
<1> HIDE DEF n
<1>3. /\ r \in ModuleRecords
      /\ r.exports = << >> /\ r.funcs = << >> /\ r.tables = << >>
      /\ r.name = name /\ r.creates = creates
  BY <1>2, WithName
<1> HIDE DEF r
<1>4. ms \in Seq(ModuleRecords) BY <1>3, EnvFields, Appended
<1>5. rs \in BindingSets
  <2>1. Len(e.modules) + 1 \in Nat /\ e.registered \in BindingSets BY EnvFields
  <2> QED BY <2>1, BindingAdded
<1> HIDE DEF ms, rs
<1>6. /\ e1 \in EnvRecords /\ e1.modules = ms /\ e1.registered = e.registered
      /\ e1.funcs = e.funcs /\ e1.tables = e.tables /\ e1.bindings = e.bindings
      /\ e1.on_unknown_module = e.on_unknown_module
  BY <1>4, WithModules
<1> HIDE DEF e1
<1>7. /\ e2 \in EnvRecords /\ e2.modules = ms /\ e2.registered = rs
      /\ e2.funcs = e.funcs /\ e2.tables = e.tables /\ e2.bindings = e.bindings
      /\ e2.on_unknown_module = e.on_unknown_module
  BY <1>5, <1>6, WithRegistered
<1> HIDE DEF e2
<1> QED BY <1>1, <1>3, <1>7 DEF ms, rs

(* Host modules, and exports and functions of them, have been added. *)
HostsAdded(e, t) ==
    /\ Len(e.modules) <= Len(t.modules)
    /\ \A m \in 1..Len(e.modules) :
          /\ t.modules[m].funcs = e.modules[m].funcs
          /\ t.modules[m].tables = e.modules[m].tables
          /\ t.modules[m].name = e.modules[m].name
    /\ Len(e.funcs) <= Len(t.funcs)
    /\ \A f \in 1..Len(e.funcs) : t.funcs[f] = e.funcs[f]
    /\ t.tables = e.tables
    /\ t.on_unknown_module = e.on_unknown_module
    /\ MakesHosts(e) \/ t = e

LEMMA NoHostsAdded ==
    ASSUME NEW e \in EnvRecords
    PROVE  HostsAdded(e, e)
BY EnvFields DEF HostsAdded

LEMMA HostModuleAppended ==
    ASSUME NEW e, NEW o, WellFormed(e, o), NEW s \in EnvRecords, Extends(s, e),
           MakesHosts(e), NEW name \in Names, NEW t, t = AppendHostModule(e, name, Fields)
    PROVE  /\ WellFormed(t, o) /\ Extends(s, t)
           /\ TablesKept(s, e) => TablesKept(s, t)
           /\ HostsAdded(e, t)
           /\ Len(e.modules) + 1 \in 1..Len(t.modules)
           /\ t.modules[Len(e.modules) + 1].exports = << >>
<1>1. e \in EnvRecords BY DEF WellFormed
<1>a. Fields \in SUBSET Fields OBVIOUS
<1>2. PICK r \in ModuleRecords :
              /\ r.exports = << >> /\ r.funcs = << >> /\ r.tables = << >>
              /\ r.name = name /\ r.creates = Fields
              /\ t \in EnvRecords
              /\ t.modules = Append(e.modules, r)
              /\ t.registered = e.registered \cup {<<name, Len(e.modules) + 1>>}
              /\ t.funcs = e.funcs /\ t.tables = e.tables /\ t.bindings = e.bindings
              /\ t.on_unknown_module = e.on_unknown_module
  BY <1>1, <1>a, HostModuleFields
<1>3. /\ e.registered \subseteq t.registered
      /\ \A x \in t.registered : x \in e.registered \/ x[2] = Len(e.modules) + 1
  BY <1>2
<1>4. MakesHosts(s) BY DEF Extends, MakesHosts
<1>5. /\ WellFormed(t, o) /\ Len(t.modules) = Len(e.modules) + 1
      /\ t.modules[Len(e.modules) + 1] = r
      /\ \A m \in 1..Len(e.modules) : t.modules[m] = e.modules[m]
  BY <1>2, <1>3, ModuleAppended
<1>6. Extends(s, t) BY <1>1, <1>2, <1>3, <1>4, AppendedExtends
<1>7. TablesKept(s, e) => TablesKept(s, t) BY <1>2 DEF TablesKept
<1>8. Len(e.modules) \in Nat /\ Len(e.funcs) \in Nat BY <1>1, EnvFields
<1>9. HostsAdded(e, t) BY <1>2, <1>5, <1>8 DEF HostsAdded
<1> QED BY <1>2, <1>5, <1>6, <1>7, <1>8, <1>9

LEMMA HostsAddedTwice ==
    ASSUME NEW d \in EnvRecords, NEW e \in EnvRecords, NEW t \in EnvRecords,
           HostsAdded(d, e), HostsAdded(e, t)
    PROVE  HostsAdded(d, t)
<1>1. /\ Len(d.modules) \in Nat /\ Len(e.modules) \in Nat /\ Len(t.modules) \in Nat
      /\ Len(d.funcs) \in Nat /\ Len(e.funcs) \in Nat /\ Len(t.funcs) \in Nat
  BY EnvFields
<1>2. /\ Len(d.modules) <= Len(e.modules) /\ Len(e.modules) <= Len(t.modules)
      /\ Len(d.funcs) <= Len(e.funcs) /\ Len(e.funcs) <= Len(t.funcs)
  BY DEF HostsAdded
<1>3. /\ \A m \in 1..Len(d.modules) : m \in 1..Len(e.modules)
      /\ \A f \in 1..Len(d.funcs) : f \in 1..Len(e.funcs)
      /\ Len(d.modules) <= Len(t.modules) /\ Len(d.funcs) <= Len(t.funcs)
  BY <1>1, <1>2
<1>4. /\ \A m \in 1..Len(d.modules) :
          /\ t.modules[m].funcs = d.modules[m].funcs
          /\ t.modules[m].tables = d.modules[m].tables
          /\ t.modules[m].name = d.modules[m].name
      /\ \A f \in 1..Len(d.funcs) : t.funcs[f] = d.funcs[f]
  BY <1>3 DEF HostsAdded
<1>5. t.tables = d.tables /\ t.on_unknown_module = d.on_unknown_module BY DEF HostsAdded
<1>6. MakesHosts(d) \/ t = d BY DEF HostsAdded, MakesHosts
<1> QED BY <1>3, <1>4, <1>5, <1>6 DEF HostsAdded

CountOf(e, kind) == IF kind = "func" THEN Len(e.funcs) ELSE Len(e.tables)

LEMMA ExportAppended ==
    ASSUME NEW e, NEW o, WellFormed(e, o), NEW m \in 1..Len(e.modules),
           NEW kind \in {"func", "table"}, NEW index \in 1..CountOf(e, kind),
           NEW field \in Fields, NEW t, t = AppendExport(e, m, kind, index, field)
    PROVE  /\ WellFormed(t, o)
           /\ Len(t.modules) = Len(e.modules)
           /\ Len(t.modules[m].exports) = Len(e.modules[m].exports) + 1
           /\ \A k \in 1..Len(e.modules) :
                 /\ t.modules[k].funcs = e.modules[k].funcs
                 /\ t.modules[k].tables = e.modules[k].tables
                 /\ t.modules[k].name = e.modules[k].name
           /\ t.funcs = e.funcs /\ t.tables = e.tables /\ t.bindings = e.bindings
           /\ t.registered = e.registered /\ t.on_unknown_module = e.on_unknown_module
           /\ \A s \in EnvRecords :
                 /\ Extends(s, e) /\ m > Len(s.modules) => Extends(s, t)
                 /\ TablesKept(s, e) => TablesKept(s, t)
<1>1. e \in EnvRecords BY DEF WellFormed
<1>2. e.modules[m] \in ModuleRecords BY <1>1, ModuleAt
<1> DEFINE x == [kind |-> kind, index |-> index, name |-> field]
           xs == Append(e.modules[m].exports, x)
           r == [e.modules[m] EXCEPT !.exports = xs]
<1>3. Len(e.funcs) \in Nat /\ Len(e.tables) \in Nat BY <1>1, EnvFields
<1>4. x \in ExportRecords
  <2>1. index \in Nat BY <1>3 DEF CountOf
  <2> QED BY <2>1 DEF ExportRecords
<1>5. x.kind = kind /\ x.index = index OBVIOUS
<1>6. t = ModuleSet(e, m, r) BY Zenon DEF AppendExport, ModuleSet
<1> HIDE DEF x
<1>7. /\ xs \in Seq(ExportRecords) /\ Len(xs) = Len(e.modules[m].exports) + 1
      /\ xs[Len(e.modules[m].exports) + 1] = x
      /\ \A i \in 1..Len(e.modules[m].exports) : xs[i] = e.modules[m].exports[i]
      /\ DOMAIN xs = 1..Len(xs)
      /\ Len(e.modules[m].exports) \in Nat
      /\ DOMAIN e.modules[m].exports = 1..Len(e.modules[m].exports)
  BY <1>2, <1>4, ModuleFields, Appended
<1> HIDE DEF xs
<1>8. /\ r \in ModuleRecords /\ r.exports = xs /\ r.host = e.modules[m].host
      /\ r.name = e.modules[m].name /\ r.creates = e.modules[m].creates
      /\ r.funcs = e.modules[m].funcs /\ r.tables = e.modules[m].tables
  BY <1>2, <1>7, WithExports
<1> HIDE DEF r
<1>9. ExportsWithin(r, Len(e.funcs), Len(e.tables))
  <2>1. ASSUME NEW i \in DOMAIN r.exports
        PROVE  r.exports[i].index
                  \in 1..(IF r.exports[i].kind = "func" THEN Len(e.funcs) ELSE Len(e.tables))
    <3>1. CASE i = Len(e.modules[m].exports) + 1
      BY <1>5, <1>7, <1>8, <3>1 DEF CountOf
    <3>2. CASE i # Len(e.modules[m].exports) + 1
      <4>1. i \in DOMAIN e.modules[m].exports /\ r.exports[i] = e.modules[m].exports[i]
        BY <1>7, <1>8, <2>1, <3>2
      <4> QED BY <4>1 DEF WellFormed, ExportsWithin
    <3> QED BY <3>1, <3>2
  <2> QED BY <2>1 DEF ExportsWithin
<1>10. m # o => SpacesWithin(r, Len(e.funcs), Len(e.tables))
  BY <1>8 DEF WellFormed, SpacesWithin
<1>11. /\ WellFormed(t, o) /\ Len(t.modules) = Len(e.modules) /\ t.modules[m] = r
       /\ \A k \in 1..Len(e.modules) : k # m => t.modules[k] = e.modules[k]
       /\ t.funcs = e.funcs /\ t.tables = e.tables /\ t.bindings = e.bindings
       /\ t.registered = e.registered /\ t.on_unknown_module = e.on_unknown_module
       /\ \A s \in EnvRecords :
             /\ Extends(s, e) /\ m > Len(s.modules) => Extends(s, t)
             /\ TablesKept(s, e) => TablesKept(s, t)
  BY <1>6, <1>8, <1>9, <1>10, ModuleChanged
<1>12. \A k \in 1..Len(e.modules) :
          /\ t.modules[k].funcs = e.modules[k].funcs
          /\ t.modules[k].tables = e.modules[k].tables
          /\ t.modules[k].name = e.modules[k].name
  BY <1>8, <1>11
<1> QED BY <1>7, <1>8, <1>11, <1>12

(* A function that a host module has made, with its export. *)
LEMMA FuncExportAppended ==
    ASSUME NEW e, NEW o, WellFormed(e, o), NEW s \in EnvRecords, Extends(s, e),
           NEW m \in 1..Len(e.modules), m > Len(s.modules), MakesHosts(e),
           NEW field \in Fields, NEW sig \in Sigs, NEW owner \in 0..MaxLoads,
           NEW t, t = AppendFuncExport(e, m, field, sig, owner)
    PROVE  /\ WellFormed(t, o) /\ Extends(s, t)
           /\ TablesKept(s, e) => TablesKept(s, t)
           /\ HostsAdded(e, t)
           /\ Len(t.modules[m].exports) = Len(e.modules[m].exports) + 1
<1> DEFINE f == [sig |-> sig, owner |-> owner]
           d == [e EXCEPT !.funcs = Append(@, f)]
           kind == "func"
           index == Len(e.funcs) + 1
<1>1. e \in EnvRecords BY DEF WellFormed
<1>2. f \in FuncRecords BY DEF FuncRecords
<1>3. t = AppendExport(d, m, kind, index, field) BY Zenon DEF AppendFuncExport
<1>k. kind \in {"func", "table"} /\ CountOf(d, kind) = Len(d.funcs) BY DEF CountOf
<1> HIDE DEF f
<1>4. /\ WellFormed(d, o) /\ Len(d.funcs) = Len(e.funcs) + 1
      /\ \A i \in 1..Len(e.funcs) : d.funcs[i] = e.funcs[i]
      /\ d.modules = e.modules /\ d.tables = e.tables
      /\ d.on_unknown_module = e.on_unknown_module
      /\ Extends(s, d)
  BY <1>2, FuncAppended
<1> HIDE DEF d, kind
<1>5. Len(e.funcs) \in Nat /\ Len(e.modules) \in Nat BY <1>1, EnvFields
<1>6. index \in 1..CountOf(d, kind) BY <1>k, <1>4, <1>5
<1>7. m \in 1..Len(d.modules) BY <1>4
<1> HIDE DEF index
<1>8. /\ WellFormed(t, o) /\ Len(t.modules) = Len(d.modules)
      /\ Len(t.modules[m].exports) = Len(d.modules[m].exports) + 1
      /\ \A k \in 1..Len(d.modules) :
            /\ t.modules[k].funcs = d.modules[k].funcs
            /\ t.modules[k].tables = d.modules[k].tables
            /\ t.modules[k].name = d.modules[k].name
      /\ t.funcs = d.funcs /\ t.tables = d.tables
      /\ t.on_unknown_module = d.on_unknown_module
      /\ \A q \in EnvRecords :
            /\ Extends(q, d) /\ m > Len(q.modules) => Extends(q, t)
            /\ TablesKept(q, d) => TablesKept(q, t)
  <2>1. WellFormed(d, o) /\ kind \in {"func", "table"} BY <1>k, <1>4
  <2> QED BY <1>3, <1>6, <1>7, <2>1, ExportAppended, SMTT(30)
<1>9. TablesKept(s, e) => TablesKept(s, d) BY <1>4 DEF TablesKept
<1>10. HostsAdded(e, t) BY <1>4, <1>5, <1>8 DEF HostsAdded
<1> QED BY <1>4, <1>8, <1>9, <1>10

-----------------------------------------------------------------------------
(* Imports. *)
LEMMA ExportSound ==
    ASSUME NEW e, NEW o, WellFormed(e, o), NEW m \in 1..Len(e.modules),
           NEW x \in 1..Len(e.modules[m].exports)
    PROVE  /\ e.modules[m].exports[x].kind \in {"func", "table"}
           /\ e.modules[m].exports[x].index \in 1..CountOf(e, e.modules[m].exports[x].kind)
<1>1. e.modules[m] \in ModuleRecords BY ModuleAt DEF WellFormed
<1>2. x \in DOMAIN e.modules[m].exports BY <1>1, ModuleFields
<1>3. e.modules[m].exports[x].kind \in {"func", "table"} BY <1>1, ExportAt
<1> QED BY <1>2, <1>3 DEF WellFormed, ExportsWithin, CountOf

(* What looking for a module may find: one of those there are, or a new host
   module, or none. *)
LEMMA FoundModule ==
    ASSUME NEW o, WellFormed(env, o), NEW s \in EnvRecords, Extends(s, env),
           NEW name \in Names, NEW found \in FindRegisteredModule(env, name)
    PROVE  /\ WellFormed(found.env, o) /\ Extends(s, found.env)
           /\ TablesKept(s, env) => TablesKept(s, found.env)
           /\ HostsAdded(env, found.env)
           /\ found.module # Invalid => found.module \in 1..Len(found.env.modules)
<1> DEFINE bound == Bound(env.registered, name)
           t == AppendHostModule(env, name, Fields)
<1>e. env \in EnvRecords BY DEF WellFormed
<1>1. \A m \in bound : m \in 1..Len(env.modules)
  BY DEF Bound, WellFormed
<1>2. CASE bound # {}
  <2>1. found \in {[env |-> env, module |-> m] : m \in bound}
    BY <1>2, Zenon DEF FindRegisteredModule
  <2>2. PICK m \in bound : found = [env |-> env, module |-> m] BY <2>1
  <2>3. found.env = env /\ found.module = m BY <2>2
  <2> QED BY <1>e, <1>1, <2>3, NoHostsAdded
<1>3. CASE bound = {} /\ MakesHosts(env)
  <2>1. found \in {[env |-> t, module |-> Len(env.modules) + 1]}
    BY <1>3, Zenon DEF FindRegisteredModule, MakesHosts
  <2>2. found.env = t /\ found.module = Len(env.modules) + 1 BY <2>1
  <2>3. /\ WellFormed(t, o) /\ Extends(s, t)
        /\ TablesKept(s, env) => TablesKept(s, t)
        /\ HostsAdded(env, t)
        /\ Len(env.modules) + 1 \in 1..Len(t.modules)
    BY <1>3, HostModuleAppended
  <2> QED BY <2>2, <2>3
<1>4. CASE bound = {} /\ ~MakesHosts(env)
  <2>1. env.on_unknown_module = FALSE BY <1>4, <1>e, EnvFields DEF MakesHosts
  <2>2. found \in {[env |-> env, module |-> Invalid]}
    BY <1>4, <2>1, Zenon DEF FindRegisteredModule
  <2>3. found.env = env /\ found.module = Invalid BY <2>2
  <2> QED BY <1>e, <2>3, NoHostsAdded
<1> QED BY <1>2, <1>3, <1>4

(* What looking for a function may find: an export there is, or one that the
   host module has made, or none. *)
LEMMA FoundFunc ==
    ASSUME NEW e, NEW o, WellFormed(e, o), NEW s \in EnvRecords, Extends(s, e),
           MakesHosts(e) => Len(s.modules) = 0, NEW m \in 1..Len(e.modules),
           NEW field \in Fields, NEW sig \in Sigs, NEW owner \in 0..MaxLoads,
           NEW got \in GetFuncExport(e, m, field, sig, owner)
    PROVE  /\ WellFormed(got.env, o) /\ Extends(s, got.env)
           /\ TablesKept(s, e) => TablesKept(s, got.env)
           /\ HostsAdded(e, got.env)
           /\ got.export # Invalid => got.export \in 1..Len(got.env.modules[m].exports)
<1> DEFINE Found(i) == /\ e.modules[m].exports[i].name = field
                       /\ e.modules[m].exports[i].kind = "func"
                       /\ e.funcs[e.modules[m].exports[i].index].sig = sig
           match == {i \in DOMAIN e.modules[m].exports : Found(i)}
           t == AppendFuncExport(e, m, field, sig, owner)
<1>1. e \in EnvRecords BY DEF WellFormed
<1>2. e.modules[m] \in ModuleRecords BY <1>1, ModuleAt
<1>3. /\ DOMAIN e.modules[m].exports = 1..Len(e.modules[m].exports)
      /\ Len(e.modules[m].exports) \in Nat
  BY <1>2, ModuleFields
<1>4. CASE match # {}
  <2>1. got \in {[env |-> e, export |-> i] : i \in match}
    BY <1>4, Zenon DEF GetFuncExport
  <2>2. PICK i \in match : got = [env |-> e, export |-> i] BY <2>1
  <2>3. got.env = e /\ got.export = i /\ i \in 1..Len(e.modules[m].exports)
    BY <1>3, <2>2
  <2> QED BY <1>1, <2>3, NoHostsAdded
<1>5. CASE match = {} /\ field \in e.modules[m].creates
  <2>1. MakesHosts(e) BY <1>5 DEF WellFormed
  <2>2. got \in {[env |-> t, export |-> Len(e.modules[m].exports) + 1]}
    BY <1>5, Zenon DEF GetFuncExport
  <2>3. got.env = t /\ got.export = Len(e.modules[m].exports) + 1 BY <2>2
  <2>4. m > Len(s.modules) BY <2>1
  <2>5. /\ WellFormed(t, o) /\ Extends(s, t)
        /\ TablesKept(s, e) => TablesKept(s, t)
        /\ HostsAdded(e, t)
        /\ Len(t.modules[m].exports) = Len(e.modules[m].exports) + 1
    BY <2>1, <2>4, FuncExportAppended
  <2> QED BY <1>3, <2>3, <2>5
<1>6. CASE match = {} /\ field \notin e.modules[m].creates
  <2>1. got \in {[env |-> e, export |-> Invalid]}
    BY <1>6, Zenon DEF GetFuncExport
  <2>2. got.env = e /\ got.export = Invalid BY <2>1
  <2> QED BY <1>1, <2>2, NoHostsAdded
<1> QED BY <1>4, <1>5, <1>6

(* An import that is found is of what exists, and what resolving it has added
   is kept apart from what was there. *)
LEMMA ResolvedImport ==
    ASSUME NEW o, WellFormed(env, o), NEW s \in EnvRecords, Extends(s, env),
           MakesHosts(env) => Len(s.modules) = 0, loads \in 0..MaxLoads,
           NEW kind \in {"func", "table"}, NEW name \in Names, NEW field \in Fields,
           NEW sig, kind = "func" => sig \in Sigs,
           NEW found \in ResolveImport(kind, name, field, sig)
    PROVE  /\ WellFormed(found.env, o) /\ Extends(s, found.env)
           /\ TablesKept(s, env) => TablesKept(s, found.env)
           /\ HostsAdded(env, found.env)
           /\ found.export.kind \in {"func", "table"} =>
                 found.export.index \in 1..CountOf(found.env, found.export.kind)
<1> DEFINE ByName(e, m) ==
               {[env |-> e, export |-> IF x = Invalid THEN NoExport
                                       ELSE e.modules[m].exports[x]] :
                    x \in GetExport(e, m, field)}
           BySignature(e, m) ==
               UNION {IF got.export = Invalid THEN ByName(got.env, m)
                      ELSE {[env |-> got.env,
                             export |-> got.env.modules[m].exports[got.export]]} :
                          got \in GetFuncExport(e, m, field, sig, loads)}
           Result(r) == IF r.module = Invalid
                        THEN {[env |-> r.env, export |-> NoExport]}
                        ELSE IF kind = "func" THEN BySignature(r.env, r.module)
                                              ELSE ByName(r.env, r.module)
           Good(e) == /\ WellFormed(e, o) /\ Extends(s, e)
                      /\ TablesKept(s, env) => TablesKept(s, e)
                      /\ HostsAdded(env, e)
           Sound(r) == /\ Good(r.env)
                       /\ r.export.kind \in {"func", "table"} =>
                             r.export.index \in 1..CountOf(r.env, r.export.kind)
<1>e. env \in EnvRecords BY DEF WellFormed
<1>1. PICK r \in FindRegisteredModule(env, name) : found \in Result(r)
  <2>1. found \in UNION {Result(r) : r \in FindRegisteredModule(env, name)}
    BY Zenon DEF ResolveImport
  <2> QED BY <2>1
<1>2. Good(r.env) /\ (r.module # Invalid => r.module \in 1..Len(r.env.modules))
  BY FoundModule
<1>3. NoExport.kind \notin {"func", "table"} BY DEF NoExport
<1>4. ASSUME NEW e, Good(e), NEW m \in 1..Len(e.modules),
             NEW x \in 1..Len(e.modules[m].exports)
      PROVE  Sound([env |-> e, export |-> e.modules[m].exports[x]])
  <2> DEFINE q == [env |-> e, export |-> e.modules[m].exports[x]]
  <2>1. q.env = e /\ q.export = e.modules[m].exports[x] OBVIOUS
  <2>2. WellFormed(e, o) BY <1>4
  <2>3. e.modules[m].exports[x].index \in 1..CountOf(e, e.modules[m].exports[x].kind)
    BY <2>2, ExportSound
  <2> HIDE DEF q
  <2>4. Sound(q) BY <1>4, <2>1, <2>3
  <2> QED BY <2>4 DEF q
<1>5. ASSUME NEW e, Good(e) PROVE Sound([env |-> e, export |-> NoExport])
  BY <1>3, <1>5
<1> HIDE DEF Sound
<1>6. ASSUME NEW e, Good(e), NEW m \in 1..Len(e.modules), NEW q \in ByName(e, m)
      PROVE  Sound(q)
  <2>1. PICK x \in GetExport(e, m, field) :
              q = [env |-> e, export |-> IF x = Invalid THEN NoExport
                                         ELSE e.modules[m].exports[x]]
    BY <1>6
  <2>2. x # Invalid => x \in DOMAIN e.modules[m].exports BY <2>1 DEF GetExport
  <2>3. e.modules[m] \in ModuleRecords BY <1>6, ModuleAt DEF WellFormed
  <2>4. x # Invalid => x \in 1..Len(e.modules[m].exports) BY <2>2, <2>3, ModuleFields
  <2>5. CASE x = Invalid
    <3>1. q = [env |-> e, export |-> NoExport] BY <2>1, <2>5
    <3> QED BY <1>5, <1>6, <3>1
  <2>6. CASE x # Invalid
    <3>1. q = [env |-> e, export |-> e.modules[m].exports[x]] BY <2>1, <2>6
    <3> QED BY <1>4, <1>6, <2>4, <2>6, <3>1
  <2> QED BY <2>5, <2>6
<1> HIDE DEF ByName
<1>7. CASE r.module = Invalid
  <2>1. found = [env |-> r.env, export |-> NoExport] BY <1>1, <1>7
  <2> QED BY <1>2, <1>5, <2>1 DEF Sound
<1>8. CASE r.module # Invalid /\ kind # "func"
  <2>1. found \in ByName(r.env, r.module) BY <1>1, <1>8
  <2>2. Sound(found) BY <1>2, <1>6, <1>8, <2>1
  <2> QED BY <2>2 DEF Sound
<1>9. CASE r.module # Invalid /\ kind = "func"
  <2> DEFINE Outcome(got) ==
               IF got.export = Invalid THEN ByName(got.env, r.module)
               ELSE {[env |-> got.env,
                      export |-> got.env.modules[r.module].exports[got.export]]}
  <2>1. PICK got \in GetFuncExport(r.env, r.module, field, sig, loads) :
              found \in Outcome(got)
    <3>1. found \in UNION {Outcome(g) :
                              g \in GetFuncExport(r.env, r.module, field, sig, loads)}
      BY <1>1, <1>9
    <3> QED BY <3>1
  <2>2. HostsAdded(env, r.env) /\ r.env \in EnvRecords /\ WellFormed(r.env, o)
        /\ Extends(s, r.env)
    BY <1>2 DEF WellFormed
  <2>3. MakesHosts(r.env) => Len(s.modules) = 0 BY <2>2 DEF HostsAdded, MakesHosts
  <2>4. /\ WellFormed(got.env, o) /\ Extends(s, got.env)
        /\ TablesKept(s, r.env) => TablesKept(s, got.env)
        /\ HostsAdded(r.env, got.env)
        /\ got.export # Invalid => got.export \in 1..Len(got.env.modules[r.module].exports)
    BY <1>2, <1>9, <2>2, <2>3, FoundFunc
  <2>5. Good(got.env)
    <3>1. got.env \in EnvRecords BY <2>4 DEF WellFormed
    <3>2. HostsAdded(env, got.env) BY <1>e, <2>2, <2>4, <3>1, HostsAddedTwice
    <3> QED BY <1>2, <2>4, <3>2
  <2>6. r.module \in 1..Len(got.env.modules)
    <3>1. Len(r.env.modules) \in Nat /\ Len(got.env.modules) \in Nat
      BY <2>2, <2>4, EnvFields DEF WellFormed
    <3> QED BY <1>2, <1>9, <2>4, <3>1 DEF HostsAdded
  <2>7. CASE got.export = Invalid
    <3>1. found \in ByName(got.env, r.module) BY <2>1, <2>7
    <3>2. Sound(found) BY <1>6, <2>5, <2>6, <3>1
    <3> QED BY <3>2 DEF Sound
  <2>8. CASE got.export # Invalid
    <3>1. found = [env |-> got.env,
                   export |-> got.env.modules[r.module].exports[got.export]]
      BY <2>1, <2>8
    <3>2. Sound(found) BY <1>4, <2>4, <2>5, <2>6, <2>8, <3>1
    <3> QED BY <3>2 DEF Sound
  <2> QED BY <2>7, <2>8
<1> QED BY <1>7, <1>8, <1>9

-----------------------------------------------------------------------------
(* The invariant, in parts. *)
SegmentRecords == [table : Nat, dst : Nat, src : Seq(RefRecords)]

Phases == {"idle", "read", "init", "start", "read_failed", "init_failed", "ready"}

Control ==
    /\ setup \in Setups /\ phase \in Phases /\ section \in 1..6
    /\ declared \in Seq(Sigs)
    /\ to_define \in Nat /\ pass \in Nat /\ segment \in Nat \ {0}
    /\ loads \in Nat /\ loads <= MaxLoads
    /\ active_elem_segments \in Seq(SegmentRecords)

(* Only while a module is being read do its index spaces run ahead. *)
Open == IF phase = "read" THEN module ELSE 0

Scripted == setup.tool = "spectest-interp"

EnvGood ==
    /\ WellFormed(env, Open)
    /\ MakesHosts(env) <=> ~Scripted
    /\ Scripted => Len(env.modules) >= 1
    /\ phase = "idle" => module = 0 /\ (~Scripted => Len(env.modules) = 0)

(* A load only adds to what there was, until it is known to succeed. *)
LoadGood ==
    phase # "idle" =>
        /\ WellFormed(saved, 0)
        /\ mark = Mark(saved)
        /\ module = Len(saved.modules) + 1
        /\ IF Scripted THEN Len(saved.modules) >= 1 ELSE Len(saved.modules) = 0
        /\ Extends(saved, env)
        /\ phase = "read" => TablesKept(saved, env)
        /\ phase = "read_failed" => env = saved
        /\ phase # "read_failed" =>
              module <= Len(env.modules) /\ (Scripted => Len(env.modules) = module)

(* What has been declared is there, with the signature declared. *)
FuncsFound ==
    phase \in {"read", "init", "start", "ready"} =>
        \A i \in 1..Len(declared) :
            /\ i <= Len(env.modules[module].funcs)
            /\ env.modules[module].funcs[i] \in 1..Len(env.funcs)
            /\ env.funcs[env.modules[module].funcs[i]].sig = declared[i]

(* The index spaces run ahead by exactly what a count has announced: the next
   that is made will have the next index. *)
Announced(name) == IF Sections[section] = name THEN to_define ELSE 0

FuncsAhead(r, made, ahead, nf) ==
    /\ Len(r.funcs) = made + ahead
    /\ \A i \in made + 1 .. made + ahead : r.funcs[i] = nf + (i - made)

TablesAhead(r, made, ahead, nt) ==
    /\ Len(r.tables) = made + ahead
    /\ \A i \in 1..made : r.tables[i] \in 1..nt
    /\ \A i \in made + 1 .. made + ahead : r.tables[i] = nt + (i - made)

SpacesAnnounced ==
    phase = "read" =>
        /\ to_define > 0 => section \in {2, 3}
        /\ FuncsAhead(env.modules[module], Len(declared), Announced("function"),
                      Len(env.funcs))
        /\ \E made \in Nat :
              TablesAhead(env.modules[module], made, Announced("table"), Len(env.tables))

(* A reference is to the function it was made of. *)
Live(e, ref) ==
    ref # Null => ref.index \in 1..Len(e.funcs) /\ e.funcs[ref.index].owner = ref.owner

SegmentFound(e, x) ==
    x.table \in 1..Len(e.tables) /\ \A i \in 1..Len(x.src) : Live(e, x.src[i])

SegmentsFound ==
    phase \in {"read", "init"} =>
        \A k \in 1..Len(active_elem_segments) : SegmentFound(env, active_elem_segments[k])

ToolsInv ==
    Control /\ EnvGood /\ LoadGood /\ FuncsFound /\ SpacesAnnounced /\ SegmentsFound

-----------------------------------------------------------------------------
LEMMA SetupFields ==
    ASSUME setup \in Setups
    PROVE  /\ setup.tool \in {"spectest-interp", "wasm-interp"}
           /\ setup.sigs \subseteq Sigs
           /\ setup.max_funcs \in Nat /\ setup.max_segments \in Nat
           /\ setup.bulk_memory \in BOOLEAN /\ setup.start_traps \in BOOLEAN
           /\ setup.reference_types \in BOOLEAN
           /\ setup.reference_types => setup.bulk_memory
           /\ \A l \in setup.limits :
                 /\ l.initial \in Nat /\ l.max \in Int
                 /\ l = [initial |-> l.initial, max |-> l.max]
                 /\ l.max # NoMax => l.initial <= l.max
<1>1. setup \in Setup BY LoaderAssumption
<1>2. MaxTableSize \in Nat BY LoaderAssumption
<1>3. /\ setup.tool \in {"spectest-interp", "wasm-interp"}
      /\ setup.sigs \subseteq Sigs
      /\ setup.max_funcs \in 0..3 /\ setup.max_segments \in 0..2
      /\ setup.bulk_memory \in BOOLEAN /\ setup.start_traps \in BOOLEAN
      /\ setup.reference_types \in BOOLEAN
      /\ setup.reference_types => setup.bulk_memory
      /\ setup.limits \subseteq [initial : 0..MaxTableSize, max : (0 - 1)..MaxTableSize]
      /\ \A l \in setup.limits : l.max # NoMax => l.initial <= l.max
  BY <1>1 DEF Setup
<1>4. ASSUME NEW l \in setup.limits
      PROVE  l.initial \in Nat /\ l.max \in Int /\ l = [initial |-> l.initial, max |-> l.max]
  <2>1. l \in [initial : 0..MaxTableSize, max : (0 - 1)..MaxTableSize] BY <1>3
  <2> QED BY <1>2, <2>1
<1> QED BY <1>3, <1>4

LEMMA BoundsNat == {MaxTableSize, MaxItems, MaxLoads} \subseteq Nat
BY LoaderAssumption

LEMMA SectionNames ==
    /\ DOMAIN Sections = 1..6 /\ Len(Sections) = 6
    /\ \A n \in 1..6 :
          /\ Sections[n] = "import" <=> n = 1
          /\ Sections[n] = "function" <=> n = 2
          /\ Sections[n] = "table" <=> n = 3
          /\ Sections[n] = "export" <=> n = 4
          /\ Sections[n] = "start" <=> n = 5
          /\ Sections[n] = "elem" <=> n = 6
<1>1. DOMAIN Sections = 1..6 /\ Len(Sections) = 6 BY DEF Sections
<1>2. /\ Sections[1] = "import" /\ Sections[2] = "function" /\ Sections[3] = "table"
      /\ Sections[4] = "export" /\ Sections[5] = "start" /\ Sections[6] = "elem"
  BY DEF Sections
<1>3. \A n \in 1..6 : n \in {1, 2, 3, 4, 5, 6} OBVIOUS
<1> QED BY <1>1, <1>2, <1>3

LEMMA ExtendsItself ==
    ASSUME NEW e \in EnvRecords
    PROVE  Extends(e, e) /\ TablesKept(e, e)
<1>1. Len(e.modules) \in Nat /\ Len(e.funcs) \in Nat /\ Len(e.tables) \in Nat
  BY EnvFields
<1>2. \A n \in Nat : n + 1 .. n = {} OBVIOUS
<1>3. Len(e.modules) + 1 .. Len(e.modules) = {} BY <1>1, <1>2
<1> QED BY <1>1, <1>3 DEF Extends, TablesKept

(***************************************************************************)
(* A load begins.                                                          *)
(***************************************************************************)
LEMMA BeginLoadStep ==
    ASSUME ToolsInv, phase = "idle", BeginLoad, UNCHANGED setup
    PROVE  ToolsInv'
<1> DEFINE r == NewModule(FALSE, {})
           ms == Append(env.modules, r)
<1>1. /\ phase' = "read" /\ module' = Len(env.modules) + 1
      /\ env' = [env EXCEPT !.modules = ms]
      /\ section' = 1 /\ mark' = Mark(env) /\ to_define' = 0 /\ declared' = << >>
      /\ active_elem_segments' = << >> /\ loads' = loads + 1 /\ saved' = env
      /\ pass' = pass /\ segment' = segment /\ setup' = setup /\ loads < MaxLoads
  BY DEF BeginLoad
<1>2. WellFormed(env, 0) /\ env \in EnvRecords /\ Len(env.modules) \in Nat
      /\ Len(env.funcs) \in Nat /\ Len(env.tables) \in Nat
  BY EnvFields DEF ToolsInv, EnvGood, Open, WellFormed
<1>3. /\ r \in ModuleRecords
      /\ r.exports = << >> /\ r.funcs = << >> /\ r.tables = << >>
      /\ r.name = NoName /\ r.creates = {}
  <2>1. FALSE \in BOOLEAN /\ {} \in SUBSET Fields OBVIOUS
  <2> QED BY <2>1, NewModuleFields
<1> HIDE DEF r
<1>4. ms \in Seq(ModuleRecords) BY <1>2, <1>3, EnvFields, Appended
<1>m. ms = Append(env.modules, r) OBVIOUS
<1> HIDE DEF ms
<1>5. /\ env' \in EnvRecords /\ env'.modules = ms
      /\ env'.funcs = env.funcs /\ env'.tables = env.tables
      /\ env'.bindings = env.bindings /\ env'.registered = env.registered
      /\ env'.on_unknown_module = env.on_unknown_module
  BY <1>1, <1>2, <1>4, WithModules
<1> DEFINE o == Len(env.modules) + 1
           t == env'
<1>6. /\ WellFormed(t, o) /\ Len(t.modules) = Len(env.modules) + 1
      /\ t.modules[Len(env.modules) + 1] = r
  <2>1. WellFormed(env, o)
    <3>1. \A m \in 1..Len(env.modules) : m # 0 BY <1>2
    <3> QED BY <1>2, <3>1 DEF WellFormed
  <2>2. t \in EnvRecords /\ t.modules = Append(env.modules, r) /\ t.funcs = env.funcs
        /\ t.tables = env.tables /\ t.bindings = env.bindings
        /\ t.registered = env.registered
        /\ t.on_unknown_module = env.on_unknown_module
    BY <1>5, <1>m
  <2> HIDE DEF o, t
  <2> QED BY <1>3, <2>1, <2>2, ModuleAppended
<1>7. Extends(env, t) /\ TablesKept(env, t)
  <2>1. t \in EnvRecords /\ t.modules = Append(env.modules, r) /\ t.funcs = env.funcs
        /\ t.tables = env.tables /\ t.bindings = env.bindings
        /\ t.registered = env.registered
        /\ t.on_unknown_module = env.on_unknown_module
    BY <1>5, <1>m
  <2> HIDE DEF t
  <2>2. Extends(env, env) BY <1>2, ExtendsItself
  <2>3. Extends(env, t) BY <1>2, <1>3, <2>1, <2>2, AppendedExtends
  <2> QED BY <2>1, <2>3 DEF TablesKept
<1>8. Control'
  <2>1. << >> \in Seq(Sigs) /\ << >> \in Seq(SegmentRecords) OBVIOUS
  <2> QED BY <1>1, <2>1, BoundsNat DEF ToolsInv, Control, Phases
<1>9. Scripted' <=> Scripted BY <1>1 DEF Scripted
<1>10. EnvGood'
  <2>1. MakesHosts(env') <=> MakesHosts(env) BY <1>5 DEF MakesHosts
  <2>2. Open' = o BY <1>1 DEF Open
  <2>3. Len(env'.modules) >= 1 BY <1>2, <1>6
  <2> QED BY <1>1, <1>6, <1>9, <2>1, <2>2, <2>3 DEF ToolsInv, EnvGood
<1>11. LoadGood'
  <2>1. IF Scripted THEN Len(env.modules) >= 1 ELSE Len(env.modules) = 0
    BY DEF ToolsInv, EnvGood
  <2>2. Extends(saved', env') /\ TablesKept(saved', env') BY <1>1, <1>7
  <2>3. module' <= Len(env'.modules) /\ Len(env'.modules) = module' BY <1>1, <1>2, <1>6
  <2> HIDE DEF o, t
  <2> QED BY <1>1, <1>2, <1>9, <2>1, <2>2, <2>3 DEF LoadGood
<1>12. env'.modules[module'] = r BY <1>1, <1>6
<1>13. Len(declared') = 0 /\ Len(active_elem_segments') = 0 BY <1>1
<1>14. FuncsFound' BY <1>13 DEF FuncsFound
<1>15. SegmentsFound' BY <1>13 DEF SegmentsFound
<1>16. SpacesAnnounced'
  <2>1. Announced("function")' = 0 /\ Announced("table")' = 0 BY <1>1 DEF Announced
  <2>2. FuncsAhead(r, 0, 0, Len(env'.funcs)) BY <1>3 DEF FuncsAhead
  <2>3. TablesAhead(r, 0, 0, Len(env'.tables)) BY <1>3 DEF TablesAhead
  <2> QED BY <1>1, <1>12, <1>13, <2>1, <2>2, <2>3 DEF SpacesAnnounced
<1> QED BY <1>8, <1>10, <1>11, <1>14, <1>15, <1>16 DEF ToolsInv

(***************************************************************************)
(* What every step of the reader can rely on and has to do.                *)
(***************************************************************************)
LEMMA WhileRead ==
    ASSUME ToolsInv, phase = "read"
    PROVE  /\ WellFormed(env, module) /\ env \in EnvRecords
           /\ WellFormed(saved, 0) /\ saved \in EnvRecords
           /\ Extends(saved, env) /\ TablesKept(saved, env)
           /\ module = Len(saved.modules) + 1 /\ Len(saved.modules) \in Nat
           /\ module \in 1..Len(env.modules) /\ module > Len(saved.modules)
           /\ mark = Mark(saved)
           /\ MakesHosts(env) => Len(saved.modules) = 0
           /\ loads \in 0..MaxLoads
           /\ env.modules[module] \in ModuleRecords
           /\ Len(env.funcs) \in Nat /\ Len(env.tables) \in Nat
           /\ Len(env.modules) \in Nat /\ Len(declared) \in Nat
<1>1. WellFormed(env, module) BY DEF ToolsInv, EnvGood, Open
<1>2. env \in EnvRecords BY <1>1 DEF WellFormed
<1>3. /\ WellFormed(saved, 0) /\ Extends(saved, env) /\ TablesKept(saved, env)
      /\ module = Len(saved.modules) + 1 /\ mark = Mark(saved)
      /\ module <= Len(env.modules)
      /\ MakesHosts(env) => Len(saved.modules) = 0
  BY DEF ToolsInv, LoadGood, EnvGood
<1>4. saved \in EnvRecords BY <1>3 DEF WellFormed
<1>5. Len(saved.modules) \in Nat /\ Len(env.modules) \in Nat /\ Len(env.funcs) \in Nat
      /\ Len(env.tables) \in Nat
  BY <1>2, <1>4, EnvFields
<1>6. module \in 1..Len(env.modules) /\ module > Len(saved.modules) BY <1>3, <1>5
<1>7. loads \in 0..MaxLoads /\ Len(declared) \in Nat
  BY BoundsNat DEF ToolsInv, Control
<1> QED BY <1>1, <1>2, <1>3, <1>4, <1>5, <1>6, <1>7, ModuleAt

LEMMA ReadOn ==
    ASSUME ToolsInv, phase = "read", UNCHANGED <<setup, phase, module, mark, saved>>,
           WellFormed(env', module), Extends(saved, env'), TablesKept(saved, env'),
           env'.on_unknown_module = env.on_unknown_module,
           Len(env.modules) <= Len(env'.modules),
           Scripted => Len(env'.modules) = Len(env.modules)
    PROVE  EnvGood' /\ LoadGood'
<1>1. /\ setup' = setup /\ phase' = "read" /\ module' = module /\ mark' = mark
      /\ saved' = saved
  OBVIOUS
<1>2. (Scripted' <=> Scripted) /\ Open' = module BY <1>1 DEF Scripted, Open
<1>3. MakesHosts(env') <=> MakesHosts(env) BY DEF MakesHosts
<1>4. Len(env.modules) \in Nat /\ Len(env'.modules) \in Nat /\ module \in Nat
      /\ module <= Len(env.modules)
  BY WhileRead, EnvFields DEF WellFormed
<1>5. EnvGood' BY <1>1, <1>2, <1>3, <1>4 DEF ToolsInv, EnvGood
<1>6. LoadGood' BY <1>1, <1>2, <1>4 DEF ToolsInv, LoadGood
<1> QED BY <1>5, <1>6

(* A read that fails leaves the environment as it was. *)
LEMMA FailStep ==
    ASSUME ToolsInv, phase = "read", NEW e, NEW error, Fail(e, error), UNCHANGED setup,
           e \in EnvRecords, Extends(saved, e), TablesKept(saved, e), section' \in 1..6
    PROVE  ToolsInv'
<1>1. /\ env' = ResetToMarkPoint(e, mark) /\ phase' = "read_failed"
      /\ module' = module /\ mark' = mark /\ to_define' = to_define
      /\ declared' = declared /\ active_elem_segments' = active_elem_segments
      /\ pass' = pass /\ segment' = segment /\ loads' = loads /\ saved' = saved
      /\ setup' = setup
  BY DEF Fail
<1>2. WellFormed(saved, 0) /\ saved \in EnvRecords /\ mark = Mark(saved) BY WhileRead
<1>3. env' = saved BY <1>1, <1>2, ResetRestores
<1>4. Control' BY <1>1 DEF ToolsInv, Control, Phases
<1>5. Scripted' <=> Scripted BY <1>1 DEF Scripted
<1>6. MakesHosts(saved) <=> ~Scripted
  BY DEF ToolsInv, EnvGood, LoadGood, Extends, MakesHosts
<1>7. EnvGood'
  <2>1. Open' = 0 BY <1>1 DEF Open
  <2> QED BY <1>1, <1>2, <1>3, <1>5, <1>6, <2>1 DEF ToolsInv, LoadGood, EnvGood
<1>8. LoadGood'
  <2>1. Extends(saved', env') BY <1>1, <1>2, <1>3, ExtendsItself
  <2> QED BY <1>1, <1>2, <1>3, <1>5, <2>1 DEF ToolsInv, LoadGood
<1>9. FuncsFound' /\ SpacesAnnounced' /\ SegmentsFound'
  BY <1>1 DEF FuncsFound, SpacesAnnounced, SegmentsFound
<1> QED BY <1>4, <1>7, <1>8, <1>9 DEF ToolsInv

LEMMA MalformedStep ==
    ASSUME ToolsInv, Malformed, UNCHANGED setup
    PROVE  ToolsInv'
<1>1. phase = "read" /\ Fail(env, NoMessage) /\ section' = section BY DEF Malformed
<1>2. section' \in 1..6 BY <1>1 DEF ToolsInv, Control
<1> QED BY <1>1, <1>2, WhileRead, FailStep

(* With nothing announced, the index spaces are of what exists. *)
LEMMA SpacesComplete ==
    ASSUME ToolsInv, phase = "read", to_define = 0
    PROVE  /\ Len(env.modules[module].funcs) = Len(declared)
           /\ SpacesWithin(env.modules[module], Len(env.funcs), Len(env.tables))
           /\ WellFormed(env, 0)
<1> DEFINE r == env.modules[module]
<1>1. r \in ModuleRecords /\ Len(declared) \in Nat /\ WellFormed(env, module)
  BY WhileRead
<1>2. Announced("function") = 0 /\ Announced("table") = 0 BY DEF Announced
<1>3. FuncsAhead(r, Len(declared), 0, Len(env.funcs))
      /\ \E made \in Nat : TablesAhead(r, made, 0, Len(env.tables))
  BY <1>2 DEF ToolsInv, SpacesAnnounced
<1>4. Len(r.funcs) = Len(declared) BY <1>1, <1>3 DEF FuncsAhead
<1>5. \A i \in 1..Len(declared) : r.funcs[i] \in 1..Len(env.funcs)
  BY DEF ToolsInv, FuncsFound
<1>6. \A i \in 1..Len(r.tables) : r.tables[i] \in 1..Len(env.tables)
  BY <1>3 DEF TablesAhead
<1>7. SpacesWithin(r, Len(env.funcs), Len(env.tables))
  BY <1>1, <1>4, <1>5, <1>6, ModuleFields DEF SpacesWithin
<1>8. WellFormed(env, 0) BY <1>1, <1>7 DEF WellFormed
<1> QED BY <1>4, <1>7, <1>8

LEMMA EndReadStep ==
    ASSUME ToolsInv, EndRead, UNCHANGED setup
    PROVE  ToolsInv'
<1>1. /\ phase = "read" /\ to_define = 0 /\ phase' = "init" /\ pass' = FirstPass
      /\ segment' = 1 /\ env' = env /\ loads' = loads /\ setup' = setup
      /\ module' = module /\ section' = section /\ mark' = mark /\ to_define' = to_define
      /\ declared' = declared /\ active_elem_segments' = active_elem_segments
      /\ saved' = saved
  BY DEF EndRead, readerVars
<1>2. WellFormed(env, 0) BY <1>1, SpacesComplete
<1>3. Control'
  <2>1. FirstPass \in Nat BY DEF FirstPass
  <2> QED BY <1>1, <2>1 DEF ToolsInv, Control, Phases
<1>4. Scripted' <=> Scripted BY <1>1 DEF Scripted
<1>5. EnvGood'
  <2>1. Open' = 0 BY <1>1 DEF Open
  <2> QED BY <1>1, <1>2, <1>4, <2>1 DEF ToolsInv, EnvGood
<1>6. LoadGood' BY <1>1, <1>4 DEF ToolsInv, LoadGood
<1>7. FuncsFound' BY <1>1 DEF ToolsInv, FuncsFound
<1>8. SegmentsFound' BY <1>1 DEF ToolsInv, SegmentsFound
<1>9. SpacesAnnounced' BY <1>1 DEF SpacesAnnounced
<1> QED BY <1>3, <1>5, <1>6, <1>7, <1>8, <1>9 DEF ToolsInv

-----------------------------------------------------------------------------
(* Index spaces. *)
FuncSpaceSet(e, m, is) == [e EXCEPT !.modules[m].funcs = is]

TableSpaceSet(e, m, is) == [e EXCEPT !.modules[m].tables = is]

LEMMA FuncSpaceChanged ==
    ASSUME NEW e, NEW m, WellFormed(e, m), m \in 1..Len(e.modules),
           NEW is \in Seq(Nat), NEW t, t = FuncSpaceSet(e, m, is)
    PROVE  /\ WellFormed(t, m) /\ Len(t.modules) = Len(e.modules)
           /\ t.modules[m].funcs = is /\ t.modules[m].tables = e.modules[m].tables
           /\ t.funcs = e.funcs /\ t.tables = e.tables
           /\ t.on_unknown_module = e.on_unknown_module
           /\ \A s \in EnvRecords :
                 /\ Extends(s, e) /\ m > Len(s.modules) => Extends(s, t)
                 /\ TablesKept(s, e) => TablesKept(s, t)
<1> DEFINE r == [e.modules[m] EXCEPT !.funcs = is]
<1>1. e.modules[m] \in ModuleRecords BY ModuleAt DEF WellFormed
<1>2. t = ModuleSet(e, m, r) BY Zenon DEF FuncSpaceSet, ModuleSet
<1>3. /\ r \in ModuleRecords /\ r.funcs = is /\ r.name = e.modules[m].name
      /\ r.creates = e.modules[m].creates /\ r.exports = e.modules[m].exports
      /\ r.tables = e.modules[m].tables
  BY <1>1, WithFuncSpace
<1> HIDE DEF r
<1>4. ExportsWithin(r, Len(e.funcs), Len(e.tables)) BY <1>3 DEF WellFormed, ExportsWithin
<1>5. /\ WellFormed(t, m) /\ Len(t.modules) = Len(e.modules) /\ t.modules[m] = r
      /\ t.funcs = e.funcs /\ t.tables = e.tables
      /\ t.on_unknown_module = e.on_unknown_module
      /\ \A s \in EnvRecords :
            /\ Extends(s, e) /\ m > Len(s.modules) => Extends(s, t)
            /\ TablesKept(s, e) => TablesKept(s, t)
  <2> DEFINE o == m
  <2>1. WellFormed(e, o) /\ (m # o => SpacesWithin(r, Len(e.funcs), Len(e.tables))) OBVIOUS
  <2>2. WellFormed(t, o) => WellFormed(t, m) OBVIOUS
  <2> HIDE DEF o
  <2> QED BY <1>2, <1>3, <1>4, <2>1, <2>2, ModuleChanged
<1> QED BY <1>3, <1>5

LEMMA TableSpaceChanged ==
    ASSUME NEW e, NEW m, WellFormed(e, m), m \in 1..Len(e.modules),
           NEW is \in Seq(Nat), NEW t, t = TableSpaceSet(e, m, is)
    PROVE  /\ WellFormed(t, m) /\ Len(t.modules) = Len(e.modules)
           /\ t.modules[m].tables = is /\ t.modules[m].funcs = e.modules[m].funcs
           /\ t.funcs = e.funcs /\ t.tables = e.tables
           /\ t.on_unknown_module = e.on_unknown_module
           /\ \A s \in EnvRecords :
                 /\ Extends(s, e) /\ m > Len(s.modules) => Extends(s, t)
                 /\ TablesKept(s, e) => TablesKept(s, t)
<1> DEFINE r == [e.modules[m] EXCEPT !.tables = is]
<1>1. e.modules[m] \in ModuleRecords BY ModuleAt DEF WellFormed
<1>2. t = ModuleSet(e, m, r) BY Zenon DEF TableSpaceSet, ModuleSet
<1>3. /\ r \in ModuleRecords /\ r.tables = is /\ r.name = e.modules[m].name
      /\ r.creates = e.modules[m].creates /\ r.exports = e.modules[m].exports
      /\ r.funcs = e.modules[m].funcs
  BY <1>1, WithTableSpace
<1> HIDE DEF r
<1>4. ExportsWithin(r, Len(e.funcs), Len(e.tables)) BY <1>3 DEF WellFormed, ExportsWithin
<1>5. /\ WellFormed(t, m) /\ Len(t.modules) = Len(e.modules) /\ t.modules[m] = r
      /\ t.funcs = e.funcs /\ t.tables = e.tables
      /\ t.on_unknown_module = e.on_unknown_module
      /\ \A s \in EnvRecords :
            /\ Extends(s, e) /\ m > Len(s.modules) => Extends(s, t)
            /\ TablesKept(s, e) => TablesKept(s, t)
  <2> DEFINE o == m
  <2>1. WellFormed(e, o) /\ (m # o => SpacesWithin(r, Len(e.funcs), Len(e.tables))) OBVIOUS
  <2>2. WellFormed(t, o) => WellFormed(t, m) OBVIOUS
  <2> HIDE DEF o
  <2> QED BY <1>2, <1>3, <1>4, <2>1, <2>2, ModuleChanged
<1> QED BY <1>3, <1>5

-----------------------------------------------------------------------------
(* The callbacks of the reader. *)
LEMMA SectionEntered ==
    ASSUME ToolsInv, NEW name, InSection(name)
    PROVE  /\ phase = "read" /\ to_define = 0 /\ section' \in 1..6
           /\ Sections[section'] = name /\ section <= section'
<1>1. PICK n \in section..Len(Sections) : Sections[n] = name /\ section' = n
  BY DEF InSection
<1>2. section \in 1..6 BY DEF ToolsInv, Control
<1> QED BY <1>1, <1>2, SectionNames DEF InSection

LEMMA ReadFields ==
    ASSUME ToolsInv, phase = "read", NEW e, Read(e), UNCHANGED setup
    PROVE  /\ env' = e /\ phase' = "read" /\ module' = module /\ mark' = mark
           /\ pass' = pass /\ segment' = segment /\ loads' = loads /\ saved' = saved
           /\ setup' = setup
BY DEF Read

LEMMA ReadStep ==
    ASSUME ToolsInv, phase = "read", NEW e, Read(e), UNCHANGED setup,
           WellFormed(e, module), Extends(saved, e), TablesKept(saved, e),
           e.on_unknown_module = env.on_unknown_module,
           Len(env.modules) <= Len(e.modules),
           Scripted => Len(e.modules) = Len(env.modules),
           section' \in 1..6, declared' \in Seq(Sigs), to_define' \in Nat,
           active_elem_segments' \in Seq(SegmentRecords),
           FuncsFound', SpacesAnnounced', SegmentsFound'
    PROVE  ToolsInv'
<1>1. /\ env' = e /\ phase' = "read" /\ module' = module /\ mark' = mark
      /\ pass' = pass /\ segment' = segment /\ loads' = loads /\ saved' = saved
      /\ setup' = setup
  BY ReadFields
<1>2. EnvGood' /\ LoadGood' BY <1>1, ReadOn
<1>3. Control' BY <1>1 DEF ToolsInv, Control
<1> QED BY <1>2, <1>3 DEF ToolsInv

LEMMA FuncsStillFound ==
    ASSUME FuncsFound, phase \in {"read", "init", "start", "ready"},
           declared' = declared, module' = module, Len(declared) \in Nat,
           Len(env.funcs) \in Nat, Len(env'.funcs) \in Nat,
           Len(env.funcs) <= Len(env'.funcs),
           \A f \in 1..Len(env.funcs) : env'.funcs[f] = env.funcs[f],
           \A i \in 1..Len(declared) :
              /\ i <= Len(env'.modules[module].funcs)
              /\ env'.modules[module].funcs[i] = env.modules[module].funcs[i]
    PROVE  FuncsFound'
<1>1. \A f \in 1..Len(env.funcs) : f \in 1..Len(env'.funcs) OBVIOUS
<1>2. \A i \in 1..Len(declared) :
         /\ env.modules[module].funcs[i] \in 1..Len(env.funcs)
         /\ env.funcs[env.modules[module].funcs[i]].sig = declared[i]
  BY DEF FuncsFound
<1> QED BY <1>1, <1>2 DEF FuncsFound

LEMMA SegmentsStillFound ==
    ASSUME ToolsInv, phase \in {"read", "init"},
           active_elem_segments' = active_elem_segments,
           Len(env.funcs) \in Nat, Len(env'.funcs) \in Nat,
           Len(env.funcs) <= Len(env'.funcs),
           \A f \in 1..Len(env.funcs) : env'.funcs[f] = env.funcs[f],
           Len(env.tables) \in Nat, Len(env'.tables) \in Nat,
           Len(env.tables) <= Len(env'.tables)
    PROVE  SegmentsFound'
<1>1. /\ \A f \in 1..Len(env.funcs) : f \in 1..Len(env'.funcs)
      /\ \A k \in 1..Len(env.tables) : k \in 1..Len(env'.tables)
  OBVIOUS
<1>2. \A ref : Live(env, ref) => Live(env', ref) BY <1>1 DEF Live
<1>3. \A x : SegmentFound(env, x) => SegmentFound(env', x)
  BY <1>1, <1>2 DEF SegmentFound
<1> QED BY <1>3 DEF ToolsInv, SegmentsFound

(***************************************************************************)
(* Imports.                                                                *)
(***************************************************************************)
(* What is known of an import that has been resolved. *)
LEMMA ImportResolved ==
    ASSUME ToolsInv, phase = "read", NEW kind \in {"func", "table"}, NEW name \in Names,
           NEW field \in Fields, NEW sig, kind = "func" => sig \in Sigs,
           NEW found \in ResolveImport(kind, name, field, sig)
    PROVE  /\ WellFormed(found.env, module) /\ found.env \in EnvRecords
           /\ Extends(saved, found.env) /\ TablesKept(saved, found.env)
           /\ found.env.on_unknown_module = env.on_unknown_module
           /\ Len(env.modules) <= Len(found.env.modules)
           /\ Scripted => Len(found.env.modules) = Len(env.modules)
           /\ module \in 1..Len(found.env.modules)
           /\ found.env.modules[module].funcs = env.modules[module].funcs
           /\ found.env.modules[module].tables = env.modules[module].tables
           /\ Len(found.env.funcs) \in Nat /\ Len(env.funcs) <= Len(found.env.funcs)
           /\ \A f \in 1..Len(env.funcs) : found.env.funcs[f] = env.funcs[f]
           /\ found.env.tables = env.tables
           /\ found.export.kind \in {"func", "table"} =>
                 found.export.index \in 1..CountOf(found.env, found.export.kind)
<1>1. /\ WellFormed(env, module) /\ saved \in EnvRecords /\ Extends(saved, env)
      /\ TablesKept(saved, env) /\ (MakesHosts(env) => Len(saved.modules) = 0)
      /\ loads \in 0..MaxLoads /\ module \in 1..Len(env.modules)
      /\ Len(env.modules) \in Nat
  BY WhileRead
<1>2. /\ WellFormed(found.env, module) /\ Extends(saved, found.env)
      /\ TablesKept(saved, env) => TablesKept(saved, found.env)
      /\ HostsAdded(env, found.env)
      /\ found.export.kind \in {"func", "table"} =>
            found.export.index \in 1..CountOf(found.env, found.export.kind)
  <2> DEFINE o == module
           s == saved
  <2>1. WellFormed(env, o) /\ s \in EnvRecords /\ Extends(s, env)
        /\ (MakesHosts(env) => Len(s.modules) = 0)
    BY <1>1
  <2> HIDE DEF o, s
  <2>2. /\ WellFormed(found.env, o) /\ Extends(s, found.env)
        /\ TablesKept(s, env) => TablesKept(s, found.env)
        /\ HostsAdded(env, found.env)
        /\ found.export.kind \in {"func", "table"} =>
              found.export.index \in 1..CountOf(found.env, found.export.kind)
    BY <1>1, <2>1, ResolvedImport
  <2> QED BY <2>2 DEF o, s
<1>3. found.env \in EnvRecords BY <1>2 DEF WellFormed
<1>4. /\ Len(env.modules) <= Len(found.env.modules)
      /\ found.env.modules[module].funcs = env.modules[module].funcs
      /\ found.env.modules[module].tables = env.modules[module].tables
      /\ Len(env.funcs) <= Len(found.env.funcs)
      /\ \A f \in 1..Len(env.funcs) : found.env.funcs[f] = env.funcs[f]
      /\ found.env.tables = env.tables
      /\ found.env.on_unknown_module = env.on_unknown_module
      /\ MakesHosts(env) \/ found.env = env
  BY <1>1, <1>2, Zenon DEF HostsAdded
<1>5. Scripted => Len(found.env.modules) = Len(env.modules)
  BY <1>4 DEF ToolsInv, EnvGood
<1>6. Len(found.env.modules) \in Nat /\ Len(found.env.funcs) \in Nat
  BY <1>3, EnvFields
<1>7. module \in 1..Len(found.env.modules) BY <1>1, <1>4, <1>6
<1> QED BY <1>1, <1>2, <1>3, <1>4, <1>5, <1>6, <1>7

LEMMA OnImportFuncStep ==
    ASSUME ToolsInv, NEW name \in Names, NEW field \in Fields, NEW sig \in setup.sigs,
           OnImportFunc(name, field, sig), UNCHANGED setup
    PROVE  ToolsInv'
<1>1. /\ phase = "read" /\ to_define = 0 /\ section' \in 1..6
      /\ Sections[section'] = "import"
  BY SectionEntered DEF OnImportFunc
<1>2. sig \in Sigs BY SetupFields DEF ToolsInv, Control
<1>3. PICK found \in ResolveImport("func", name, field, sig) :
         IF found.export.kind # "func"
            \/ found.env.funcs[found.export.index].sig # sig
         THEN Fail(found.env, NoMessage)
         ELSE /\ Read(MapFunc(found.env, found.export.index))
              /\ declared' = Append(declared, sig)
              /\ UNCHANGED <<to_define, start_func_index, active_elem_segments>>
  BY Zenon DEF OnImportFunc
<1> DEFINE d == found.env
           index == found.export.index
<1>4. /\ WellFormed(d, module) /\ d \in EnvRecords
      /\ Extends(saved, d) /\ TablesKept(saved, d)
      /\ d.on_unknown_module = env.on_unknown_module
      /\ Len(env.modules) <= Len(d.modules)
      /\ Scripted => Len(d.modules) = Len(env.modules)
      /\ module \in 1..Len(d.modules)
      /\ d.modules[module].funcs = env.modules[module].funcs
      /\ d.modules[module].tables = env.modules[module].tables
      /\ Len(d.funcs) \in Nat /\ Len(env.funcs) <= Len(d.funcs)
      /\ \A f \in 1..Len(env.funcs) : d.funcs[f] = env.funcs[f]
      /\ d.tables = env.tables
      /\ found.export.kind \in {"func", "table"} =>
            index \in 1..CountOf(d, found.export.kind)
  <2> DEFINE kind == "func"
  <2>1. kind \in {"func", "table"} /\ found \in ResolveImport(kind, name, field, sig)
    OBVIOUS
  <2> HIDE DEF kind
  <2> QED BY <1>1, <1>2, <2>1, ImportResolved
<1>5. CASE found.export.kind # "func" \/ d.funcs[index].sig # sig
  <2>1. Fail(d, NoMessage) BY <1>3, <1>5
  <2> HIDE DEF d
  <2> QED BY <1>1, <1>4, <2>1, FailStep
<1>6. CASE found.export.kind = "func" /\ d.funcs[index].sig = sig
  <2>1. /\ Read(MapFunc(d, index)) /\ declared' = Append(declared, sig)
        /\ to_define' = to_define /\ active_elem_segments' = active_elem_segments
    BY <1>3, <1>6
  <2>2. index \in 1..Len(d.funcs) BY <1>4, <1>6 DEF CountOf
  <2> HIDE DEF d, index
  <2> DEFINE funcs == env.modules[module].funcs
             is == Append(funcs, index)
             t == FuncSpaceSet(d, module, is)
  <2>3. Read(t)
    <3>1. MapFunc(d, index) = [d EXCEPT !.modules[module].funcs =
                                  Append(d.modules[module].funcs, index)]
      BY Zenon DEF MapFunc
    <3> QED BY <1>4, <2>1, <3>1 DEF FuncSpaceSet
  <2>4. funcs \in Seq(Nat) /\ Len(funcs) \in Nat BY <1>1, WhileRead, ModuleFields
  <2>5. /\ is \in Seq(Nat) /\ Len(is) = Len(funcs) + 1 /\ is[Len(funcs) + 1] = index
        /\ \A i \in 1..Len(funcs) : is[i] = funcs[i]
    <3>1. index \in Nat BY <1>4, <2>2
    <3> QED BY <2>4, <3>1, Appended
  <2>6. Len(funcs) = Len(declared) BY <1>1, SpacesComplete
  <2> HIDE DEF is, funcs
  <2>7. /\ WellFormed(t, module) /\ Len(t.modules) = Len(d.modules)
        /\ t.modules[module].funcs = is
        /\ t.modules[module].tables = d.modules[module].tables
        /\ t.funcs = d.funcs /\ t.tables = d.tables
        /\ t.on_unknown_module = d.on_unknown_module
        /\ \A s \in EnvRecords :
              /\ Extends(s, d) /\ module > Len(s.modules) => Extends(s, t)
              /\ TablesKept(s, d) => TablesKept(s, t)
    BY <1>4, <2>5, FuncSpaceChanged
  <2> HIDE DEF t
  <2>8. Extends(saved, t) /\ TablesKept(saved, t) BY <1>1, <1>4, <2>7, WhileRead
  <2>9. env' = t /\ module' = module BY <2>3 DEF Read
  <2>10. Len(env.funcs) \in Nat /\ Len(env.tables) \in Nat /\ Len(declared) \in Nat
    BY <1>1, WhileRead
  <2>11. /\ declared' \in Seq(Sigs) /\ Len(declared') = Len(declared) + 1
         /\ declared'[Len(declared) + 1] = sig
         /\ \A i \in 1..Len(declared) : declared'[i] = declared[i]
    <3>1. declared \in Seq(Sigs) BY DEF ToolsInv, Control
    <3> QED BY <1>2, <2>1, <3>1, Appended
  <2>12. FuncsFound'
    <3>1. ASSUME NEW i \in 1..Len(declared')
          PROVE  /\ i <= Len(is) /\ is[i] \in 1..Len(t.funcs)
                 /\ t.funcs[is[i]].sig = declared'[i]
      <4>1. CASE i = Len(declared) + 1
        BY <1>6, <2>2, <2>5, <2>6, <2>7, <2>10, <2>11, <4>1
      <4>2. CASE i # Len(declared) + 1
        <5>1. i \in 1..Len(declared) BY <2>10, <2>11, <4>2
        <5>2. /\ funcs[i] \in 1..Len(env.funcs)
              /\ env.funcs[funcs[i]].sig = declared[i]
          BY <1>1, <5>1 DEF ToolsInv, FuncsFound, funcs
        <5>3. is[i] = funcs[i] /\ i <= Len(is) BY <2>5, <2>6, <2>10, <5>1
        <5>4. funcs[i] \in 1..Len(d.funcs) BY <1>4, <2>10, <5>2
        <5> QED BY <1>4, <2>7, <2>11, <5>1, <5>2, <5>3, <5>4
      <4> QED BY <4>1, <4>2
    <3> QED BY <2>7, <2>9, <3>1 DEF FuncsFound
  <2>13. SegmentsFound' BY <1>1, <1>4, <2>1, <2>7, <2>9, <2>10, SegmentsStillFound
  <2>14. SpacesAnnounced'
    <3>1. Announced("function")' = 0 /\ Announced("table")' = 0 /\ to_define' = 0
      BY <1>1, <2>1 DEF Announced
    <3>2. FuncsAhead(t.modules[module], Len(declared'), 0, Len(t.funcs))
      BY <2>5, <2>6, <2>7, <2>10, <2>11 DEF FuncsAhead
    <3>3. PICK made \in Nat :
              TablesAhead(env.modules[module], made, Announced("table"), Len(env.tables))
      BY <1>1 DEF ToolsInv, SpacesAnnounced
    <3>4. Announced("table") = 0 BY <1>1 DEF Announced
    <3>5. TablesAhead(t.modules[module], made, 0, Len(t.tables))
      BY <1>4, <2>7, <3>3, <3>4 DEF TablesAhead
    <3> QED BY <2>9, <3>1, <3>2, <3>5 DEF SpacesAnnounced
  <2>15. active_elem_segments' \in Seq(SegmentRecords) /\ to_define' \in Nat
    BY <1>1, <2>1 DEF ToolsInv, Control
  <2> QED BY <1>1, <1>4, <2>3, <2>7, <2>8, <2>11, <2>12, <2>13, <2>14, <2>15, ReadStep
<1> QED BY <1>5, <1>6

LEMMA OnImportTableStep ==
    ASSUME ToolsInv, NEW name \in Names, NEW field \in Fields, NEW limits \in setup.limits,
           OnImportTable(name, field, limits), UNCHANGED setup
    PROVE  ToolsInv'
<1>1. /\ phase = "read" /\ to_define = 0 /\ section' \in 1..6
      /\ Sections[section'] = "import"
  BY SectionEntered DEF OnImportTable
<1>2. PICK found \in ResolveImport("table", name, field, Invalid) :
         \/ \E error : Fail(found.env, error)
         \/ /\ found.export.kind = "table"
            /\ Read(MapTable(found.env, found.export.index))
            /\ UNCHANGED <<to_define, declared, start_func_index, active_elem_segments>>
  BY Zenon DEF OnImportTable
<1> DEFINE d == found.env
           index == found.export.index
<1>4. /\ WellFormed(d, module) /\ d \in EnvRecords
      /\ Extends(saved, d) /\ TablesKept(saved, d)
      /\ d.on_unknown_module = env.on_unknown_module
      /\ Len(env.modules) <= Len(d.modules)
      /\ Scripted => Len(d.modules) = Len(env.modules)
      /\ module \in 1..Len(d.modules)
      /\ d.modules[module].funcs = env.modules[module].funcs
      /\ d.modules[module].tables = env.modules[module].tables
      /\ Len(d.funcs) \in Nat /\ Len(env.funcs) <= Len(d.funcs)
      /\ \A f \in 1..Len(env.funcs) : d.funcs[f] = env.funcs[f]
      /\ d.tables = env.tables
      /\ found.export.kind \in {"func", "table"} =>
            index \in 1..CountOf(d, found.export.kind)
  <2> DEFINE kind == "table"
  <2>1. /\ kind \in {"func", "table"}
        /\ found \in ResolveImport(kind, name, field, Invalid)
        /\ kind # "func"
    OBVIOUS
  <2> HIDE DEF kind
  <2> QED BY <1>1, <2>1, ImportResolved
<1>5. ASSUME NEW error, Fail(d, error) PROVE ToolsInv'
  <2> HIDE DEF d
  <2> QED BY <1>1, <1>4, <1>5, FailStep
<1>6. CASE /\ found.export.kind = "table"
           /\ Read(MapTable(d, index))
           /\ UNCHANGED <<to_define, declared, start_func_index, active_elem_segments>>
  <2>1. /\ Read(MapTable(d, index)) /\ declared' = declared
        /\ to_define' = to_define /\ active_elem_segments' = active_elem_segments
    BY <1>6
  <2>2. index \in 1..Len(d.tables) BY <1>4, <1>6 DEF CountOf
  <2> HIDE DEF d, index
  <2> DEFINE tables == env.modules[module].tables
             is == Append(tables, index)
             t == TableSpaceSet(d, module, is)
  <2>3. Read(t)
    <3>1. MapTable(d, index) = [d EXCEPT !.modules[module].tables =
                                   Append(d.modules[module].tables, index)]
      BY Zenon DEF MapTable
    <3> QED BY <1>4, <2>1, <3>1 DEF TableSpaceSet
  <2>4. tables \in Seq(Nat) /\ Len(tables) \in Nat BY <1>1, WhileRead, ModuleFields
  <2>10. Len(env.funcs) \in Nat /\ Len(env.tables) \in Nat /\ Len(declared) \in Nat
    BY <1>1, WhileRead
  <2>5. /\ is \in Seq(Nat) /\ Len(is) = Len(tables) + 1 /\ is[Len(tables) + 1] = index
        /\ \A i \in 1..Len(tables) : is[i] = tables[i]
    <3>1. index \in Nat BY <1>4, <2>2, <2>10
    <3> QED BY <2>4, <3>1, Appended
  <2> HIDE DEF is
  <2>7. /\ WellFormed(t, module) /\ Len(t.modules) = Len(d.modules)
        /\ t.modules[module].tables = is
        /\ t.modules[module].funcs = d.modules[module].funcs
        /\ t.funcs = d.funcs /\ t.tables = d.tables
        /\ t.on_unknown_module = d.on_unknown_module
        /\ \A s \in EnvRecords :
              /\ Extends(s, d) /\ module > Len(s.modules) => Extends(s, t)
              /\ TablesKept(s, d) => TablesKept(s, t)
    BY <1>4, <2>5, TableSpaceChanged
  <2> HIDE DEF t
  <2>8. Extends(saved, t) /\ TablesKept(saved, t) BY <1>1, <1>4, <2>7, WhileRead
  <2>9. env' = t /\ module' = module BY <2>3 DEF Read
  <2>12. FuncsFound'
    <3>1. \A i \in 1..Len(declared) : i <= Len(env.modules[module].funcs)
      BY <1>1 DEF ToolsInv, FuncsFound
    <3> QED BY <1>1, <1>4, <2>1, <2>7, <2>9, <2>10, <3>1, FuncsStillFound DEF ToolsInv
  <2>13. SegmentsFound' BY <1>1, <1>4, <2>1, <2>7, <2>9, <2>10, SegmentsStillFound
  <2>14. SpacesAnnounced'
    <3>1. Announced("function")' = 0 /\ Announced("table")' = 0 /\ to_define' = 0
      BY <1>1, <2>1 DEF Announced
    <3>a. Announced("function") = 0 /\ Announced("table") = 0 BY <1>1 DEF Announced
    <3>2. FuncsAhead(t.modules[module], Len(declared), 0, Len(t.funcs))
      <4>1. FuncsAhead(env.modules[module], Len(declared), 0, Len(env.funcs))
        BY <1>1, <3>a DEF ToolsInv, SpacesAnnounced
      <4> QED BY <1>4, <2>7, <2>10, <4>1 DEF FuncsAhead
    <3>3. PICK made \in Nat : TablesAhead(env.modules[module], made, 0, Len(env.tables))
      BY <1>1, <3>a DEF ToolsInv, SpacesAnnounced
    <3>4. /\ Len(tables) = made /\ \A i \in 1..made : tables[i] \in 1..Len(env.tables)
      BY <3>3 DEF TablesAhead
    <3> HIDE DEF tables
    <3>5. TablesAhead(t.modules[module], made + 1, 0, Len(t.tables))
      <4>1. Len(is) = made + 1 BY <2>5, <3>4
      <4>2. ASSUME NEW i \in 1..made + 1 PROVE is[i] \in 1..Len(d.tables)
        <5>1. CASE i = made + 1 BY <2>2, <2>5, <3>4, <5>1
        <5>2. CASE i # made + 1
          <6>1. i \in 1..made BY <5>2
          <6> QED BY <1>4, <2>5, <3>4, <6>1
        <5> QED BY <5>1, <5>2
      <4> QED BY <2>7, <4>1, <4>2 DEF TablesAhead
    <3>6. made + 1 \in Nat OBVIOUS
    <3> QED BY <2>1, <2>9, <3>1, <3>2, <3>5, <3>6 DEF SpacesAnnounced
  <2>15. /\ active_elem_segments' \in Seq(SegmentRecords) /\ to_define' \in Nat
         /\ declared' \in Seq(Sigs)
    BY <1>1, <2>1 DEF ToolsInv, Control
  <2> QED BY <1>1, <1>4, <2>3, <2>7, <2>8, <2>12, <2>13, <2>14, <2>15, ReadStep
<1> QED BY <1>2, <1>5, <1>6

(***************************************************************************)
(* Counts.                                                                 *)
(***************************************************************************)
LEMMA Joined ==
    ASSUME NEW S, NEW s \in Seq(S), NEW q \in Seq(S), NEW t, t = s \o q
    PROVE  /\ t \in Seq(S)
           /\ Len(t) = Len(s) + Len(q)
           /\ \A i \in 1..Len(s) : t[i] = s[i]
           /\ \A i \in Len(s) + 1 .. Len(s) + Len(q) : t[i] = q[i - Len(s)]
<1>1. t \in Seq(S) OBVIOUS
<1>2. Len(t) = Len(s) + Len(q) OBVIOUS
<1>3. \A i \in 1..Len(s) : t[i] = s[i] OBVIOUS
<1>4. \A i \in Len(s) + 1 .. Len(s) + Len(q) : t[i] = q[i - Len(s)] OBVIOUS
<1> QED BY <1>1, <1>2, <1>3, <1>4

(* A sequence continued by the numbers that follow n. *)
Numbered(s, n, count) == s \o [i \in 1..count |-> n + i]

IsNumbered(t, s, n, count) ==
    /\ t \in Seq(Nat)
    /\ Len(t) = Len(s) + count
    /\ \A i \in 1..Len(s) : t[i] = s[i]
    /\ \A i \in Len(s) + 1 .. Len(s) + count : t[i] = n + (i - Len(s))

LEMMA CountRead ==
    ASSUME NEW s \in Seq(Nat), NEW n \in Nat, NEW count \in Nat,
           NEW t, t = Numbered(s, n, count)
    PROVE  IsNumbered(t, s, n, count)
<1> DEFINE q == [i \in 1..count |-> n + i]
<1>1. q \in Seq(Nat) /\ Len(q) = count /\ \A i \in 1..count : q[i] = n + i OBVIOUS
<1>2. t = s \o q BY DEF Numbered
<1> HIDE DEF q
<1>3. /\ t \in Seq(Nat) /\ Len(t) = Len(s) + Len(q)
      /\ \A i \in 1..Len(s) : t[i] = s[i]
      /\ \A i \in Len(s) + 1 .. Len(s) + Len(q) : t[i] = q[i - Len(s)]
  <2> DEFINE S == Nat
  <2>1. s \in Seq(S) /\ q \in Seq(S) BY <1>1
  <2> HIDE DEF S
  <2>2. t \in Seq(S) BY <2>1, <1>2, Joined
  <2>3. Len(t) = Len(s) + Len(q) BY <2>1, <1>2, Joined
  <2>4. \A i \in 1..Len(s) : t[i] = s[i] BY <2>1, <1>2, Joined
  <2>5. \A i \in Len(s) + 1 .. Len(s) + Len(q) : t[i] = q[i - Len(s)]
    BY <2>1, <1>2, Joined
  <2> QED BY <2>2, <2>3, <2>4, <2>5, Zenon DEF S
<1>4. Len(s) \in Nat OBVIOUS
<1>5. ASSUME NEW i \in Len(s) + 1 .. Len(s) + count
      PROVE  t[i] = n + (i - Len(s))
  <2>1. i - Len(s) \in 1..count BY <1>4
  <2>2. q[i - Len(s)] = n + (i - Len(s)) BY <1>1, <2>1, Zenon
  <2>3. i \in Len(s) + 1 .. Len(s) + Len(q) BY <1>1
  <2>4. t[i] = q[i - Len(s)] BY <1>3, <2>3, Zenon
  <2> QED BY <2>2, <2>4
<1>6. Len(t) = Len(s) + count BY <1>1, <1>3
<1> QED BY <1>3, <1>5, <1>6, Zenon DEF IsNumbered

LEMMA OnFunctionCountStep ==
    ASSUME ToolsInv, NEW count \in Nat, OnFunctionCount(count), UNCHANGED setup
    PROVE  ToolsInv'
<1> DEFINE funcs == env.modules[module].funcs
           is == Numbered(funcs, Len(env.funcs), count)
           t == FuncSpaceSet(env, module, is)
<1>1. Read(t) BY Zenon DEF OnFunctionCount, FuncSpaceSet, Numbered
<1>2. /\ phase = "read" /\ to_define = 0 /\ section' \in 1..6
      /\ Sections[section'] = "function"
  BY SectionEntered DEF OnFunctionCount
<1>3. section' = 2 BY <1>2, SectionNames
<1>4. /\ to_define' = count /\ declared' = declared
      /\ active_elem_segments' = active_elem_segments
  BY DEF OnFunctionCount
<1>5. /\ WellFormed(env, module) /\ env \in EnvRecords /\ saved \in EnvRecords
      /\ Extends(saved, env) /\ TablesKept(saved, env)
      /\ module \in 1..Len(env.modules) /\ module > Len(saved.modules)
      /\ env.modules[module] \in ModuleRecords
      /\ Len(env.funcs) \in Nat /\ Len(env.tables) \in Nat
      /\ Len(env.modules) \in Nat /\ Len(declared) \in Nat
  BY <1>2, WhileRead
<1>6. Len(funcs) = Len(declared) BY <1>2, SpacesComplete
<1>7. funcs \in Seq(Nat) /\ Len(funcs) \in Nat BY <1>5, ModuleFields
<1>8. IsNumbered(is, funcs, Len(env.funcs), count)
  <2> DEFINE n == Len(env.funcs)
  <2>1. n \in Nat /\ is = Numbered(funcs, n, count) BY <1>5
  <2>2. IsNumbered(is, funcs, n, count) => IsNumbered(is, funcs, Len(env.funcs), count)
    OBVIOUS
  <2> HIDE DEF n, funcs, is
  <2> QED BY <1>7, <2>1, <2>2, CountRead
<1> HIDE DEF is, funcs
<1>9. /\ is \in Seq(Nat) /\ Len(is) = Len(funcs) + count
      /\ \A i \in 1..Len(funcs) : is[i] = funcs[i]
      /\ \A i \in Len(funcs) + 1 .. Len(funcs) + count :
            is[i] = Len(env.funcs) + (i - Len(funcs))
  BY <1>8 DEF IsNumbered
<1>10. /\ WellFormed(t, module) /\ Len(t.modules) = Len(env.modules)
       /\ t.modules[module].funcs = is
       /\ t.modules[module].tables = env.modules[module].tables
       /\ t.funcs = env.funcs /\ t.tables = env.tables
       /\ t.on_unknown_module = env.on_unknown_module
       /\ \A s \in EnvRecords :
             /\ Extends(s, env) /\ module > Len(s.modules) => Extends(s, t)
             /\ TablesKept(s, env) => TablesKept(s, t)
  <2>1. WellFormed(env, module) /\ module \in 1..Len(env.modules) BY <1>5
  <2>2. is \in Seq(Nat) BY <1>9
  <2> QED BY <2>1, <2>2, FuncSpaceChanged
<1> HIDE DEF t
<1>11. Extends(saved, t) /\ TablesKept(saved, t) BY <1>5, <1>10
<1>12. env' = t /\ module' = module /\ phase' = "read" BY <1>1, <1>2, ReadFields
<1>13. FuncsFound'
  <2>1. ASSUME NEW i \in 1..Len(declared)
        PROVE  /\ i <= Len(env'.modules[module].funcs)
               /\ env'.modules[module].funcs[i] = env.modules[module].funcs[i]
    <3>1. i \in 1..Len(funcs) /\ i <= Len(is) BY <1>5, <1>6, <1>9
    <3> QED BY <1>9, <1>10, <1>12, <3>1 DEF funcs
  <2>2. \A f \in 1..Len(env.funcs) : env'.funcs[f] = env.funcs[f] BY <1>10, <1>12
  <2>3. Len(env'.funcs) = Len(env.funcs) BY <1>10, <1>12
  <2>4. FuncsFound BY DEF ToolsInv
  <2> QED BY <1>2, <1>4, <1>5, <1>12, <2>1, <2>2, <2>3, <2>4, FuncsStillFound
<1>14. SegmentsFound' BY <1>2, <1>4, <1>5, <1>10, <1>12, SegmentsStillFound
<1>15. SpacesAnnounced'
  <2>1. Announced("function")' = count /\ Announced("table")' = 0
    BY <1>3, <1>4, SectionNames DEF Announced
  <2>2. FuncsAhead(t.modules[module], Len(declared), count, Len(t.funcs))
    <3>1. /\ Len(is) = Len(declared) + count
          /\ \A i \in Len(declared) + 1 .. Len(declared) + count :
                is[i] = Len(env.funcs) + (i - Len(declared))
      BY <1>6, <1>9
    <3>2. t.modules[module].funcs = is /\ t.funcs = env.funcs BY <1>10
    <3> QED BY <3>1, <3>2, Zenon DEF FuncsAhead
  <2>a. Announced("table") = 0 BY <1>2 DEF Announced
  <2>3. PICK made \in Nat : TablesAhead(env.modules[module], made, 0, Len(env.tables))
    BY <1>2, <2>a DEF ToolsInv, SpacesAnnounced
  <2>4. TablesAhead(t.modules[module], made, 0, Len(t.tables))
    BY <1>10, <2>3 DEF TablesAhead
  <2> QED BY <1>3, <1>4, <1>12, <2>1, <2>2, <2>4 DEF SpacesAnnounced
<1>16. active_elem_segments' \in Seq(SegmentRecords) /\ declared' \in Seq(Sigs)
  BY <1>4 DEF ToolsInv, Control
<1> QED BY <1>1, <1>2, <1>4, <1>5, <1>10, <1>11, <1>13, <1>14, <1>15, <1>16, ReadStep

LEMMA OnTableCountStep ==
    ASSUME ToolsInv, NEW count \in Nat, OnTableCount(count), UNCHANGED setup
    PROVE  ToolsInv'
<1> DEFINE tables == env.modules[module].tables
           is == Numbered(tables, Len(env.tables), count)
           t == TableSpaceSet(env, module, is)
<1>1. Read(t) BY Zenon DEF OnTableCount, TableSpaceSet, Numbered
<1>2. /\ phase = "read" /\ to_define = 0 /\ section' \in 1..6
      /\ Sections[section'] = "table"
  BY SectionEntered DEF OnTableCount
<1>3. section' = 3 BY <1>2, SectionNames
<1>4. /\ to_define' = count /\ declared' = declared
      /\ active_elem_segments' = active_elem_segments
  BY DEF OnTableCount
<1>5. /\ WellFormed(env, module) /\ env \in EnvRecords /\ saved \in EnvRecords
      /\ Extends(saved, env) /\ TablesKept(saved, env)
      /\ module \in 1..Len(env.modules) /\ module > Len(saved.modules)
      /\ env.modules[module] \in ModuleRecords
      /\ Len(env.funcs) \in Nat /\ Len(env.tables) \in Nat
      /\ Len(env.modules) \in Nat /\ Len(declared) \in Nat
  BY <1>2, WhileRead
<1>7. tables \in Seq(Nat) /\ Len(tables) \in Nat BY <1>5, ModuleFields
<1>8. IsNumbered(is, tables, Len(env.tables), count)
  <2> DEFINE n == Len(env.tables)
  <2>1. n \in Nat /\ is = Numbered(tables, n, count) BY <1>5
  <2>2. IsNumbered(is, tables, n, count) => IsNumbered(is, tables, Len(env.tables), count)
    OBVIOUS
  <2> HIDE DEF n, tables, is
  <2> QED BY <1>7, <2>1, <2>2, CountRead
<1>a. Announced("function") = 0 /\ Announced("table") = 0 BY <1>2 DEF Announced
<1>6. PICK made \in Nat : TablesAhead(env.modules[module], made, 0, Len(env.tables))
  BY <1>2, <1>a DEF ToolsInv, SpacesAnnounced
<1>b. Len(tables) = made /\ \A i \in 1..made : tables[i] \in 1..Len(env.tables)
  BY <1>6 DEF TablesAhead
<1> HIDE DEF is, tables
<1>9. /\ is \in Seq(Nat) /\ Len(is) = made + count
      /\ \A i \in 1..made : is[i] = tables[i]
      /\ \A i \in made + 1 .. made + count : is[i] = Len(env.tables) + (i - made)
  BY <1>8, <1>b DEF IsNumbered
<1>10. /\ WellFormed(t, module) /\ Len(t.modules) = Len(env.modules)
       /\ t.modules[module].tables = is
       /\ t.modules[module].funcs = env.modules[module].funcs
       /\ t.funcs = env.funcs /\ t.tables = env.tables
       /\ t.on_unknown_module = env.on_unknown_module
       /\ \A s \in EnvRecords :
             /\ Extends(s, env) /\ module > Len(s.modules) => Extends(s, t)
             /\ TablesKept(s, env) => TablesKept(s, t)
  <2>1. WellFormed(env, module) /\ module \in 1..Len(env.modules) BY <1>5
  <2>2. is \in Seq(Nat) BY <1>9
  <2> QED BY <2>1, <2>2, TableSpaceChanged
<1> HIDE DEF t
<1>11. Extends(saved, t) /\ TablesKept(saved, t) BY <1>5, <1>10
<1>12. env' = t /\ module' = module /\ phase' = "read" BY <1>1, <1>2, ReadFields
<1>13. FuncsFound'
  <2>1. \A i \in 1..Len(declared) : i <= Len(env.modules[module].funcs)
    BY <1>2 DEF ToolsInv, FuncsFound
  <2>2. FuncsFound BY DEF ToolsInv
  <2> QED BY <1>2, <1>4, <1>5, <1>10, <1>12, <2>1, <2>2, FuncsStillFound, SMTT(30)
<1>14. SegmentsFound' BY <1>2, <1>4, <1>5, <1>10, <1>12, SegmentsStillFound
<1>15. SpacesAnnounced'
  <2>1. Announced("function")' = 0 /\ Announced("table")' = count
    BY <1>3, <1>4, SectionNames DEF Announced
  <2>2. FuncsAhead(env.modules[module], Len(declared), 0, Len(env.funcs))
    BY <1>2, <1>a DEF ToolsInv, SpacesAnnounced
  <2>3. FuncsAhead(t.modules[module], Len(declared), 0, Len(t.funcs))
    BY <1>10, <2>2 DEF FuncsAhead
  <2>4. TablesAhead(t.modules[module], made, count, Len(t.tables))
    BY <1>9, <1>10, <1>b DEF TablesAhead
  <2> QED BY <1>3, <1>4, <1>12, <2>1, <2>3, <2>4 DEF SpacesAnnounced
<1>16. active_elem_segments' \in Seq(SegmentRecords) /\ declared' \in Seq(Sigs)
  BY <1>4 DEF ToolsInv, Control
<1> QED BY <1>1, <1>2, <1>4, <1>5, <1>10, <1>11, <1>13, <1>14, <1>15, <1>16, ReadStep

(***************************************************************************)
(* Items.                                                                  *)
(***************************************************************************)
LEMMA OnFunctionStep ==
    ASSUME ToolsInv, NEW sig \in setup.sigs, OnFunction(sig), UNCHANGED setup
    PROVE  ToolsInv'
<1> DEFINE f == [sig |-> sig, owner |-> loads]
           t == [env EXCEPT !.funcs = Append(@, f)]
<1>1. Read(t) BY Zenon DEF OnFunction
<1>2. /\ phase = "read" /\ Sections[section] = "function" /\ to_define > 0
      /\ section' = section /\ to_define' = to_define - 1
      /\ declared' = Append(declared, sig)
      /\ active_elem_segments' = active_elem_segments
  BY DEF OnFunction
<1>3. /\ setup.sigs \subseteq Sigs /\ section \in 1..6 /\ to_define \in Nat
      /\ declared \in Seq(Sigs)
  BY SetupFields DEF ToolsInv, Control
<1>4. section = 2 /\ sig \in Sigs BY <1>2, <1>3, SectionNames
<1>5. /\ WellFormed(env, module) /\ env \in EnvRecords /\ saved \in EnvRecords
      /\ Extends(saved, env) /\ TablesKept(saved, env)
      /\ module \in 1..Len(env.modules)
      /\ env.modules[module] \in ModuleRecords /\ loads \in 0..MaxLoads
      /\ Len(env.funcs) \in Nat /\ Len(env.tables) \in Nat
      /\ Len(env.modules) \in Nat /\ Len(declared) \in Nat
  BY <1>2, WhileRead
<1>6. f \in FuncRecords /\ f.sig = sig BY <1>4, <1>5 DEF FuncRecords
<1> HIDE DEF f
<1>7. /\ WellFormed(t, module) /\ Len(t.funcs) = Len(env.funcs) + 1
      /\ t.funcs[Len(env.funcs) + 1] = f
      /\ \A i \in 1..Len(env.funcs) : t.funcs[i] = env.funcs[i]
      /\ t.modules = env.modules /\ t.tables = env.tables
      /\ t.on_unknown_module = env.on_unknown_module
      /\ \A s \in EnvRecords : Extends(s, env) => Extends(s, t)
  <2> DEFINE o == module
  <2>1. WellFormed(env, o) BY <1>5
  <2>2. WellFormed(t, o) => WellFormed(t, module) OBVIOUS
  <2> HIDE DEF o
  <2> QED BY <1>6, <2>1, <2>2, FuncAppended
<1> HIDE DEF t
<1>8. Extends(saved, t) /\ TablesKept(saved, t) BY <1>5, <1>7 DEF TablesKept
<1>9. env' = t /\ module' = module /\ phase' = "read" BY <1>1, <1>2, ReadFields
<1>10. /\ declared' \in Seq(Sigs) /\ Len(declared') = Len(declared) + 1
       /\ declared'[Len(declared) + 1] = sig
       /\ \A i \in 1..Len(declared) : declared'[i] = declared[i]
  BY <1>2, <1>3, <1>4, Appended
<1> DEFINE funcs == env.modules[module].funcs
<1>11. /\ Len(funcs) = Len(declared) + to_define
       /\ \A i \in Len(declared) + 1 .. Len(declared) + to_define :
             funcs[i] = Len(env.funcs) + (i - Len(declared))
  <2>1. Announced("function") = to_define BY <1>2 DEF Announced
  <2> QED BY <1>2, <2>1 DEF ToolsInv, SpacesAnnounced, FuncsAhead
<1>12. \A i \in 1..Len(declared) :
          /\ funcs[i] \in 1..Len(env.funcs) /\ env.funcs[funcs[i]].sig = declared[i]
  BY <1>2 DEF ToolsInv, FuncsFound
<1>13. env'.modules[module'].funcs = funcs BY <1>7, <1>9
<1> HIDE DEF funcs
<1>14. FuncsFound'
  <2>1. ASSUME NEW i \in 1..Len(declared')
        PROVE  /\ i <= Len(funcs) /\ funcs[i] \in 1..Len(t.funcs)
               /\ t.funcs[funcs[i]].sig = declared'[i]
    <3>1. CASE i = Len(declared) + 1
      <4>1. funcs[i] = Len(env.funcs) + 1 /\ i <= Len(funcs)
        BY <1>2, <1>3, <1>5, <1>11, <3>1
      <4> QED BY <1>5, <1>6, <1>7, <1>10, <3>1, <4>1
    <3>2. CASE i # Len(declared) + 1
      <4>1. i \in 1..Len(declared) /\ i <= Len(funcs)
        BY <1>3, <1>5, <1>10, <1>11, <3>2
      <4>2. funcs[i] \in 1..Len(env.funcs) /\ env.funcs[funcs[i]].sig = declared[i]
        BY <1>12, <4>1
      <4> QED BY <1>5, <1>7, <1>10, <4>1, <4>2, SMTT(30)
    <3> QED BY <3>1, <3>2
  <2> QED BY <1>9, <1>13, <2>1 DEF FuncsFound
<1>15. SegmentsFound'
  <2>1. Len(env.funcs) <= Len(env'.funcs) /\ Len(env'.funcs) \in Nat
    BY <1>5, <1>7, <1>9
  <2>2. \A k \in 1..Len(env.funcs) : env'.funcs[k] = env.funcs[k] BY <1>7, <1>9
  <2>3. Len(env'.tables) = Len(env.tables) BY <1>7, <1>9
  <2> QED BY <1>2, <1>5, <2>1, <2>2, <2>3, SegmentsStillFound
<1>16. SpacesAnnounced'
  <2>1. Announced("function")' = to_define - 1 /\ Announced("table")' = 0
    BY <1>2, <1>4, SectionNames DEF Announced
  <2>a. Announced("table") = 0 BY <1>2 DEF Announced
  <2>b. Len(env'.funcs) = Len(env.funcs) + 1 /\ Len(env'.tables) = Len(env.tables)
    BY <1>7, <1>9
  <2>2. FuncsAhead(env'.modules[module'], Len(declared'), to_define - 1, Len(env'.funcs))
    <3>1. Len(funcs) = Len(declared') + (to_define - 1) BY <1>3, <1>5, <1>10, <1>11
    <3>2. ASSUME NEW i \in Len(declared') + 1 .. Len(declared') + (to_define - 1)
          PROVE  funcs[i] = Len(env'.funcs) + (i - Len(declared'))
      <4>1. i \in Len(declared) + 1 .. Len(declared) + to_define BY <1>3, <1>5, <1>10
      <4>2. funcs[i] = Len(env.funcs) + (i - Len(declared)) BY <1>11, <4>1
      <4> QED BY <1>5, <1>10, <2>b, <4>2
    <3> QED BY <1>13, <3>1, <3>2, Zenon DEF FuncsAhead
  <2>3. PICK made \in Nat : TablesAhead(env.modules[module], made, 0, Len(env.tables))
    BY <1>2, <2>a DEF ToolsInv, SpacesAnnounced
  <2>4. TablesAhead(env'.modules[module'], made, 0, Len(env'.tables))
    BY <1>7, <1>9, <2>3
  <2> QED BY <1>2, <1>4, <2>1, <2>2, <2>4 DEF SpacesAnnounced
<1>17. active_elem_segments' \in Seq(SegmentRecords) /\ to_define' \in Nat
  BY <1>2, <1>3 DEF ToolsInv, Control
<1>18. section' \in 1..6 BY <1>2, <1>3
<1>19. Len(t.modules) = Len(env.modules) BY <1>7
<1> QED BY <1>1, <1>2, <1>5, <1>7, <1>8, <1>10, <1>14, <1>15, <1>16, <1>17, <1>18,
           <1>19, ReadStep

LEMMA LimitFields ==
    ASSUME ToolsInv, NEW limits \in setup.limits
    PROVE  /\ limits.initial \in Nat /\ limits.max \in Int
           /\ limits = [initial |-> limits.initial, max |-> limits.max]
           /\ limits.max # NoMax => limits.initial <= limits.max
<1>1. setup \in Setups BY DEF ToolsInv, Control
<1> QED BY <1>1, SetupFields

LEMMA NewTableFields ==
    ASSUME NEW limits, limits.initial \in Nat, limits.max \in Int,
           limits = [initial |-> limits.initial, max |-> limits.max],
           limits.max # NoMax => limits.initial <= limits.max
    PROVE  /\ NewTable(limits) \in TableRecords
           /\ SizeWithin(NewTable(limits))
           /\ NewTable(limits).limits = limits
           /\ NewTable(limits).entries = [i \in 1..limits.initial |-> Null]
<1> DEFINE xs == [i \in 1..limits.initial |-> Null]
<1>1. Null \in RefRecords BY DEF Null, RefRecords, Invalid
<1>2. xs \in Seq(RefRecords) /\ Len(xs) = limits.initial
  <2> HIDE DEF Null
  <2> QED BY <1>1
<1>3. limits \in LimitRecords BY DEF LimitRecords
<1>4. NewTable(limits) = [entries |-> xs, limits |-> limits] BY DEF NewTable
<1> HIDE DEF xs
<1>5. /\ NewTable(limits) \in TableRecords /\ NewTable(limits).limits = limits
      /\ NewTable(limits).entries = xs
  BY <1>2, <1>3, <1>4 DEF TableRecords
<1>6. SizeWithin(NewTable(limits)) BY <1>2, <1>5 DEF SizeWithin, TableSize
<1> QED BY <1>5, <1>6 DEF xs

LEMMA OnTableStep ==
    ASSUME ToolsInv, NEW limits \in setup.limits, OnTable(limits), UNCHANGED setup
    PROVE  ToolsInv'
<1> DEFINE table == NewTable(limits)
           t == [env EXCEPT !.tables = Append(@, table)]
<1>1. Read(t) BY Zenon DEF OnTable
<1>2. /\ phase = "read" /\ Sections[section] = "table" /\ to_define > 0
      /\ section' = section /\ to_define' = to_define - 1 /\ declared' = declared
      /\ active_elem_segments' = active_elem_segments
  BY DEF OnTable
<1>3. section \in 1..6 /\ to_define \in Nat /\ declared \in Seq(Sigs)
  BY DEF ToolsInv, Control
<1>4. section = 3 BY <1>2, <1>3, SectionNames
<1>5. /\ WellFormed(env, module) /\ env \in EnvRecords /\ saved \in EnvRecords
      /\ Extends(saved, env) /\ TablesKept(saved, env)
      /\ module \in 1..Len(env.modules)
      /\ env.modules[module] \in ModuleRecords
      /\ Len(env.funcs) \in Nat /\ Len(env.tables) \in Nat
      /\ Len(env.modules) \in Nat /\ Len(declared) \in Nat
  BY <1>2, WhileRead
<1>6. table \in TableRecords /\ SizeWithin(table) BY LimitFields, NewTableFields
<1> HIDE DEF table
<1>7. /\ WellFormed(t, module) /\ Len(t.tables) = Len(env.tables) + 1
      /\ \A i \in 1..Len(env.tables) : t.tables[i] = env.tables[i]
      /\ t.modules = env.modules /\ t.funcs = env.funcs
      /\ t.on_unknown_module = env.on_unknown_module
      /\ \A s \in EnvRecords :
            /\ Extends(s, env) => Extends(s, t)
            /\ Extends(s, env) /\ TablesKept(s, env) => TablesKept(s, t)
  <2> DEFINE o == module
  <2>1. WellFormed(env, o) BY <1>5
  <2>2. WellFormed(t, o) => WellFormed(t, module) OBVIOUS
  <2> HIDE DEF o
  <2> QED BY <1>6, <2>1, <2>2, TableAppended
<1> HIDE DEF t
<1>8. Extends(saved, t) /\ TablesKept(saved, t) BY <1>5, <1>7
<1>9. env' = t /\ module' = module /\ phase' = "read" BY <1>1, <1>2, ReadFields
<1>10. env'.modules = env.modules /\ env'.funcs = env.funcs
       /\ Len(env'.tables) = Len(env.tables) + 1
  BY <1>7, <1>9
<1>11. FuncsFound'
  <2>1. \A i \in 1..Len(declared) : i <= Len(env.modules[module].funcs)
    BY <1>2 DEF ToolsInv, FuncsFound
  <2>2. FuncsFound BY DEF ToolsInv
  <2> QED BY <1>2, <1>5, <1>9, <1>10, <2>1, <2>2, FuncsStillFound
<1>12. SegmentsFound'
  <2>1. Len(env.tables) <= Len(env'.tables) /\ Len(env'.tables) \in Nat BY <1>5, <1>10
  <2> QED BY <1>2, <1>5, <1>10, <2>1, SegmentsStillFound
<1>13. SpacesAnnounced'
  <2>1. Announced("function")' = 0 /\ Announced("table")' = to_define - 1
    BY <1>2, <1>4, SectionNames DEF Announced
  <2>a. Announced("function") = 0 /\ Announced("table") = to_define
    BY <1>2, <1>4, SectionNames DEF Announced
  <2>2. FuncsAhead(env.modules[module], Len(declared), 0, Len(env.funcs))
    BY <1>2, <2>a DEF ToolsInv, SpacesAnnounced
  <2>3. FuncsAhead(env'.modules[module'], Len(declared'), 0, Len(env'.funcs))
    BY <1>2, <1>9, <1>10, <2>2
  <2>4. PICK made \in Nat :
            TablesAhead(env.modules[module], made, to_define, Len(env.tables))
    BY <1>2, <2>a DEF ToolsInv, SpacesAnnounced
  <2> DEFINE tables == env.modules[module].tables
  <2>5. /\ Len(tables) = made + to_define
        /\ \A i \in 1..made : tables[i] \in 1..Len(env.tables)
        /\ \A i \in made + 1 .. made + to_define : tables[i] = Len(env.tables) + (i - made)
    BY <2>4 DEF TablesAhead
  <2>6. env'.modules[module'].tables = tables BY <1>9, <1>10
  <2> HIDE DEF tables
  <2>7. TablesAhead(env'.modules[module'], made + 1, to_define - 1, Len(env'.tables))
    <3>1. Len(tables) = made + 1 + (to_define - 1) BY <1>3, <2>5
    <3>2. ASSUME NEW i \in 1..made + 1 PROVE tables[i] \in 1..Len(env'.tables)
      <4>1. CASE i = made + 1
        <5>1. tables[i] = Len(env.tables) + 1 BY <1>2, <1>3, <1>5, <2>5, <4>1
        <5> QED BY <1>5, <1>10, <5>1
      <4>2. CASE i # made + 1
        <5>1. i \in 1..made BY <4>2
        <5>2. tables[i] \in 1..Len(env.tables) BY <2>5, <5>1
        <5> QED BY <1>5, <1>10, <5>2
      <4> QED BY <4>1, <4>2
    <3>3. ASSUME NEW i \in made + 1 + 1 .. made + 1 + (to_define - 1)
          PROVE  tables[i] = Len(env'.tables) + (i - (made + 1))
      <4>1. i \in made + 1 .. made + to_define BY <1>3
      <4>2. tables[i] = Len(env.tables) + (i - made) BY <2>5, <4>1
      <4> QED BY <1>5, <1>10, <4>2
    <3> QED BY <2>6, <3>1, <3>2, <3>3, Zenon DEF TablesAhead
  <2>8. made + 1 \in Nat OBVIOUS
  <2> QED BY <1>2, <1>4, <2>1, <2>3, <2>7, <2>8 DEF SpacesAnnounced
<1>14. active_elem_segments' \in Seq(SegmentRecords) /\ to_define' \in Nat
  BY <1>2, <1>3 DEF ToolsInv, Control
<1>15. section' \in 1..6 /\ declared' \in Seq(Sigs) BY <1>2, <1>3
<1>16. Len(t.modules) = Len(env.modules) BY <1>7
<1> QED BY <1>1, <1>2, <1>5, <1>7, <1>8, <1>11, <1>12, <1>13, <1>14, <1>15, <1>16,
           ReadStep

(***************************************************************************)
(* Exports, the start function and active segments.                        *)
(***************************************************************************)
LEMMA NothingAnnounced ==
    ASSUME ToolsInv, phase = "read", to_define = 0, to_define' = 0, module' = module,
           declared' = declared,
           env'.modules[module].funcs = env.modules[module].funcs,
           env'.modules[module].tables = env.modules[module].tables,
           Len(env'.funcs) = Len(env.funcs), Len(env'.tables) = Len(env.tables)
    PROVE  SpacesAnnounced'
<1>1. Announced("function") = 0 /\ Announced("table") = 0 BY DEF Announced
<1>2. Announced("function")' = 0 /\ Announced("table")' = 0 BY DEF Announced
<1>3. FuncsAhead(env.modules[module], Len(declared), 0, Len(env.funcs))
  BY <1>1 DEF ToolsInv, SpacesAnnounced
<1>4. FuncsAhead(env'.modules[module], Len(declared), 0, Len(env'.funcs))
  BY <1>3 DEF FuncsAhead
<1>5. PICK made \in Nat : TablesAhead(env.modules[module], made, 0, Len(env.tables))
  BY <1>1 DEF ToolsInv, SpacesAnnounced
<1>6. TablesAhead(env'.modules[module], made, 0, Len(env'.tables))
  BY <1>5 DEF TablesAhead
<1> QED BY <1>2, <1>4, <1>6 DEF SpacesAnnounced

LEMMA OnExportStep ==
    ASSUME ToolsInv, NEW kind \in {"func", "table"}, NEW item, NEW field \in Fields,
           OnExport(kind, item, field), UNCHANGED setup
    PROVE  ToolsInv'
<1>1. /\ phase = "read" /\ to_define = 0 /\ section' \in 1..6
      /\ item \in DOMAIN IndexSpace(kind)
  BY SectionEntered DEF OnExport
<1>2. /\ WellFormed(env, module) /\ env \in EnvRecords /\ saved \in EnvRecords
      /\ Extends(saved, env) /\ TablesKept(saved, env)
      /\ module \in 1..Len(env.modules) /\ module > Len(saved.modules)
      /\ env.modules[module] \in ModuleRecords
      /\ Len(env.funcs) \in Nat /\ Len(env.tables) \in Nat
      /\ Len(env.modules) \in Nat /\ Len(declared) \in Nat
  BY <1>1, WhileRead
<1>3. CASE GetExport(env, module, field) # {Invalid}
  <2>1. Fail(env, NoMessage) BY <1>3 DEF OnExport
  <2> QED BY <1>1, <1>2, <2>1, FailStep
<1>4. CASE GetExport(env, module, field) = {Invalid}
  <2> DEFINE index == IndexSpace(kind)[item]
             t == AppendExport(env, module, kind, index, field)
  <2>1. /\ Read(t) /\ to_define' = to_define /\ declared' = declared
        /\ active_elem_segments' = active_elem_segments
    BY <1>4 DEF OnExport
  <2>2. index \in 1..CountOf(env, kind)
    <3>1. SpacesWithin(env.modules[module], Len(env.funcs), Len(env.tables))
      BY <1>1, SpacesComplete
    <3> QED BY <1>1, <3>1 DEF SpacesWithin, IndexSpace, CountOf
  <2> HIDE DEF index
  <2>3. /\ WellFormed(t, module) /\ Len(t.modules) = Len(env.modules)
        /\ \A k \in 1..Len(env.modules) :
              /\ t.modules[k].funcs = env.modules[k].funcs
              /\ t.modules[k].tables = env.modules[k].tables
              /\ t.modules[k].name = env.modules[k].name
        /\ t.funcs = env.funcs /\ t.tables = env.tables
        /\ t.on_unknown_module = env.on_unknown_module
        /\ \A s \in EnvRecords :
              /\ Extends(s, env) /\ module > Len(s.modules) => Extends(s, t)
              /\ TablesKept(s, env) => TablesKept(s, t)
    <3> DEFINE o == module
               m == module
    <3>1. WellFormed(env, o) /\ m \in 1..Len(env.modules) BY <1>2
    <3>2. WellFormed(t, o) => WellFormed(t, module) OBVIOUS
    <3>3. t = AppendExport(env, m, kind, index, field) /\ m = module OBVIOUS
    <3> HIDE DEF o, m, t
    <3> QED BY <2>2, <3>1, <3>2, <3>3, ExportAppended
  <2> HIDE DEF t
  <2>4. Extends(saved, t) /\ TablesKept(saved, t) BY <1>2, <2>3
  <2>5. env' = t /\ module' = module /\ phase' = "read" BY <1>1, <2>1, ReadFields
  <2>6. /\ env'.modules[module].funcs = env.modules[module].funcs
        /\ env'.modules[module].tables = env.modules[module].tables
        /\ env'.funcs = env.funcs /\ env'.tables = env.tables
    BY <1>2, <2>3, <2>5
  <2>7. FuncsFound'
    <3>1. \A i \in 1..Len(declared) : i <= Len(env.modules[module].funcs)
      BY <1>1 DEF ToolsInv, FuncsFound
    <3>2. FuncsFound BY DEF ToolsInv
    <3> QED BY <1>1, <1>2, <2>1, <2>5, <2>6, <3>1, <3>2, FuncsStillFound
  <2>8. SegmentsFound' BY <1>1, <1>2, <2>1, <2>6, SegmentsStillFound
  <2>9. SpacesAnnounced' BY <1>1, <2>1, <2>5, <2>6, NothingAnnounced
  <2>10. /\ active_elem_segments' \in Seq(SegmentRecords) /\ to_define' \in Nat
         /\ declared' \in Seq(Sigs)
    BY <1>1, <2>1 DEF ToolsInv, Control
  <2> QED BY <1>1, <1>2, <2>1, <2>3, <2>4, <2>7, <2>8, <2>9, <2>10, ReadStep
<1> QED BY <1>3, <1>4

(* The environment is read and left alone. *)
LEMMA EnvironmentRead ==
    ASSUME ToolsInv, phase = "read", to_define = 0, section' \in 1..6, Read(env),
           UNCHANGED <<setup, to_define, declared>>,
           active_elem_segments' \in Seq(SegmentRecords), SegmentsFound'
    PROVE  ToolsInv'
<1>1. env' = env /\ module' = module /\ phase' = "read"
      /\ to_define' = to_define /\ declared' = declared
  BY ReadFields
<1>2. /\ WellFormed(env, module) /\ Extends(saved, env) /\ TablesKept(saved, env)
      /\ Len(env.modules) \in Nat
  BY WhileRead
<1>3. FuncsFound' BY <1>1 DEF ToolsInv, FuncsFound
<1>4. SpacesAnnounced' BY <1>1, NothingAnnounced
<1>5. to_define' \in Nat /\ declared' \in Seq(Sigs) BY <1>1 DEF ToolsInv, Control
<1>6. Len(env.modules) <= Len(env.modules) BY <1>2
<1> DEFINE e == env
<1>7. Read(e) /\ WellFormed(e, module) /\ Extends(saved, e) /\ TablesKept(saved, e)
      /\ e.on_unknown_module = env.on_unknown_module
      /\ Len(env.modules) <= Len(e.modules) /\ Len(e.modules) = Len(env.modules)
  BY <1>2, <1>6
<1> HIDE DEF e
<1> QED BY <1>3, <1>4, <1>5, <1>7, ReadStep

LEMMA OnStartFunctionStep ==
    ASSUME ToolsInv, NEW item, OnStartFunction(item), UNCHANGED setup
    PROVE  ToolsInv'
<1>1. phase = "read" /\ to_define = 0 /\ section' \in 1..6
  BY SectionEntered DEF OnStartFunction
<1>2. /\ env \in EnvRecords /\ Extends(saved, env) /\ TablesKept(saved, env)
  BY <1>1, WhileRead
<1>3. CASE Fail(env, NoMessage) BY <1>1, <1>2, <1>3, FailStep
<1>4. CASE Read(env) /\ UNCHANGED <<to_define, declared, active_elem_segments>>
  <2>1. active_elem_segments' = active_elem_segments /\ env' = env /\ phase' = "read"
    BY <1>1, <1>4, ReadFields
  <2>2. SegmentsFound' BY <1>1, <2>1 DEF ToolsInv, SegmentsFound
  <2>3. active_elem_segments' \in Seq(SegmentRecords) BY <2>1 DEF ToolsInv, Control
  <2>4. UNCHANGED <<setup, to_define, declared>> BY <1>4
  <2> QED BY <1>1, <1>4, <2>2, <2>3, <2>4, EnvironmentRead
<1> QED BY <1>3, <1>4, Zenon DEF OnStartFunction

SegmentSource(item) ==
    IF item = 0 THEN << >> ELSE <<FuncRef(env.modules[module].funcs[item])>>

LEMMA FuncRefFields ==
    ASSUME NEW f \in 1..Len(env.funcs), env \in EnvRecords
    PROVE  FuncRef(f) \in RefRecords /\ Live(env, FuncRef(f))
<1>1. Len(env.funcs) \in Nat BY EnvFields
<1>2. env.funcs[f] \in FuncRecords BY EnvFields, SequenceFields
<1>3. env.funcs[f].owner \in Nat BY <1>2, BoundsNat DEF FuncRecords
<1>4. FuncRef(f).index = f /\ FuncRef(f).owner = env.funcs[f].owner BY DEF FuncRef
<1>5. FuncRef(f) \in RefRecords BY <1>1, <1>3 DEF FuncRef, RefRecords
<1>6. Live(env, FuncRef(f)) BY <1>4 DEF Live
<1> QED BY <1>5, <1>6

LEMMA SegmentSourceFields ==
    ASSUME ToolsInv, phase = "read", to_define = 0,
           NEW item \in 0..Len(env.modules[module].funcs)
    PROVE  /\ SegmentSource(item) \in Seq(RefRecords)
           /\ \A i \in 1..Len(SegmentSource(item)) : Live(env, SegmentSource(item)[i])
<1>1. CASE item = 0
  <2>1. SegmentSource(item) = << >> BY <1>1 DEF SegmentSource
  <2>2. << >> \in Seq(RefRecords) /\ 1..Len(<< >>) = {} OBVIOUS
  <2> QED BY <2>1, <2>2
<1>2. CASE item # 0
  <2> DEFINE f == env.modules[module].funcs[item]
             ref == FuncRef(f)
  <2>1. SegmentSource(item) = <<ref>> BY <1>2 DEF SegmentSource
  <2>2. env \in EnvRecords /\ env.modules[module] \in ModuleRecords
        /\ SpacesWithin(env.modules[module], Len(env.funcs), Len(env.tables))
    BY WhileRead, SpacesComplete
  <2>3. item \in DOMAIN env.modules[module].funcs
    BY <1>2, <2>2, ModuleFields
  <2>4. f \in 1..Len(env.funcs) BY <2>2, <2>3 DEF SpacesWithin
  <2> HIDE DEF f
  <2>5. ref \in RefRecords /\ Live(env, ref) BY <2>2, <2>4, FuncRefFields
  <2> HIDE DEF ref
  <2>6. /\ <<ref>> \in Seq(RefRecords) /\ 1..Len(<<ref>>) = {1} /\ <<ref>>[1] = ref
    BY <2>5
  <2> QED BY <2>1, <2>5, <2>6
<1> QED BY <1>1, <1>2

LEMMA OnActiveElemSegmentStep ==
    ASSUME ToolsInv, NEW table, NEW offset \in Nat, NEW item,
           OnActiveElemSegment(table, offset, item), UNCHANGED setup
    PROVE  ToolsInv'
<1> DEFINE src == SegmentSource(item)
           x == [table |-> env.modules[module].tables[table], dst |-> offset, src |-> src]
<1>1. phase = "read" /\ to_define = 0 /\ section' \in 1..6
  BY SectionEntered DEF OnActiveElemSegment
<1>2. /\ table \in DOMAIN env.modules[module].tables
      /\ item \in 0..Len(env.modules[module].funcs)
      /\ active_elem_segments' = Append(active_elem_segments, x)
      /\ Read(env) /\ to_define' = to_define /\ declared' = declared
  BY DEF OnActiveElemSegment, SegmentSource
<1>3. /\ SpacesWithin(env.modules[module], Len(env.funcs), Len(env.tables))
      /\ Len(env.tables) \in Nat
  BY <1>1, SpacesComplete, WhileRead
<1>4. env.modules[module].tables[table] \in 1..Len(env.tables)
  BY <1>2, <1>3 DEF SpacesWithin
<1>5. /\ src \in Seq(RefRecords)
      /\ \A i \in 1..Len(src) : Live(env, src[i])
  BY <1>1, <1>2, SegmentSourceFields
<1> HIDE DEF src
<1>6. x \in SegmentRecords /\ SegmentFound(env, x)
  <2>1. x.table = env.modules[module].tables[table] /\ x.src = src OBVIOUS
  <2>2. x \in SegmentRecords BY <1>3, <1>4, <1>5 DEF SegmentRecords
  <2>3. SegmentFound(env, x) BY <1>4, <1>5, <2>1 DEF SegmentFound
  <2> QED BY <2>2, <2>3
<1> HIDE DEF x
<1>7. active_elem_segments \in Seq(SegmentRecords) BY DEF ToolsInv, Control
<1>8. /\ active_elem_segments' \in Seq(SegmentRecords)
      /\ Len(active_elem_segments') = Len(active_elem_segments) + 1
      /\ active_elem_segments'[Len(active_elem_segments) + 1] = x
      /\ \A k \in 1..Len(active_elem_segments) :
            active_elem_segments'[k] = active_elem_segments[k]
      /\ Len(active_elem_segments) \in Nat
  BY <1>2, <1>6, <1>7, Appended
<1>9. env' = env BY <1>1, <1>2, ReadFields
<1>10. SegmentsFound'
  <2>1. ASSUME NEW k \in 1..Len(active_elem_segments')
        PROVE  SegmentFound(env, active_elem_segments'[k])
    <3>1. CASE k = Len(active_elem_segments) + 1 BY <1>6, <1>8, <3>1
    <3>2. CASE k # Len(active_elem_segments) + 1
      <4>1. k \in 1..Len(active_elem_segments) BY <1>8, <3>2
      <4> QED BY <1>1, <1>8, <4>1 DEF ToolsInv, SegmentsFound
    <3> QED BY <3>1, <3>2
  <2> QED BY <1>9, <2>1 DEF SegmentsFound
<1>11. UNCHANGED <<setup, to_define, declared>> BY <1>2
<1> QED BY <1>1, <1>2, <1>8, <1>10, <1>11, EnvironmentRead

LEMMA ReadNextStep ==
    ASSUME ToolsInv, ReadNext, UNCHANGED setup
    PROVE  ToolsInv'
<1>1. /\ setup.max_funcs \in Nat /\ MaxItems \in Nat /\ MaxTableSize \in Nat
  BY SetupFields, BoundsNat DEF ToolsInv, Control
<1>2. ASSUME NEW n \in Names, NEW f \in Fields, NEW s \in setup.sigs, OnImportFunc(n, f, s)
      PROVE  ToolsInv'
  BY <1>2, OnImportFuncStep
<1>3. ASSUME NEW n \in Names, NEW f \in Fields, NEW l \in setup.limits,
             OnImportTable(n, f, l)
      PROVE  ToolsInv'
  BY <1>3, OnImportTableStep
<1>4. ASSUME NEW count \in 1..setup.max_funcs, OnFunctionCount(count) PROVE ToolsInv'
  <2>1. count \in Nat BY <1>1
  <2> QED BY <1>4, <2>1, OnFunctionCountStep
<1>5. ASSUME NEW count \in 1..MaxItems, OnTableCount(count) PROVE ToolsInv'
  <2>1. count \in Nat BY <1>1
  <2> QED BY <1>5, <2>1, OnTableCountStep
<1>6. ASSUME NEW s \in setup.sigs, OnFunction(s) PROVE ToolsInv'
  BY <1>6, OnFunctionStep
<1>7. ASSUME NEW l \in setup.limits, OnTable(l) PROVE ToolsInv' BY <1>7, OnTableStep
<1>8. ASSUME NEW k \in {"func", "table"}, NEW i, NEW f \in Fields, OnExport(k, i, f)
      PROVE  ToolsInv'
  BY <1>8, OnExportStep
<1>9. ASSUME NEW i, OnStartFunction(i) PROVE ToolsInv' BY <1>9, OnStartFunctionStep
<1>10. ASSUME NEW t, NEW d \in 0..MaxTableSize, NEW i, OnActiveElemSegment(t, d, i)
       PROVE  ToolsInv'
  <2>1. d \in Nat BY <1>1
  <2> QED BY <1>10, <2>1, OnActiveElemSegmentStep
<1>11. Malformed => ToolsInv' BY MalformedStep
<1>12. EndRead => ToolsInv' BY EndReadStep
<1> QED BY <1>2, <1>3, <1>4, <1>5, <1>6, <1>7, <1>8, <1>9, <1>10, <1>11, <1>12, Zenon
        DEF ReadNext

(***************************************************************************)
(* Executor::Initialize and the code that runs: only the entries of tables *)
(* change.                                                                 *)
(***************************************************************************)
AllLive(e) ==
    \A k \in 1..Len(e.tables) : \A i \in 1..Len(e.tables[k].entries) :
        Live(e, e.tables[k].entries[i])

OnlyEntries(e, t) ==
    /\ Len(t.tables) = Len(e.tables)
    /\ t.modules = e.modules /\ t.funcs = e.funcs /\ t.bindings = e.bindings
    /\ t.registered = e.registered /\ t.on_unknown_module = e.on_unknown_module

TableChanged(e, o, t) ==
    /\ WellFormed(t, o)
    /\ OnlyEntries(e, t)
    /\ \A s \in EnvRecords : Extends(s, e) => Extends(s, t)
    /\ AllLive(e) => AllLive(t)

LEMMA LiveEntriesChanged ==
    ASSUME NEW e, NEW o, WellFormed(e, o), NEW k \in 1..Len(e.tables),
           NEW xs \in Seq(RefRecords),
           e.tables[k].limits.max # NoMax => Len(xs) <= e.tables[k].limits.max,
           \A i \in 1..Len(xs) :
              Live(e, xs[i]) \/ \E j \in 1..Len(e.tables[k].entries) : xs[i] = e.tables[k].entries[j],
           NEW t, t = EntriesSet(e, k, xs)
    PROVE  TableChanged(e, o, t)
<1>1. /\ WellFormed(t, o)
      /\ Len(t.tables) = Len(e.tables)
      /\ t.tables[k].entries = xs
      /\ \A i \in 1..Len(e.tables) : i # k => t.tables[i] = e.tables[i]
      /\ t.modules = e.modules /\ t.funcs = e.funcs /\ t.bindings = e.bindings
      /\ t.registered = e.registered /\ t.on_unknown_module = e.on_unknown_module
      /\ \A s \in EnvRecords : Extends(s, e) => Extends(s, t)
  BY EntriesChanged
<1>2. \A ref : Live(e, ref) <=> Live(t, ref) BY <1>1 DEF Live
<1>3. ASSUME AllLive(e) PROVE AllLive(t)
  <2>1. ASSUME NEW j \in 1..Len(t.tables), NEW i \in 1..Len(t.tables[j].entries)
        PROVE  Live(e, t.tables[j].entries[i])
    <3>1. CASE j = k
      <4>1. i \in 1..Len(xs) /\ t.tables[j].entries[i] = xs[i] BY <1>1, <2>1, <3>1
      <4> QED BY <1>3, <4>1 DEF AllLive
    <3>2. CASE j # k
      <4>1. t.tables[j] = e.tables[j] /\ j \in 1..Len(e.tables) BY <1>1, <3>2
      <4> QED BY <1>3, <2>1, <4>1 DEF AllLive
    <3> QED BY <3>1, <3>2
  <2> QED BY <1>2, <2>1 DEF AllLive
<1> QED BY <1>1, <1>3, Zenon DEF TableChanged, OnlyEntries

LEMMA RefsOfFields ==
    ASSUME WellFormed(env, 0), NEW m \in 1..Len(env.modules), NEW ref \in RefsOf(m)
    PROVE  ref \in RefRecords /\ Live(env, ref)
<1>1. Null \in RefRecords /\ Live(env, Null)
  BY DEF Null, RefRecords, Invalid, Live
<1>2. ASSUME NEW f \in Range(env.modules[m].funcs), ref = FuncRef(f)
      PROVE  ref \in RefRecords /\ Live(env, ref)
  <2>1. PICK i \in DOMAIN env.modules[m].funcs : f = env.modules[m].funcs[i]
    BY <1>2 DEF Range
  <2>2. env \in EnvRecords /\ Len(env.modules) \in Nat BY EnvFields DEF WellFormed
  <2>3. m # 0 BY <2>2
  <2>4. f \in 1..Len(env.funcs) BY <2>1, <2>3 DEF WellFormed, SpacesWithin
  <2> QED BY <1>2, <2>2, <2>4, FuncRefFields
<1> QED BY <1>1, <1>2 DEF RefsOf

LEMMA TableOf ==
    ASSUME WellFormed(env, 0), NEW m \in 1..Len(env.modules),
           NEW k \in Range(env.modules[m].tables)
    PROVE  k \in 1..Len(env.tables)
<1>1. PICK i \in DOMAIN env.modules[m].tables : k = env.modules[m].tables[i]
  BY DEF Range
<1>2. Len(env.modules) \in Nat BY EnvFields DEF WellFormed
<1>3. m # 0 BY <1>2
<1> QED BY <1>1, <1>3 DEF WellFormed, SpacesWithin

LEMMA TableSetChanges ==
    ASSUME WellFormed(env, 0), NEW m \in 1..Len(env.modules), TableSet(m)
    PROVE  TableChanged(env, 0, env')
<1>1. PICK k \in Range(env.modules[m].tables), ref \in RefsOf(m) :
         \E i \in DOMAIN env.tables[k].entries :
            env' = [env EXCEPT !.tables[k].entries[i] = ref]
  BY Zenon DEF TableSet
<1>2. PICK i \in DOMAIN env.tables[k].entries :
         env' = [env EXCEPT !.tables[k].entries[i] = ref]
  BY <1>1, Zenon
<1> DEFINE old == env.tables[k].entries
           xs == [old EXCEPT ![i] = ref]
           t == env'
           o == 0
<1>3. t = EntriesSet(env, k, xs) BY <1>2, Zenon DEF EntriesSet
<1>4. k \in 1..Len(env.tables) BY TableOf
<1>5. env \in EnvRecords BY DEF WellFormed
<1>6. /\ old \in Seq(RefRecords) /\ Len(old) \in Nat /\ DOMAIN old = 1..Len(old)
  BY <1>4, <1>5, TableAt
<1>7. ref \in RefRecords /\ Live(env, ref) BY RefsOfFields
<1>8. SizeWithin(env.tables[k]) BY <1>4 DEF WellFormed
<1>9. env.tables[k].limits.max # NoMax => Len(old) <= env.tables[k].limits.max
  BY <1>8 DEF SizeWithin, TableSize
<1>i. i \in DOMAIN old BY <1>2
<1>o. WellFormed(env, o) /\ (TableChanged(env, o, t) => TableChanged(env, 0, env'))
  OBVIOUS
<1>u. old = env.tables[k].entries OBVIOUS
<1> HIDE DEF old
<1>10. /\ xs \in Seq(RefRecords) /\ Len(xs) = Len(old) /\ xs[i] = ref
       /\ \A j \in DOMAIN old : j # i => xs[j] = old[j]
  BY <1>6, <1>7, <1>i, Replaced
<1> HIDE DEF xs, t, o
<1>11. ASSUME NEW j \in 1..Len(xs)
       PROVE  Live(env, xs[j]) \/ \E q \in 1..Len(old) : xs[j] = old[q]
  BY <1>6, <1>7, <1>10
<1>12. env.tables[k].limits.max # NoMax => Len(xs) <= env.tables[k].limits.max
  BY <1>9, <1>10
<1>13. \A j \in 1..Len(xs) :
          Live(env, xs[j]) \/ \E q \in 1..Len(env.tables[k].entries) : xs[j] = env.tables[k].entries[q]
  BY <1>11, <1>u
<1> QED BY <1>3, <1>4, <1>10, <1>12, <1>13, <1>o, LiveEntriesChanged

LEMMA Padded ==
    ASSUME NEW S, NEW s \in Seq(S), NEW n \in Nat, NEW x \in S,
           NEW t, t = s \o [i \in 1..n |-> x]
    PROVE  /\ t \in Seq(S)
           /\ Len(t) = Len(s) + n
           /\ \A i \in 1..Len(t) : t[i] = x \/ \E j \in 1..Len(s) : t[i] = s[j]
<1> DEFINE q == [i \in 1..n |-> x]
<1>1. q \in Seq(S) /\ Len(q) = n /\ \A i \in 1..n : q[i] = x OBVIOUS
<1>2. t = s \o q OBVIOUS
<1> HIDE DEF q
<1>3. /\ t \in Seq(S) /\ Len(t) = Len(s) + Len(q)
      /\ \A i \in 1..Len(s) : t[i] = s[i]
      /\ \A i \in Len(s) + 1 .. Len(s) + Len(q) : t[i] = q[i - Len(s)]
  BY <1>1, <1>2, Joined
<1>4. Len(s) \in Nat OBVIOUS
<1>5. ASSUME NEW i \in 1..Len(t)
      PROVE  t[i] = x \/ \E j \in 1..Len(s) : t[i] = s[j]
  <2>1. CASE i \in 1..Len(s) BY <1>3, <2>1
  <2>2. CASE i \in Len(s) + 1 .. Len(s) + n
    <3>1. i - Len(s) \in 1..n BY <1>4, <2>2
    <3>2. t[i] = q[i - Len(s)] BY <1>1, <1>3, <2>2
    <3> QED BY <1>1, <3>1, <3>2
  <2>3. i \in 1..Len(s) \/ i \in Len(s) + 1 .. Len(s) + n BY <1>1, <1>3, <1>4
  <2> QED BY <2>1, <2>2, <2>3
<1> QED BY <1>1, <1>3, <1>5

LEMMA TableGrowChanges ==
    ASSUME WellFormed(env, 0), NEW m \in 1..Len(env.modules), TableGrow(m)
    PROVE  TableChanged(env, 0, env')
<1> DEFINE Most(limits) == IF limits.max = NoMax THEN MaxTableSize ELSE limits.max
<1>1. PICK k \in Range(env.modules[m].tables), ref \in RefsOf(m),
           increment \in 1..MaxTableSize :
         /\ TableSize(env.tables[k]) + increment <= Most(env.tables[k].limits)
         /\ env' = [env EXCEPT !.tables[k].entries = @ \o [i \in 1..increment |-> ref]]
  BY Zenon DEF TableGrow, GrowTo
<1> DEFINE old == env.tables[k].entries
           xs == old \o [i \in 1..increment |-> ref]
           t == env'
           o == 0
<1>3. t = EntriesSet(env, k, xs) BY <1>1, Zenon DEF EntriesSet
<1>4. k \in 1..Len(env.tables) BY TableOf
<1>5. env \in EnvRecords BY DEF WellFormed
<1>6. old \in Seq(RefRecords) /\ Len(old) \in Nat BY <1>4, <1>5, TableAt
<1>7. ref \in RefRecords /\ Live(env, ref) BY RefsOfFields
<1>8. increment \in Nat BY BoundsNat
<1>9. env.tables[k].limits.max # NoMax =>
         Len(old) + increment <= env.tables[k].limits.max
  BY <1>1 DEF TableSize
<1>o. WellFormed(env, o) /\ (TableChanged(env, o, t) => TableChanged(env, 0, env'))
  OBVIOUS
<1>u. old = env.tables[k].entries OBVIOUS
<1> HIDE DEF old
<1>10. /\ xs \in Seq(RefRecords) /\ Len(xs) = Len(old) + increment
       /\ \A i \in 1..Len(xs) : xs[i] = ref \/ \E j \in 1..Len(old) : xs[i] = old[j]
  BY <1>6, <1>7, <1>8, Padded
<1> HIDE DEF xs, t, o
<1>12. env.tables[k].limits.max # NoMax => Len(xs) <= env.tables[k].limits.max
  BY <1>9, <1>10
<1>13. \A j \in 1..Len(xs) :
          Live(env, xs[j]) \/ \E q \in 1..Len(env.tables[k].entries) : xs[j] = env.tables[k].entries[q]
  BY <1>7, <1>10, <1>u
<1> QED BY <1>3, <1>4, <1>10, <1>12, <1>13, <1>o, LiveEntriesChanged

LEMMA AfterRead ==
    ASSUME ToolsInv, phase \in {"init", "start", "ready"}
    PROVE  /\ WellFormed(env, 0) /\ env \in EnvRecords
           /\ module \in 1..Len(env.modules)
           /\ pass \in Nat /\ segment \in Nat \ {0}
           /\ active_elem_segments \in Seq(SegmentRecords)
           /\ Len(active_elem_segments) \in Nat
<1>1. WellFormed(env, 0) /\ env \in EnvRecords BY DEF ToolsInv, EnvGood, Open, WellFormed
<1>2. Len(env.modules) \in Nat BY <1>1, EnvFields
<1>3. WellFormed(saved, 0) /\ module = Len(saved.modules) + 1 /\ module <= Len(env.modules)
  BY DEF ToolsInv, LoadGood
<1>4. Len(saved.modules) \in Nat BY <1>3, EnvFields DEF WellFormed
<1>5. /\ pass \in Nat /\ segment \in Nat \ {0}
      /\ active_elem_segments \in Seq(SegmentRecords)
      /\ Len(active_elem_segments) \in Nat
  BY DEF ToolsInv, Control
<1> QED BY <1>1, <1>2, <1>3, <1>4, <1>5

LEMMA InitializeStep ==
    ASSUME ToolsInv, phase \in {"init", "start", "ready"}, UNCHANGED setup,
           UNCHANGED <<loads, readerVars>>, TableChanged(env, 0, env'),
           phase' \in {"init", "start", "ready", "init_failed"},
           phase' = "init" => phase = "init",
           pass' \in Nat, segment' \in Nat \ {0}
    PROVE  ToolsInv'
<1>1. /\ setup' = setup /\ loads' = loads /\ module' = module /\ section' = section
      /\ mark' = mark /\ to_define' = to_define /\ declared' = declared
      /\ active_elem_segments' = active_elem_segments /\ saved' = saved
  BY DEF readerVars
<1>2. /\ WellFormed(env', 0) /\ Len(env'.tables) = Len(env.tables)
      /\ env'.modules = env.modules /\ env'.funcs = env.funcs
      /\ env'.on_unknown_module = env.on_unknown_module
      /\ \A s \in EnvRecords : Extends(s, env) => Extends(s, env')
  BY Zenon DEF TableChanged, OnlyEntries
<1>3. Control' BY <1>1 DEF ToolsInv, Control, Phases
<1>4. Scripted' <=> Scripted BY <1>1 DEF Scripted
<1>5. phase \notin {"idle", "read", "read_failed"} /\ phase' \notin {"idle", "read", "read_failed"}
  OBVIOUS
<1>6. EnvGood'
  <2>1. Open' = 0 BY <1>5 DEF Open
  <2> QED BY <1>2, <1>4, <1>5, <2>1 DEF ToolsInv, EnvGood, MakesHosts
<1>7. LoadGood'
  <2>1. saved \in EnvRecords /\ Extends(saved, env) /\ WellFormed(saved, 0)
        /\ mark = Mark(saved) /\ module = Len(saved.modules) + 1
        /\ (IF Scripted THEN Len(saved.modules) >= 1 ELSE Len(saved.modules) = 0)
        /\ module <= Len(env.modules) /\ (Scripted => Len(env.modules) = module)
    BY <1>5 DEF ToolsInv, LoadGood, WellFormed
  <2> QED BY <1>1, <1>2, <1>4, <1>5, <2>1 DEF LoadGood
<1>8. FuncsFound' BY <1>1, <1>2 DEF ToolsInv, FuncsFound
<1>9. SpacesAnnounced' BY <1>5 DEF SpacesAnnounced
<1>10. SegmentsFound'
  <2>1. CASE phase' = "init"
    <3>1. \A x : SegmentFound(env, x) => SegmentFound(env', x)
      BY <1>2 DEF SegmentFound, Live
    <3> QED BY <1>1, <2>1, <3>1 DEF ToolsInv, SegmentsFound
  <2>2. CASE phase' # "init" BY <1>5, <2>2 DEF SegmentsFound
  <2> QED BY <2>1, <2>2
<1> QED BY <1>3, <1>6, <1>7, <1>8, <1>9, <1>10 DEF ToolsInv

LEMMA TablesUnchanged ==
    ASSUME NEW o, WellFormed(env, o), env' = env
    PROVE  TableChanged(env, o, env')
BY DEF TableChanged, OnlyEntries

LEMMA CopySegmentChanges ==
    ASSUME WellFormed(env, 0), NEW info \in SegmentRecords, SegmentFound(env, info),
           NEW t, t = CopySegment(env, info)
    PROVE  TableChanged(env, 0, t)
<1> DEFINE k == info.table
           old == env.tables[k].entries
           xs == [i \in DOMAIN old |->
                     IF i \in info.dst + 1 .. info.dst + Len(info.src)
                     THEN info.src[i - info.dst] ELSE old[i]]
           o == 0
<1>1. t = EntriesSet(env, k, xs) BY Zenon DEF CopySegment, EntriesSet
<1>2. k \in 1..Len(env.tables) /\ \A i \in 1..Len(info.src) : Live(env, info.src[i])
  BY DEF SegmentFound
<1>3. /\ env \in EnvRecords /\ SizeWithin(env.tables[k]) BY <1>2 DEF WellFormed
<1>4. /\ old \in Seq(RefRecords) /\ Len(old) \in Nat /\ DOMAIN old = 1..Len(old)
  BY <1>2, <1>3, TableAt
<1>5. info.dst \in Nat /\ info.src \in Seq(RefRecords) /\ Len(info.src) \in Nat
  BY DEF SegmentRecords
<1>u. old = env.tables[k].entries OBVIOUS
<1>9. env.tables[k].limits.max # NoMax => Len(old) <= env.tables[k].limits.max
  BY <1>3 DEF SizeWithin, TableSize
<1>o. WellFormed(env, o) /\ (TableChanged(env, o, t) => TableChanged(env, 0, t))
  OBVIOUS
<1> HIDE DEF k, old, o
<1>6. ASSUME NEW i \in 1..Len(old)
      PROVE  /\ xs[i] \in RefRecords
             /\ Live(env, xs[i]) \/ \E q \in 1..Len(old) : xs[i] = old[q]
  <2>1. CASE i \in info.dst + 1 .. info.dst + Len(info.src)
    <3>1. xs[i] = info.src[i - info.dst] BY <1>4, <2>1
    <3>2. i - info.dst \in 1..Len(info.src) BY <1>5, <2>1
    <3> HIDE DEF xs
    <3>3. info.src[i - info.dst] \in RefRecords BY <1>5, <3>2, SequenceFields
    <3> QED BY <1>2, <3>1, <3>2, <3>3
  <2>2. CASE i \notin info.dst + 1 .. info.dst + Len(info.src)
    <3>1. xs[i] = old[i] BY <1>4, <2>2
    <3> HIDE DEF xs
    <3>2. old[i] \in RefRecords BY <1>4, SequenceFields
    <3> QED BY <3>1, <3>2
  <2> QED BY <2>1, <2>2
<1>7. DOMAIN xs = 1..Len(old) BY <1>4
<1>8. xs = [i \in 1..Len(old) |-> xs[i]] BY <1>4
<1> HIDE DEF xs
<1>10. xs \in Seq(RefRecords) /\ Len(xs) = Len(old) BY <1>4, <1>6, <1>7, <1>8
<1>12. env.tables[k].limits.max # NoMax => Len(xs) <= env.tables[k].limits.max
  BY <1>9, <1>10
<1>13. \A j \in 1..Len(xs) :
          Live(env, xs[j]) \/ \E q \in 1..Len(env.tables[k].entries) : xs[j] = env.tables[k].entries[q]
  BY <1>6, <1>10, <1>u
<1> QED BY <1>1, <1>2, <1>10, <1>12, <1>13, <1>o, LiveEntriesChanged

LEMMA InitSegmentStep ==
    ASSUME ToolsInv, InitSegment, UNCHANGED setup
    PROVE  ToolsInv'
<1> DEFINE info == active_elem_segments[segment]
<1>1. /\ phase = "init" /\ segment <= Len(active_elem_segments) /\ pass' = pass
      /\ UNCHANGED <<loads, readerVars>>
      /\ \/ /\ env' = IF pass = 1 THEN CopySegment(env, info) ELSE env
            /\ segment' = segment + 1 /\ phase' = phase
         \/ /\ phase' = "init_failed" /\ env' = env /\ segment' = segment
  BY DEF InitSegment, Running
<1>2. /\ WellFormed(env, 0) /\ pass \in Nat /\ segment \in Nat \ {0}
      /\ active_elem_segments \in Seq(SegmentRecords)
      /\ Len(active_elem_segments) \in Nat
  BY <1>1, AfterRead
<1>3. segment \in 1..Len(active_elem_segments) BY <1>1, <1>2
<1>4. info \in SegmentRecords BY <1>2, <1>3, SequenceFields
<1>5. SegmentFound(env, info) BY <1>1, <1>3 DEF ToolsInv, SegmentsFound
<1> HIDE DEF info
<1>6. TableChanged(env, 0, CopySegment(env, info)) BY <1>2, <1>4, <1>5, CopySegmentChanges
<1>7. env' = env => TableChanged(env, 0, env')
  <2> DEFINE o == 0
  <2>1. WellFormed(env, o) /\ (TableChanged(env, o, env') => TableChanged(env, 0, env'))
    BY <1>2
  <2> HIDE DEF o
  <2> QED BY <2>1, TablesUnchanged
<1>8. TableChanged(env, 0, env') BY <1>1, <1>6, <1>7
<1>9. segment' \in Nat \ {0} /\ pass' \in Nat BY <1>1, <1>2
<1> QED BY <1>1, <1>8, <1>9, InitializeStep

LEMMA InitializeNextStep ==
    ASSUME ToolsInv, InitializeNext, UNCHANGED setup
    PROVE  ToolsInv'
<1>1. CASE InitSegment BY <1>1, InitSegmentStep
<1>s. ASSUME phase \in {"init", "start", "ready"}, UNCHANGED env
      PROVE  TableChanged(env, 0, env')
  <2> DEFINE o == 0
  <2>1. WellFormed(env, o) /\ (TableChanged(env, o, env') => TableChanged(env, 0, env'))
    BY <1>s, AfterRead
  <2> HIDE DEF o
  <2> QED BY <1>s, <2>1, TablesUnchanged
<1>2. CASE DataSegmentOutOfBounds \/ EndPass
  <2>1. /\ phase = "init" /\ UNCHANGED env /\ UNCHANGED <<loads, readerVars>>
        /\ pass' \in {pass, 1} /\ segment' \in {segment, 1}
        /\ phase' \in {"init", "start", "ready", "init_failed"}
    BY <1>2 DEF DataSegmentOutOfBounds, EndPass, Running
  <2>2. pass' \in Nat /\ segment' \in Nat \ {0} BY <2>1, AfterRead
  <2>3. TableChanged(env, 0, env') BY <1>s, <2>1
  <2> QED BY <2>1, <2>2, <2>3, InitializeStep
<1>3. CASE StartRuns
  <2>1. /\ phase = "start" /\ UNCHANGED <<loads, readerVars>> /\ phase' = phase
        /\ pass' = pass /\ segment' = segment
        /\ TableSet(module) \/ TableGrow(module)
    BY <1>3 DEF StartRuns, Running
  <2>2. WellFormed(env, 0) /\ module \in 1..Len(env.modules) /\ pass \in Nat
        /\ segment \in Nat \ {0}
    BY <2>1, AfterRead
  <2>3. TableChanged(env, 0, env') BY <2>1, <2>2, TableSetChanges, TableGrowChanges
  <2>4. phase' \in {"init", "start", "ready", "init_failed"} /\ (phase' = "init" => phase = "init")
    BY <2>1
  <2> QED BY <2>1, <2>2, <2>3, <2>4, InitializeStep
<1>4. CASE StartEnds
  <2>1. /\ phase = "start" /\ UNCHANGED env /\ UNCHANGED <<loads, readerVars>>
        /\ pass' = pass /\ segment' = segment
        /\ phase' \in {"ready", "init_failed"}
    BY <1>4 DEF StartEnds, Running
  <2>2. pass' \in Nat /\ segment' \in Nat \ {0} BY <2>1, AfterRead
  <2>3. TableChanged(env, 0, env') BY <1>s, <2>1
  <2>4. phase' \in {"init", "start", "ready", "init_failed"} /\ (phase' = "init" => phase = "init")
    BY <2>1
  <2> QED BY <2>1, <2>2, <2>3, <2>4, InitializeStep
<1> QED BY <1>1, <1>2, <1>3, <1>4 DEF InitializeNext

(***************************************************************************)
(* The commands of a script.                                               *)
(***************************************************************************)
LEMMA EndCommandStep ==
    ASSUME ToolsInv, Scripted, NEW e, EndLoad(e), UNCHANGED setup, WellFormed(e, 0),
           e.on_unknown_module = env.on_unknown_module, Len(e.modules) >= 1
    PROVE  ToolsInv'
<1>1. /\ phase' = "idle" /\ env' = e /\ module' = 0 /\ section' = 1
      /\ to_define' = 0 /\ declared' = << >> /\ active_elem_segments' = << >>
      /\ pass' = 1 /\ segment' = 1 /\ loads' = loads /\ setup' = setup
  BY DEF EndLoad, Invalid
<1>2. Control'
  <2>1. << >> \in Seq(Sigs) /\ << >> \in Seq(SegmentRecords) OBVIOUS
  <2> QED BY <1>1, <2>1 DEF ToolsInv, Control, Phases
<1>3. Scripted' BY <1>1 DEF Scripted
<1>4. EnvGood'
  <2>1. Open' = 0 BY <1>1 DEF Open
  <2>2. WellFormed(env', 0) /\ Len(env'.modules) >= 1 BY <1>1
  <2>3. MakesHosts(env') <=> MakesHosts(env) BY <1>1 DEF MakesHosts
  <2>4. ~MakesHosts(env) BY DEF ToolsInv, EnvGood
  <2> QED BY <1>1, <1>3, <2>1, <2>2, <2>3, <2>4 DEF EnvGood
<1>5. LoadGood' /\ FuncsFound' /\ SpacesAnnounced' /\ SegmentsFound'
  BY <1>1 DEF LoadGood, FuncsFound, SpacesAnnounced, SegmentsFound
<1> QED BY <1>2, <1>4, <1>5 DEF ToolsInv

LEMMA NotIdle ==
    ASSUME ToolsInv, phase \in {"read_failed", "init_failed", "ready"}
    PROVE  /\ WellFormed(env, 0) /\ env \in EnvRecords /\ WellFormed(saved, 0)
           /\ mark = Mark(saved) /\ Extends(saved, env)
           /\ Scripted => Len(saved.modules) >= 1 /\ Len(env.modules) >= 1
           /\ saved.on_unknown_module = env.on_unknown_module
<1>1. phase # "read" /\ phase # "idle" OBVIOUS
<1>2. WellFormed(env, 0) /\ env \in EnvRecords
  BY <1>1 DEF ToolsInv, EnvGood, Open, WellFormed
<1>3. /\ WellFormed(saved, 0) /\ mark = Mark(saved) /\ Extends(saved, env)
      /\ Scripted => Len(saved.modules) >= 1
  BY <1>1 DEF ToolsInv, LoadGood
<1>4. Scripted => Len(env.modules) >= 1 BY DEF ToolsInv, EnvGood
<1>5. saved.on_unknown_module = env.on_unknown_module BY <1>3 DEF Extends
<1> QED BY <1>2, <1>3, <1>4, <1>5

LEMMA ResetStep ==
    ASSUME ToolsInv, Scripted, phase \in {"read_failed", "init_failed"}, UNCHANGED setup,
           EndCommand(ResetToMarkPoint(env, mark))
    PROVE  ToolsInv'
<1> DEFINE t == ResetToMarkPoint(env, mark)
           o == 0
<1>1. /\ WellFormed(env, 0) /\ env \in EnvRecords /\ WellFormed(saved, 0)
      /\ mark = Mark(saved) /\ Extends(saved, env) /\ Len(saved.modules) >= 1
      /\ saved.on_unknown_module = env.on_unknown_module
  BY NotIdle
<1>2. EndLoad(t) BY DEF EndCommand
<1>3. t = ResetToMarkPoint(env, Mark(saved)) BY <1>1
<1>o. WellFormed(env, o) BY <1>1
<1> HIDE DEF t, o
<1>4. WellFormed(t, 0) BY <1>1, <1>3, <1>o, ResetWellFormed
<1>5. t.modules = saved.modules /\ t.on_unknown_module = saved.on_unknown_module
  BY <1>1, <1>3, ResetUndoes
<1> QED BY <1>1, <1>2, <1>4, <1>5, EndCommandStep

Named(e, m, name) ==
    [e EXCEPT !.modules[m].name = name, !.bindings = @ \cup {<<name, Len(e.modules)>>}]

LEMMA ModuleNamed ==
    ASSUME NEW e, WellFormed(e, 0), ~MakesHosts(e), NEW m \in 1..Len(e.modules),
           NEW name \in Names \ {NoName}, NEW t, t = Named(e, m, name)
    PROVE  /\ WellFormed(t, 0) /\ Len(t.modules) = Len(e.modules)
           /\ \A k \in 1..Len(e.modules) : t.modules[k].exports = e.modules[k].exports
           /\ t.funcs = e.funcs /\ t.tables = e.tables
           /\ t.on_unknown_module = e.on_unknown_module
<1> DEFINE r == [e.modules[m] EXCEPT !.name = name]
           d == ModuleSet(e, m, r)
           bs == e.bindings \cup {<<name, Len(e.modules)>>}
           o == 0
<1>1. t = [d EXCEPT !.bindings = bs] BY Zenon DEF Named, ModuleSet
<1>2. e \in EnvRecords BY DEF WellFormed
<1>3. Len(e.modules) \in Nat /\ e.bindings \in BindingSets BY <1>2, EnvFields
<1>4. e.modules[m] \in ModuleRecords BY <1>2, ModuleAt
<1>5. /\ r \in ModuleRecords /\ r.name = name
      /\ r.creates = e.modules[m].creates /\ r.exports = e.modules[m].exports
      /\ r.funcs = e.modules[m].funcs /\ r.tables = e.modules[m].tables
  BY <1>4, WithName
<1>6. m # 0 BY <1>3
<1> HIDE DEF r
<1>7. ExportsWithin(r, Len(e.funcs), Len(e.tables)) BY <1>5 DEF WellFormed, ExportsWithin
<1>8. SpacesWithin(r, Len(e.funcs), Len(e.tables))
  BY <1>5, <1>6 DEF WellFormed, SpacesWithin
<1>9. /\ WellFormed(d, 0) /\ Len(d.modules) = Len(e.modules) /\ d.modules[m] = r
      /\ \A k \in 1..Len(e.modules) : k # m => d.modules[k] = e.modules[k]
      /\ d.funcs = e.funcs /\ d.tables = e.tables /\ d.bindings = e.bindings
      /\ d.registered = e.registered /\ d.on_unknown_module = e.on_unknown_module
  <2>1. WellFormed(e, o) /\ (WellFormed(d, o) => WellFormed(d, 0)) OBVIOUS
  <2>2. d = ModuleSet(e, m, r) OBVIOUS
  <2> HIDE DEF d, o
  <2> QED BY <1>5, <1>7, <1>8, <2>1, <2>2, ModuleChanged
<1> HIDE DEF d
<1>10. bs \in BindingSets BY <1>3, BindingAdded
<1>11. \A b \in bs : b[1] # NoName /\ b[2] \in 1..Len(e.modules)
  <2>1. Len(e.modules) \in 1..Len(e.modules) BY <1>3
  <2> QED BY <2>1 DEF WellFormed
<1> HIDE DEF bs
<1>12. d \in EnvRecords BY <1>9 DEF WellFormed
<1>13. /\ t \in EnvRecords /\ t.bindings = bs /\ t.modules = d.modules
       /\ t.funcs = d.funcs /\ t.tables = d.tables /\ t.registered = d.registered
       /\ t.on_unknown_module = d.on_unknown_module
  BY <1>1, <1>10, <1>12, WithBindings
<1>14. ~MakesHosts(t) BY <1>9, <1>13 DEF MakesHosts
<1>15. /\ \A k \in 1..Len(t.modules) :
              /\ ExportsWithin(t.modules[k], Len(t.funcs), Len(t.tables))
              /\ k # 0 => SpacesWithin(t.modules[k], Len(t.funcs), Len(t.tables))
              /\ t.modules[k].creates # {} => MakesHosts(t)
       /\ \A k \in 1..Len(t.tables) : SizeWithin(t.tables[k])
       /\ \A x \in t.registered : x[2] \in 1..Len(t.modules)
  BY <1>9, <1>13 DEF WellFormed, MakesHosts
<1>16. \A b \in t.bindings : b[1] # NoName /\ b[2] \in 1..Len(t.modules)
  BY <1>9, <1>11, <1>13
<1>17. WellFormed(t, 0) BY <1>13, <1>14, <1>15, <1>16 DEF WellFormed
<1>18. \A k \in 1..Len(e.modules) : t.modules[k].exports = e.modules[k].exports
  BY <1>5, <1>9, <1>13
<1> QED BY <1>9, <1>13, <1>17, <1>18

LEMMA ModuleReadyStep ==
    ASSUME ToolsInv, Scripted, ModuleReady, UNCHANGED setup
    PROVE  ToolsInv'
<1>1. phase = "ready" BY DEF ModuleReady
<1>2. /\ WellFormed(env, 0) /\ Len(env.modules) >= 1
      /\ module \in 1..Len(env.modules)
  BY <1>1, NotIdle, AfterRead
<1>3. CASE EndCommand(env)
  <2> DEFINE e == env
  <2>1. EndLoad(e) /\ WellFormed(e, 0) /\ Len(e.modules) >= 1
        /\ e.on_unknown_module = env.on_unknown_module
    BY <1>2, <1>3 DEF EndCommand
  <2> HIDE DEF e
  <2> QED BY <2>1, EndCommandStep
<1>4. ASSUME NEW name \in ScriptNames, EndCommand(Named(env, module, name))
      PROVE  ToolsInv'
  <2> DEFINE t == Named(env, module, name)
  <2>1. EndLoad(t) BY <1>4 DEF EndCommand
  <2>2. name \in Names \ {NoName} BY RunnerAssumption
  <2>3. ~MakesHosts(env) BY DEF ToolsInv, EnvGood
  <2>4. /\ WellFormed(t, 0) /\ Len(t.modules) = Len(env.modules)
        /\ t.on_unknown_module = env.on_unknown_module
    <3> DEFINE e == env
               m == module
    <3>1. WellFormed(e, 0) /\ ~MakesHosts(e) /\ m \in 1..Len(e.modules)
          /\ t = Named(e, m, name)
      BY <1>2, <2>3
    <3>2. /\ Len(t.modules) = Len(e.modules) => Len(t.modules) = Len(env.modules)
          /\ t.on_unknown_module = e.on_unknown_module =>
                t.on_unknown_module = env.on_unknown_module
      OBVIOUS
    <3> HIDE DEF e, m, t
    <3> QED BY <2>2, <3>1, <3>2, ModuleNamed
  <2> HIDE DEF t
  <2> QED BY <1>2, <2>1, <2>4, EndCommandStep
<1> QED BY <1>3, <1>4, Zenon DEF ModuleReady, Named

LEMMA AssertEndsStep ==
    ASSUME ToolsInv, Scripted, AssertEnds, UNCHANGED setup
    PROVE  ToolsInv'
<1> DEFINE e == env
<1>1. EndLoad(e) /\ WellFormed(e, 0) /\ Len(e.modules) >= 1
      /\ e.on_unknown_module = env.on_unknown_module
  BY NotIdle DEF AssertEnds, EndCommand
<1> HIDE DEF e
<1> QED BY <1>1, EndCommandStep

LEMMA IdleStep ==
    ASSUME ToolsInv, Scripted, phase = "idle", UNCHANGED <<setup, phase, pass, segment>>,
           UNCHANGED <<loads, readerVars>>, WellFormed(env', 0),
           env'.on_unknown_module = env.on_unknown_module, Len(env'.modules) >= 1
    PROVE  ToolsInv'
<1>1. /\ setup' = setup /\ phase' = "idle" /\ pass' = pass /\ segment' = segment
      /\ loads' = loads /\ module' = module /\ section' = section
      /\ to_define' = to_define /\ declared' = declared
      /\ active_elem_segments' = active_elem_segments
  BY DEF readerVars
<1>2. Control' BY <1>1 DEF ToolsInv, Control
<1>3. Scripted' BY <1>1 DEF Scripted
<1>4. EnvGood'
  <2>1. Open' = 0 BY <1>1 DEF Open
  <2>2. MakesHosts(env') <=> MakesHosts(env) BY DEF MakesHosts
  <2>3. ~MakesHosts(env) /\ module = 0 BY DEF ToolsInv, EnvGood
  <2> QED BY <1>1, <1>3, <2>1, <2>2, <2>3 DEF EnvGood
<1>5. LoadGood' /\ FuncsFound' /\ SpacesAnnounced' /\ SegmentsFound'
  BY <1>1 DEF LoadGood, FuncsFound, SpacesAnnounced, SegmentsFound
<1> QED BY <1>2, <1>4, <1>5 DEF ToolsInv

LEMMA Idle ==
    ASSUME ToolsInv, Scripted, phase = "idle"
    PROVE  /\ WellFormed(env, 0) /\ env \in EnvRecords
           /\ Len(env.modules) >= 1 /\ Len(env.modules) \in 1..Len(env.modules)
<1>1. WellFormed(env, 0) /\ env \in EnvRecords /\ Len(env.modules) >= 1
  BY DEF ToolsInv, EnvGood, Open, WellFormed
<1>2. Len(env.modules) \in Nat BY <1>1, EnvFields
<1> QED BY <1>1, <1>2

LEMMA ModuleFound ==
    ASSUME WellFormed(env, 0), Len(env.modules) \in 1..Len(env.modules), NEW of,
           NEW m \in IF of = NoName THEN {Len(env.modules)} ELSE FindModuleIndex(env, of),
           m # Invalid
    PROVE  m \in 1..Len(env.modules)
<1>1. CASE of = NoName BY <1>1
<1>2. CASE of # NoName
  <2>1. m \in Bound(env.bindings, of) BY <1>2 DEF FindModuleIndex
  <2> QED BY <2>1 DEF Bound, WellFormed
<1> QED BY <1>1, <1>2

LEMMA OnRegisterCommandStep ==
    ASSUME ToolsInv, Scripted, NEW of, NEW as \in Names, OnRegisterCommand(of, as),
           UNCHANGED setup
    PROVE  ToolsInv'
<1>1. /\ phase = "idle" /\ UNCHANGED <<setup, phase, pass, segment>>
      /\ UNCHANGED <<loads, readerVars>>
  BY DEF OnRegisterCommand, Running
<1>2. PICK m \in IF of = NoName THEN {Len(env.modules)} ELSE FindModuleIndex(env, of) :
         m # Invalid /\ env' = [env EXCEPT !.registered = @ \cup {<<as, m>>}]
  BY Zenon DEF OnRegisterCommand
<1>3. /\ WellFormed(env, 0) /\ env \in EnvRecords
      /\ Len(env.modules) >= 1 /\ Len(env.modules) \in 1..Len(env.modules)
  BY <1>1, Idle
<1>4. m \in 1..Len(env.modules) BY <1>2, <1>3, ModuleFound
<1> DEFINE rs == env.registered \cup {<<as, m>>}
           t == env'
<1>5. rs \in BindingSets
  <2>1. m \in Nat /\ env.registered \in BindingSets BY <1>3, <1>4, EnvFields
  <2> QED BY <2>1, BindingAdded
<1>6. \A x \in rs : x[2] \in 1..Len(env.modules)
  <2>1. \A x \in env.registered : x[2] \in 1..Len(env.modules)
    BY <1>3, Zenon DEF WellFormed
  <2>2. <<as, m>>[2] = m OBVIOUS
  <2> QED BY <1>4, <2>1, <2>2, Zenon
<1>7. t = [env EXCEPT !.registered = rs] BY <1>2
<1> HIDE DEF rs, t
<1>8. /\ t \in EnvRecords /\ t.registered = rs /\ t.modules = env.modules
      /\ t.funcs = env.funcs /\ t.tables = env.tables /\ t.bindings = env.bindings
      /\ t.on_unknown_module = env.on_unknown_module
  BY <1>3, <1>5, <1>7, WithRegistered
<1>9. WellFormed(t, 0) BY <1>3, <1>6, <1>8 DEF WellFormed, MakesHosts
<1>10. WellFormed(env', 0) /\ env'.on_unknown_module = env.on_unknown_module
       /\ Len(env'.modules) >= 1
  BY <1>3, <1>8, <1>9 DEF t
<1> QED BY <1>1, <1>10, IdleStep

LEMMA OnActionCommandStep ==
    ASSUME ToolsInv, Scripted, NEW of, OnActionCommand(of), UNCHANGED setup
    PROVE  ToolsInv' /\ TableChanged(env, 0, env')
<1>1. /\ phase = "idle" /\ UNCHANGED <<setup, phase, pass, segment>>
      /\ UNCHANGED <<loads, readerVars>>
  BY DEF OnActionCommand, Running
<1>2. PICK m \in IF of = NoName THEN {Len(env.modules)}
                 ELSE FindModuleIndex(env, of) \ {Invalid} :
         TableSet(m) \/ TableGrow(m)
  BY Zenon DEF OnActionCommand
<1>3. /\ WellFormed(env, 0) /\ env \in EnvRecords
      /\ Len(env.modules) >= 1 /\ Len(env.modules) \in 1..Len(env.modules)
  BY <1>1, Idle
<1>4. m \in 1..Len(env.modules)
  <2>1. Len(env.modules) \in Nat BY <1>3, EnvFields
  <2>2. m # Invalid BY <1>3, <2>1 DEF Invalid
  <2>3. m \in IF of = NoName THEN {Len(env.modules)} ELSE FindModuleIndex(env, of)
    OBVIOUS
  <2> QED BY <1>3, <2>2, <2>3, ModuleFound
<1>5. TableChanged(env, 0, env') BY <1>2, <1>3, <1>4, TableSetChanges, TableGrowChanges
<1>6. /\ WellFormed(env', 0) /\ env'.modules = env.modules
      /\ env'.on_unknown_module = env.on_unknown_module
  BY <1>5, Zenon DEF TableChanged, OnlyEntries
<1>7. Len(env'.modules) >= 1 BY <1>3, <1>6
<1> QED BY <1>1, <1>5, <1>6, <1>7, IdleStep

LEMMA StutterStep ==
    ASSUME ToolsInv, UNCHANGED loaderVars
    PROVE  ToolsInv'
<1>1. /\ setup' = setup /\ env' = env /\ phase' = phase /\ pass' = pass
      /\ segment' = segment /\ loads' = loads /\ module' = module
      /\ section' = section /\ mark' = mark /\ to_define' = to_define
      /\ declared' = declared /\ active_elem_segments' = active_elem_segments
      /\ saved' = saved
  BY DEF loaderVars, readerVars
<1>2. Control' BY <1>1 DEF ToolsInv, Control
<1>3. (Scripted' <=> Scripted) /\ Open' = Open BY <1>1 DEF Scripted, Open
<1>4. EnvGood' BY <1>1, <1>3 DEF ToolsInv, EnvGood
<1>5. LoadGood' BY <1>1, <1>3 DEF ToolsInv, LoadGood
<1>6. FuncsFound' BY <1>1 DEF ToolsInv, FuncsFound
<1>7. SpacesAnnounced' BY <1>1 DEF ToolsInv, SpacesAnnounced, Announced
<1>8. SegmentsFound' BY <1>1 DEF ToolsInv, SegmentsFound
<1> QED BY <1>2, <1>4, <1>5, <1>6, <1>7, <1>8 DEF ToolsInv

LEMMA RunnerStepKeeps ==
    ASSUME ToolsInv, IsRun("spectest-interp"), RunnerStep
    PROVE  ToolsInv'
<1>1. Scripted /\ UNCHANGED setup BY DEF IsRun, Scripted
<1>2. CASE OnLoadCommand BY <1>1, <1>2, BeginLoadStep DEF OnLoadCommand
<1>3. CASE ReadNext BY <1>1, <1>3, ReadNextStep
<1>4. CASE InitializeNext BY <1>1, <1>4, InitializeNextStep
<1>5. CASE ModuleReadFailed \/ ModuleInitFailed
  <2>1. phase \in {"read_failed", "init_failed"}
        /\ EndCommand(ResetToMarkPoint(env, mark))
    BY <1>5 DEF ModuleReadFailed, ModuleInitFailed
  <2> QED BY <1>1, <2>1, ResetStep
<1>6. CASE ModuleReady BY <1>1, <1>6, ModuleReadyStep
<1>7. CASE AssertEnds BY <1>1, <1>7, AssertEndsStep
<1>8. ASSUME NEW of, NEW as \in Names, OnRegisterCommand(of, as) PROVE ToolsInv'
  BY <1>1, <1>8, OnRegisterCommandStep
<1>9. ASSUME NEW of, OnActionCommand(of) PROVE ToolsInv'
  BY <1>1, <1>9, OnActionCommandStep
<1>10. CASE ScriptEnds
  <2>1. UNCHANGED loaderVars BY <1>10 DEF ScriptEnds, runnerVars
  <2> QED BY <2>1, StutterStep
<1> QED BY <1>2, <1>3, <1>4, <1>5, <1>6, <1>7, <1>8, <1>9, <1>10, Zenon DEF RunnerStep

LEMMA InterpStepKeeps ==
    ASSUME ToolsInv, IsRun("wasm-interp"), InterpStep
    PROVE  ToolsInv'
<1>1. UNCHANGED setup BY DEF IsRun
<1>2. CASE ReadModule BY <1>1, <1>2, BeginLoadStep DEF ReadModule
<1>3. CASE ReadNext BY <1>1, <1>3, ReadNextStep
<1>4. CASE InitializeNext BY <1>1, <1>4, InitializeNextStep
<1>5. CASE RunAllExports
  <2>1. /\ phase = "ready" /\ UNCHANGED <<loads, readerVars>> /\ phase' = phase
        /\ pass' = pass /\ segment' = segment
        /\ TableSet(module) \/ TableGrow(module)
    BY <1>5 DEF RunAllExports, Running
  <2>2. WellFormed(env, 0) /\ module \in 1..Len(env.modules) /\ pass \in Nat
        /\ segment \in Nat \ {0}
    BY <2>1, AfterRead
  <2>3. TableChanged(env, 0, env') BY <2>1, <2>2, TableSetChanges, TableGrowChanges
  <2>4. phase' \in {"init", "start", "ready", "init_failed"} /\ (phase' = "init" => phase = "init")
    BY <2>1
  <2> QED BY <1>1, <2>1, <2>2, <2>3, <2>4, InitializeStep
<1>6. CASE Exit
  <2>1. UNCHANGED loaderVars BY <1>6 DEF Exit
  <2> QED BY <2>1, StutterStep
<1> QED BY <1>2, <1>3, <1>4, <1>5, <1>6 DEF InterpStep

LEMMA ToolsNextKeeps == ToolsInv /\ [ToolsNext]_runnerVars => ToolsInv'
<1> SUFFICES ASSUME ToolsInv, [ToolsNext]_runnerVars PROVE ToolsInv' OBVIOUS
<1>1. CASE IsRun("spectest-interp") /\ RunnerStep BY <1>1, RunnerStepKeeps
<1>2. CASE IsRun("wasm-interp") /\ InterpStep BY <1>2, InterpStepKeeps
<1>3. CASE UNCHANGED runnerVars
  <2>1. UNCHANGED loaderVars BY <1>3 DEF runnerVars
  <2> QED BY <2>1, StutterStep
<1> QED BY <1>1, <1>2, <1>3 DEF ToolsNext

(***************************************************************************)
(* The environments the tools begin with.                                  *)
(***************************************************************************)
LEMMA EmptyWellFormed ==
    /\ EmptyEnvironment \in EnvRecords /\ WellFormed(EmptyEnvironment, 0)
    /\ EmptyEnvironment.modules = << >> /\ EmptyEnvironment.funcs = << >>
    /\ EmptyEnvironment.tables = << >> /\ EmptyEnvironment.bindings = {}
    /\ EmptyEnvironment.registered = {} /\ ~MakesHosts(EmptyEnvironment)
<1> DEFINE e == EmptyEnvironment
<1>1. /\ << >> \in Seq(ModuleRecords) /\ << >> \in Seq(FuncRecords)
      /\ << >> \in Seq(TableRecords)
  OBVIOUS
<1>2. {} \in BindingSets BY DEF BindingSets
<1>3. e \in EnvRecords BY <1>1, <1>2 DEF EmptyEnvironment, EnvRecords
<1>4. /\ e.modules = << >> /\ e.funcs = << >> /\ e.tables = << >>
      /\ e.bindings = {} /\ e.registered = {} /\ e.on_unknown_module = FALSE
  BY DEF EmptyEnvironment
<1>5. ~MakesHosts(e) BY <1>4 DEF MakesHosts
<1> HIDE DEF e
<1>6. Len(e.modules) = 0 /\ Len(e.tables) = 0 BY <1>4
<1>7. 1..0 = {} OBVIOUS
<1>8. WellFormed(e, 0) BY <1>3, <1>4, <1>5, <1>6, <1>7 DEF WellFormed
<1> QED BY <1>3, <1>4, <1>5, <1>8 DEF e

SpectestModule == AppendHostModule(EmptyEnvironment, Spectest, {})

SpectestFunc == AppendFuncExport(SpectestModule, 1, HostField, NullarySig, 0)

LEMMA SpectestModuleGood ==
    /\ WellFormed(SpectestModule, 0) /\ Len(SpectestModule.modules) = 1
    /\ Len(SpectestModule.funcs) = 0 /\ Len(SpectestModule.tables) = 0
    /\ ~MakesHosts(SpectestModule)
<1> DEFINE e == EmptyEnvironment
           t == SpectestModule
           creates == {}
           o == 0
<1>1. /\ e \in EnvRecords /\ WellFormed(e, o)
      /\ e.modules = << >> /\ e.funcs = << >>
      /\ e.tables = << >> /\ e.bindings = {}
      /\ e.registered = {} /\ ~MakesHosts(e)
  BY EmptyWellFormed
<1>2. t = AppendHostModule(e, Spectest, creates) BY DEF SpectestModule
<1>3. creates \in SUBSET Fields /\ Spectest \in Names BY RunnerAssumption
<1>o. (WellFormed(t, o) => WellFormed(t, 0)) /\ creates = {} OBVIOUS
<1> HIDE DEF e, t, creates, o
<1>4. PICK r \in ModuleRecords :
              /\ r.exports = << >> /\ r.funcs = << >> /\ r.tables = << >>
              /\ r.name = Spectest /\ r.creates = creates
              /\ t \in EnvRecords
              /\ t.modules = Append(e.modules, r)
              /\ t.registered = e.registered \cup {<<Spectest, Len(e.modules) + 1>>}
              /\ t.funcs = e.funcs /\ t.tables = e.tables /\ t.bindings = e.bindings
              /\ t.on_unknown_module = e.on_unknown_module
  BY <1>1, <1>2, <1>3, HostModuleFields
<1>5. /\ e.registered \subseteq t.registered
      /\ \A x \in t.registered : x \in e.registered \/ x[2] = Len(e.modules) + 1
  BY <1>4
<1>6. r.creates # {} => MakesHosts(e) BY <1>4, <1>o
<1>7. /\ WellFormed(t, o) /\ Len(t.modules) = Len(e.modules) + 1
      /\ t.modules[Len(e.modules) + 1] = r
      /\ \A m \in 1..Len(e.modules) : t.modules[m] = e.modules[m]
  <2>1. WellFormed(e, o) BY <1>1
  <2>2. /\ r.exports = << >> /\ r.funcs = << >> /\ r.tables = << >>
        /\ t \in EnvRecords /\ t.modules = Append(e.modules, r)
        /\ t.funcs = e.funcs /\ t.tables = e.tables /\ t.bindings = e.bindings
        /\ t.on_unknown_module = e.on_unknown_module
    BY <1>4
  <2> QED BY <1>5, <1>6, <2>1, <2>2, ModuleAppended
<1>8. Len(e.modules) = 0 BY <1>1
<1>9. Len(t.modules) = 1 BY <1>7, <1>8
<1>10. Len(t.funcs) = 0 /\ Len(t.tables) = 0 BY <1>1, <1>4
<1>11. ~MakesHosts(t) BY <1>1, <1>4 DEF MakesHosts
<1> QED BY <1>7, <1>9, <1>10, <1>11, <1>o DEF t

LEMMA SpectestFuncGood ==
    /\ WellFormed(SpectestFunc, 0) /\ Len(SpectestFunc.modules) = 1
    /\ Len(SpectestFunc.tables) = 0 /\ ~MakesHosts(SpectestFunc)
<1> DEFINE e == SpectestModule
           f == [sig |-> NullarySig, owner |-> 0]
           d == [e EXCEPT !.funcs = Append(@, f)]
           kind == "func"
           index == Len(e.funcs) + 1
           m == 1
           o == 0
           t == SpectestFunc
<1>1. t = AppendExport(d, m, kind, index, HostField)
  BY Zenon DEF SpectestFunc, AppendFuncExport
<1>2. WellFormed(e, o) /\ Len(e.modules) = 1 /\ Len(e.funcs) = 0 /\ Len(e.tables) = 0
      /\ ~MakesHosts(e)
  BY SpectestModuleGood
<1>3. f \in FuncRecords BY LoaderAssumption, BoundsNat DEF FuncRecords
<1>k. /\ kind \in {"func", "table"} /\ CountOf(d, kind) = Len(d.funcs) /\ m = 1
      /\ HostField \in Fields /\ (WellFormed(t, o) => WellFormed(t, 0)) /\ index = Len(e.funcs) + 1
  BY RunnerAssumption DEF CountOf
<1> HIDE DEF f, e
<1>4. /\ WellFormed(d, o) /\ Len(d.funcs) = Len(e.funcs) + 1
      /\ d.modules = e.modules /\ d.tables = e.tables
      /\ d.on_unknown_module = e.on_unknown_module
  BY <1>2, <1>3, FuncAppended
<1> HIDE DEF d, kind, index, m, o, t
<1>5. index \in 1..CountOf(d, kind) /\ m \in 1..Len(d.modules)
  <2>1. index = 1 /\ CountOf(d, kind) = 1 BY <1>2, <1>4, <1>k
  <2>2. m = 1 /\ Len(d.modules) = 1 BY <1>2, <1>4, <1>k
  <2> QED BY <2>1, <2>2
<1>6. /\ WellFormed(t, o) /\ Len(t.modules) = Len(d.modules)
      /\ t.tables = d.tables /\ t.on_unknown_module = d.on_unknown_module
  <2>1. WellFormed(d, o) /\ kind \in {"func", "table"} /\ HostField \in Fields
    BY <1>4, <1>k
  <2> QED BY <1>1, <1>5, <2>1, ExportAppended
<1>7. ~MakesHosts(t) BY <1>2, <1>4, <1>6 DEF MakesHosts
<1> QED BY <1>2, <1>4, <1>6, <1>7, <1>k DEF t

LEMMA InitEnvironmentGood ==
    /\ WellFormed(InitEnvironment, 0) /\ Len(InitEnvironment.modules) = 1
    /\ ~MakesHosts(InitEnvironment)
    /\ Len(InitEnvironment.tables) = 1 /\ InitEnvironment.tables[1].entries = <<Null>>
<1> DEFINE e == SpectestFunc
           limits == [initial |-> 1, max |-> MaxTableSize]
           table == NewTable(limits)
           d == [e EXCEPT !.tables = Append(@, table)]
           kind == "table"
           index == Len(e.tables) + 1
           m == 1
           o == 0
           t == InitEnvironment
<1>1. t = AppendExport(d, m, kind, index, TableField)
  BY Zenon DEF InitEnvironment, AppendTableExport, SpectestFunc, SpectestModule
<1>2. WellFormed(e, o) /\ Len(e.modules) = 1 /\ Len(e.tables) = 0 /\ ~MakesHosts(e)
  BY SpectestFuncGood
<1>3. /\ limits.initial = 1 /\ limits.max = MaxTableSize
      /\ limits = [initial |-> limits.initial, max |-> limits.max]
  OBVIOUS
<1>4. MaxTableSize \in Nat /\ MaxTableSize >= 1 BY BoundsNat, RunnerAssumption
<1> HIDE DEF limits
<1>5. limits.initial \in Nat /\ limits.max \in Int
      /\ (limits.max # NoMax => limits.initial <= limits.max)
  BY <1>3, <1>4
<1>6. /\ table \in TableRecords /\ SizeWithin(table)
      /\ table.entries = [i \in 1..limits.initial |-> Null]
  BY <1>3, <1>5, NewTableFields
<1>7. table.entries = <<Null>>
  <2>1. table.entries = [i \in 1..1 |-> Null] BY <1>3, <1>6
  <2> HIDE DEF table
  <2>2. [i \in 1..1 |-> Null] = <<Null>> OBVIOUS
  <2> QED BY <2>1, <2>2
<1>k. /\ kind \in {"func", "table"} /\ CountOf(d, kind) = Len(d.tables) /\ m = 1
      /\ TableField \in Fields /\ (WellFormed(t, o) => WellFormed(t, 0)) /\ index = Len(e.tables) + 1
  BY RunnerAssumption DEF CountOf
<1> HIDE DEF table, e
<1>8. /\ WellFormed(d, o) /\ Len(d.tables) = Len(e.tables) + 1
      /\ d.tables[Len(e.tables) + 1] = table
      /\ d.modules = e.modules /\ d.funcs = e.funcs
      /\ d.on_unknown_module = e.on_unknown_module
  BY <1>2, <1>6, TableAppended
<1> HIDE DEF d, kind, index, m, o, t
<1>9. index \in 1..CountOf(d, kind) /\ m \in 1..Len(d.modules) BY <1>2, <1>8, <1>k
<1>10. /\ WellFormed(t, o) /\ Len(t.modules) = Len(d.modules)
       /\ t.tables = d.tables /\ t.on_unknown_module = d.on_unknown_module
  <2>1. WellFormed(d, o) /\ kind \in {"func", "table"} /\ TableField \in Fields
    BY <1>8, <1>k
  <2> QED BY <1>1, <1>9, <2>1, ExportAppended
<1>11. ~MakesHosts(t) BY <1>2, <1>8, <1>10 DEF MakesHosts
<1>12. Len(t.tables) = 1 /\ t.tables[1] = table BY <1>2, <1>8, <1>10
<1> QED BY <1>2, <1>7, <1>8, <1>10, <1>11, <1>12, <1>k DEF t

LEMMA InitDummyEnvironmentGood ==
    /\ WellFormed(InitDummyEnvironment, 0) /\ Len(InitDummyEnvironment.modules) = 0
    /\ MakesHosts(InitDummyEnvironment) /\ Len(InitDummyEnvironment.tables) = 0
<1> DEFINE e == EmptyEnvironment
           t == InitDummyEnvironment
<1>1. /\ e \in EnvRecords /\ e.modules = << >> /\ e.funcs = << >>
      /\ e.tables = << >> /\ e.bindings = {} /\ e.registered = {}
  BY EmptyWellFormed
<1>2. t = [e EXCEPT !.on_unknown_module = TRUE] BY DEF InitDummyEnvironment
<1> HIDE DEF e, t
<1>3. /\ t \in EnvRecords /\ t.modules = << >> /\ t.funcs = << >>
      /\ t.tables = << >> /\ t.bindings = {} /\ t.registered = {}
      /\ t.on_unknown_module = TRUE
  BY <1>1, <1>2 DEF EnvRecords
<1>4. Len(t.modules) = 0 /\ Len(t.tables) = 0 /\ MakesHosts(t)
  BY <1>3 DEF MakesHosts
<1>5. 1..0 = {} OBVIOUS
<1>6. WellFormed(t, 0) BY <1>3, <1>4, <1>5 DEF WellFormed
<1> QED BY <1>4, <1>6 DEF t

LEMMA LoaderInitGood ==
    ASSUME NEW e, LoaderInit(e), WellFormed(e, 0), MakesHosts(e) <=> ~Scripted,
           IF Scripted THEN Len(e.modules) >= 1 ELSE Len(e.modules) = 0
    PROVE  ToolsInv
<1>1. /\ setup \in Setups /\ env = e /\ phase = "idle" /\ module = 0 /\ section = 1
      /\ to_define = 0 /\ declared = << >> /\ active_elem_segments = << >>
      /\ pass = 1 /\ segment = 1 /\ loads = 0
  BY DEF LoaderInit, Invalid
<1>2. Control
  <2>1. << >> \in Seq(Sigs) /\ << >> \in Seq(SegmentRecords) OBVIOUS
  <2>2. 0 <= MaxLoads BY BoundsNat
  <2> QED BY <1>1, <2>1, <2>2 DEF Control, Phases
<1>3. EnvGood
  <2>1. Open = 0 BY <1>1 DEF Open
  <2> QED BY <1>1, <2>1 DEF EnvGood
<1>4. LoadGood /\ FuncsFound /\ SpacesAnnounced /\ SegmentsFound
  BY <1>1 DEF LoadGood, FuncsFound, SpacesAnnounced, SegmentsFound
<1> QED BY <1>2, <1>3, <1>4 DEF ToolsInv

LEMMA ToolsInitGood == ToolsInit => ToolsInv
<1> SUFFICES ASSUME ToolsInit PROVE ToolsInv OBVIOUS
<1>1. CASE RunnerInit /\ setup.tool = "spectest-interp"
  <2> DEFINE e == InitEnvironment
  <2>1. LoaderInit(e) /\ Scripted BY <1>1 DEF RunnerInit, Scripted
  <2>2. WellFormed(e, 0) /\ Len(e.modules) >= 1 /\ ~MakesHosts(e)
    BY InitEnvironmentGood
  <2> HIDE DEF e
  <2> QED BY <2>1, <2>2, LoaderInitGood
<1>2. CASE InterpInit /\ setup.tool = "wasm-interp"
  <2> DEFINE e == InitDummyEnvironment
  <2>1. LoaderInit(e) /\ ~Scripted BY <1>2 DEF InterpInit, Scripted
  <2>2. WellFormed(e, 0) /\ Len(e.modules) = 0 /\ MakesHosts(e)
    BY InitDummyEnvironmentGood
  <2> HIDE DEF e
  <2> QED BY <2>1, <2>2, LoaderInitGood
<1> QED BY <1>1, <1>2 DEF ToolsInit

-----------------------------------------------------------------------------
(* What the properties need of the invariant. *)
LEMMA EnvDomain ==
    ASSUME NEW e \in EnvRecords
    PROVE  DOMAIN e = {"modules", "funcs", "tables", "bindings", "registered",
                       "on_unknown_module"}
BY DEF EnvRecords

LEMMA TypesFollow == ToolsInv => TypeOK
<1> SUFFICES ASSUME ToolsInv PROVE TypeOK OBVIOUS
<1>1. Control BY DEF ToolsInv
<1>2. WellFormed(env, Open) /\ env \in EnvRecords
  BY DEF ToolsInv, EnvGood, WellFormed
<1>3. DOMAIN env = {"modules", "funcs", "tables", "bindings", "registered",
                    "on_unknown_module"}
  BY <1>2, EnvDomain
<1>4. /\ env.funcs \in Seq(FuncRecords) /\ DOMAIN env.tables = 1..Len(env.tables)
      /\ Len(env.modules) \in Nat
  BY <1>2, EnvFields
<1>5. ASSUME NEW t \in DOMAIN env.tables, env.tables[t].limits.max # NoMax
      PROVE  TableSize(env.tables[t]) <= env.tables[t].limits.max
  <2>1. SizeWithin(env.tables[t]) BY <1>2, <1>4 DEF WellFormed
  <2> QED BY <1>5, <2>1 DEF SizeWithin
<1>6. module \in 0..Len(env.modules) + 1
  <2>1. CASE phase = "idle" BY <1>4, <2>1 DEF ToolsInv, EnvGood
  <2>2. CASE phase # "idle"
    <3>1. /\ module = Len(saved.modules) + 1 /\ Extends(saved, env)
          /\ saved \in EnvRecords
      BY <2>2 DEF ToolsInv, LoadGood, WellFormed
    <3>2. Len(saved.modules) \in Nat /\ Len(saved.modules) <= Len(env.modules)
      BY <1>2, <3>1, ExtendsFields
    <3> QED BY <1>4, <3>1, <3>2
  <2> QED BY <2>1, <2>2
<1>7. section \in DOMAIN Sections BY <1>1, SectionNames DEF Control
<1>8. /\ phase \in {"idle", "read", "init", "start", "read_failed", "init_failed", "ready"}
      /\ declared \in Seq(Sigs) /\ {to_define, pass, segment, loads} \subseteq Nat
  BY <1>1 DEF Control, Phases
<1>9. env.funcs \in Seq([sig : Sigs, owner : 0..MaxLoads]) BY <1>4 DEF FuncRecords
<1> QED BY <1>3, <1>5, <1>6, <1>7, <1>8, <1>9, Zenon DEF TypeOK

LEMMA RestoreFollows == ToolsInv => FailedLoadRestores
BY DEF ToolsInv, LoadGood, FailedLoadRestores

LEMMA IndexSpacesFollow == ToolsInv => IndexSpacesExact
<1> SUFFICES ASSUME ToolsInv, phase \in {"read", "init", "start", "ready"},
                    NEW i \in DOMAIN declared
             PROVE  /\ env.modules[module].funcs[i] \in DOMAIN env.funcs
                    /\ env.funcs[env.modules[module].funcs[i]].sig = declared[i]
  BY Zenon DEF IndexSpacesExact
<1>1. i \in 1..Len(declared) BY DEF ToolsInv, Control
<1>2. /\ env.modules[module].funcs[i] \in 1..Len(env.funcs)
      /\ env.funcs[env.modules[module].funcs[i]].sig = declared[i]
  BY <1>1 DEF ToolsInv, FuncsFound
<1>3. DOMAIN env.funcs = 1..Len(env.funcs)
  BY EnvFields DEF ToolsInv, EnvGood, WellFormed
<1> QED BY <1>2, <1>3

LEMMA BindingsFollow == ToolsInv => BindingsResolve
<1> SUFFICES ASSUME ToolsInv, NEW b \in env.bindings \cup env.registered
             PROVE  b[2] \in DOMAIN env.modules
  BY DEF BindingsResolve
<1>1. WellFormed(env, Open) /\ env \in EnvRecords BY DEF ToolsInv, EnvGood, WellFormed
<1>2. b[2] \in 1..Len(env.modules) BY <1>1, Zenon DEF WellFormed
<1> QED BY <1>1, <1>2, EnvFields

(* With both tools, whatever is loaded, the environment stays well formed. *)
THEOREM ToolsAlwaysGood == ToolsSpec => []ToolsInv
<1> QED BY ToolsInitGood, ToolsNextKeeps, PTL DEF ToolsSpec

(* The environment keeps its types, and no table grows past its maximum: not by
   table.grow (Table limits, src/src/interp/interp.cc) nor by being imported. *)
THEOREM ToolsAlwaysTyped == ToolsSpec => []TypeOK
<1> QED BY ToolsAlwaysGood, TypesFollow, PTL

(* A module that fails to load leaves the environment as it was, whatever it
   imported, exported or registered meanwhile (ReadBinaryInterp). *)
THEOREM FailedLoadsAlwaysRestore == ToolsSpec => []FailedLoadRestores
<1> QED BY ToolsAlwaysGood, RestoreFollows, PTL

(* The index spaces that BinaryReaderInterp lays out from counts map every
   function to one that exists, of the signature declared. *)
THEOREM IndexSpacesAlwaysExact == ToolsSpec => []IndexSpacesExact
<1> QED BY ToolsAlwaysGood, IndexSpacesFollow, PTL

(* A name is always of a module that exists: no binding outlives the module of a
   failed load (Environment::ResetToMarkPoint). *)
THEOREM BindingsAlwaysResolve == ToolsSpec => []BindingsResolve
<1> QED BY ToolsAlwaysGood, BindingsFollow, PTL

-----------------------------------------------------------------------------
(***************************************************************************)
(* The entries of tables.  OnModuleCommand undoes the load of a module     *)
(* that fails, but not what the module has already written to the tables   *)
(* it imports: that nothing has been written by then is an assumption on   *)
(* how spectest-interp is run, and the run ResetAfterStart shows what      *)
(* happens without it.                                                     *)
(***************************************************************************)
UndoneUnwritten ==
    \A s \in Setups : s.tool = "spectest-interp" /\ "module" \in s.commands =>
        ~s.bulk_memory /\ ~s.start_traps

NewTablesNull ==
    phase = "read" =>
        \A k \in Len(saved.tables) + 1 .. Len(env.tables) :
            \A i \in 1..Len(env.tables[k].entries) : env.tables[k].entries[i] = Null

SegmentWithin(e, x) == CheckBounds(x.dst, Len(x.src), TableSize(e.tables[x.table]))

(* A load that may be undone writes only in its second pass, which begins when
   every segment has been found to be within its table. *)
UndoSafe ==
    Scripted /\ phase # "idle" =>
        /\ command \in setup.commands
        /\ command = "module" =>
              /\ phase = "init_failed" \/ (phase = "init" /\ pass # 1) => TablesKept(saved, env)
              /\ phase = "init" =>
                    \A k \in 1..Len(active_elem_segments) :
                        pass = 1 \/ k < segment => SegmentWithin(env, active_elem_segments[k])

LiveInv ==
    AllLive(env) /\ (phase # "idle" => AllLive(saved)) /\ NewTablesNull /\ UndoSafe

LEMMA NullIsLive == \A e : Live(e, Null)
BY DEF Live

LEMMA LiveAfterReading ==
    ASSUME NEW s \in EnvRecords, NEW e \in EnvRecords, Extends(s, e), TablesKept(s, e),
           AllLive(s),
           \A k \in Len(s.tables) + 1 .. Len(e.tables) :
              \A i \in 1..Len(e.tables[k].entries) : e.tables[k].entries[i] = Null
    PROVE  AllLive(e)
<1>1. \A ref : Live(s, ref) => Live(e, ref) BY ExtendsFields DEF Live
<1>2. Len(s.tables) \in Nat /\ Len(e.tables) \in Nat BY EnvFields
<1>3. ASSUME NEW k \in 1..Len(e.tables), NEW i \in 1..Len(e.tables[k].entries)
      PROVE  Live(e, e.tables[k].entries[i])
  <2>1. CASE k \in 1..Len(s.tables)
    <3>1. e.tables[k] = s.tables[k] BY <2>1 DEF TablesKept
    <3>2. Live(s, s.tables[k].entries[i]) BY <1>3, <2>1, <3>1 DEF AllLive
    <3> QED BY <1>1, <3>1, <3>2
  <2>2. CASE k \notin 1..Len(s.tables)
    <3>1. k \in Len(s.tables) + 1 .. Len(e.tables) BY <1>2, <2>2
    <3>2. e.tables[k].entries[i] = Null BY <1>3, <3>1
    <3> QED BY <3>2, NullIsLive
  <2> QED BY <2>1, <2>2
<1> QED BY <1>3, Zenon DEF AllLive

(* What a callback of the reader does to the tables. *)
ReadOutcome ==
    /\ saved' = saved
    /\ \/ phase' = "read_failed"
       \/ phase' = "read" /\ env'.tables = env.tables
       \/ /\ phase' = "read"
          /\ \E limits \in setup.limits : env'.tables = Append(env.tables, NewTable(limits))
       \/ phase' = "init" /\ env' = env /\ pass' = FirstPass /\ segment' = 1

LEMMA ModulesOnly ==
    ASSUME NEW e \in EnvRecords, NEW ms
    PROVE  [e EXCEPT !.modules = ms].tables = e.tables
BY DEF EnvRecords

LEMMA MapKeepsTables ==
    ASSUME NEW e \in EnvRecords, NEW index
    PROVE  MapFunc(e, index).tables = e.tables /\ MapTable(e, index).tables = e.tables
<1> DEFINE fs == [e.modules EXCEPT ![module].funcs = Append(@, index)]
           ts == [e.modules EXCEPT ![module].tables = Append(@, index)]
<1>1. MapFunc(e, index) = [e EXCEPT !.modules = fs] BY Zenon DEF MapFunc
<1>2. MapTable(e, index) = [e EXCEPT !.modules = ts] BY Zenon DEF MapTable
<1> HIDE DEF fs, ts
<1> QED BY <1>1, <1>2, ModulesOnly

LEMMA ReadTables ==
    ASSUME ToolsInv, ReadNext
    PROVE  ReadOutcome /\ phase = "read"
<1>f. ASSUME NEW e, NEW error, Fail(e, error) PROVE ReadOutcome
  BY <1>f DEF Fail, ReadOutcome
<1>r. ASSUME NEW e, phase = "read", Read(e), e.tables = env.tables PROVE ReadOutcome
  BY <1>r DEF Read, ReadOutcome
<1>2. ASSUME NEW n \in Names, NEW f \in Fields, NEW s \in setup.sigs, OnImportFunc(n, f, s)
      PROVE  ReadOutcome /\ phase = "read"
  <2>1. phase = "read" BY <1>2, SectionEntered DEF OnImportFunc
  <2>2. PICK found \in ResolveImport("func", n, f, s) :
           \/ Fail(found.env, NoMessage)
           \/ Read(MapFunc(found.env, found.export.index))
    BY <1>2, Zenon DEF OnImportFunc
  <2>3. found.env \in EnvRecords /\ found.env.tables = env.tables
    <3> DEFINE kind == "func"
    <3>1. kind \in {"func", "table"} /\ found \in ResolveImport(kind, n, f, s) OBVIOUS
    <3>2. s \in Sigs BY SetupFields DEF ToolsInv, Control
    <3> HIDE DEF kind
    <3> QED BY <2>1, <3>1, <3>2, ImportResolved
  <2>4. MapFunc(found.env, found.export.index).tables = env.tables
    BY <2>3, MapKeepsTables
  <2>5. CASE Fail(found.env, NoMessage) BY <1>f, <2>1, <2>5
  <2>6. CASE Read(MapFunc(found.env, found.export.index)) BY <1>r, <2>1, <2>4, <2>6
  <2> QED BY <2>2, <2>5, <2>6
<1>3. ASSUME NEW n \in Names, NEW f \in Fields, NEW l \in setup.limits,
             OnImportTable(n, f, l)
      PROVE  ReadOutcome /\ phase = "read"
  <2>1. phase = "read" BY <1>3, SectionEntered DEF OnImportTable
  <2>2. PICK found \in ResolveImport("table", n, f, Invalid) :
           \/ \E error : Fail(found.env, error)
           \/ Read(MapTable(found.env, found.export.index))
    BY <1>3, Zenon DEF OnImportTable
  <2>3. found.env \in EnvRecords /\ found.env.tables = env.tables
    <3> DEFINE kind == "table"
    <3>1. kind \in {"func", "table"} /\ found \in ResolveImport(kind, n, f, Invalid)
          /\ kind # "func"
      OBVIOUS
    <3> HIDE DEF kind
    <3> QED BY <2>1, <3>1, ImportResolved
  <2>4. MapTable(found.env, found.export.index).tables = env.tables
    BY <2>3, MapKeepsTables
  <2>5. ASSUME NEW error, Fail(found.env, error) PROVE ReadOutcome BY <1>f, <2>5
  <2>6. CASE Read(MapTable(found.env, found.export.index)) BY <1>r, <2>1, <2>4, <2>6
  <2> QED BY <2>1, <2>2, <2>5, <2>6
<1>4. ASSUME NEW count, OnFunctionCount(count) PROVE ReadOutcome /\ phase = "read"
  <2> DEFINE ms == [env.modules EXCEPT ![module].funcs =
                        @ \o [i \in 1..count |-> Len(env.funcs) + i]]
             t == [env EXCEPT !.modules = ms]
  <2>1. phase = "read" BY <1>4, SectionEntered DEF OnFunctionCount
  <2>2. Read(t) BY <1>4, Zenon DEF OnFunctionCount
  <2> HIDE DEF ms
  <2>3. t.tables = env.tables BY <2>1, WhileRead, ModulesOnly
  <2> QED BY <1>r, <2>1, <2>2, <2>3
<1>5. ASSUME NEW count, OnTableCount(count) PROVE ReadOutcome /\ phase = "read"
  <2> DEFINE ms == [env.modules EXCEPT ![module].tables =
                        @ \o [i \in 1..count |-> Len(env.tables) + i]]
             t == [env EXCEPT !.modules = ms]
  <2>1. phase = "read" BY <1>5, SectionEntered DEF OnTableCount
  <2>2. Read(t) BY <1>5, Zenon DEF OnTableCount
  <2> HIDE DEF ms
  <2>3. t.tables = env.tables BY <2>1, WhileRead, ModulesOnly
  <2> QED BY <1>r, <2>1, <2>2, <2>3
<1>6. ASSUME NEW s \in setup.sigs, OnFunction(s) PROVE ReadOutcome /\ phase = "read"
  <2> DEFINE fs == Append(env.funcs, [sig |-> s, owner |-> loads])
             t == [env EXCEPT !.funcs = fs]
  <2>1. phase = "read" BY <1>6 DEF OnFunction
  <2>2. Read(t) BY <1>6, Zenon DEF OnFunction
  <2> HIDE DEF fs
  <2>3. t.tables = env.tables
    <3>1. env \in EnvRecords BY <2>1, WhileRead
    <3> QED BY <3>1 DEF EnvRecords
  <2> QED BY <1>r, <2>1, <2>2, <2>3
<1>7. ASSUME NEW l \in setup.limits, OnTable(l) PROVE ReadOutcome /\ phase = "read"
  <2> DEFINE ts == Append(env.tables, NewTable(l))
             t == [env EXCEPT !.tables = ts]
  <2>1. phase = "read" BY <1>7 DEF OnTable
  <2>2. Read(t) BY <1>7, Zenon DEF OnTable
  <2>u. ts = Append(env.tables, NewTable(l)) OBVIOUS
  <2> HIDE DEF ts
  <2>3. t.tables = ts
    <3>1. env \in EnvRecords BY <2>1, WhileRead
    <3> QED BY <3>1 DEF EnvRecords
  <2>4. env'.tables = Append(env.tables, NewTable(l)) /\ phase' = "read" /\ saved' = saved
    BY <2>1, <2>2, <2>3, <2>u DEF Read
  <2> QED BY <2>1, <2>4 DEF ReadOutcome
<1>8. ASSUME NEW k, NEW i, NEW f, OnExport(k, i, f) PROVE ReadOutcome /\ phase = "read"
  <2>1. phase = "read" BY <1>8, SectionEntered DEF OnExport
  <2> DEFINE index == IndexSpace(k)[i]
             ms == [env.modules EXCEPT ![module].exports =
                        Append(@, [kind |-> k, index |-> index, name |-> f])]
             t == [env EXCEPT !.modules = ms]
  <2>2. Fail(env, NoMessage) \/ Read(AppendExport(env, module, k, index, f))
    BY <1>8, Zenon DEF OnExport
  <2>3. AppendExport(env, module, k, index, f) = t BY Zenon DEF AppendExport
  <2> HIDE DEF ms, index
  <2>4. t.tables = env.tables BY <2>1, WhileRead, ModulesOnly
  <2> QED BY <1>f, <1>r, <2>1, <2>2, <2>3, <2>4
<1>9. ASSUME NEW i, OnStartFunction(i) PROVE ReadOutcome /\ phase = "read"
  <2>1. phase = "read" BY <1>9, SectionEntered DEF OnStartFunction
  <2>2. Fail(env, NoMessage) \/ Read(env) BY <1>9, Zenon DEF OnStartFunction
  <2> QED BY <1>f, <1>r, <2>1, <2>2
<1>10. ASSUME NEW t, NEW d, NEW i, OnActiveElemSegment(t, d, i)
       PROVE  ReadOutcome /\ phase = "read"
  <2>1. phase = "read" BY <1>10, SectionEntered DEF OnActiveElemSegment
  <2>2. Read(env) BY <1>10, Zenon DEF OnActiveElemSegment
  <2> QED BY <1>r, <2>1, <2>2
<1>11. CASE Malformed BY <1>f, <1>11 DEF Malformed
<1>12. CASE EndRead BY <1>12 DEF EndRead, readerVars, ReadOutcome
<1> QED BY <1>2, <1>3, <1>4, <1>5, <1>6, <1>7, <1>8, <1>9, <1>10, <1>11, <1>12, Zenon
        DEF ReadNext

LEMMA ModuleCommandUnwritten ==
    ASSUME ToolsInv, UndoneUnwritten, Scripted, command = "module",
           command \in setup.commands
    PROVE  FirstPass = 0 /\ ~setup.start_traps
<1>1. setup \in Setups /\ setup.tool = "spectest-interp" /\ "module" \in setup.commands
  BY DEF ToolsInv, Control, Scripted
<1>2. ~setup.bulk_memory /\ ~setup.start_traps BY <1>1 DEF UndoneUnwritten
<1> QED BY <1>2 DEF FirstPass

LEMMA NewTableNull ==
    ASSUME ToolsInv, NEW limits \in setup.limits,
           NEW i \in 1..Len(NewTable(limits).entries)
    PROVE  NewTable(limits).entries[i] = Null
<1> DEFINE n == limits.initial
<1>1. /\ NewTable(limits).entries = [j \in 1..limits.initial |-> Null]
      /\ limits.initial \in Nat
  BY LimitFields, NewTableFields
<1>2. NewTable(limits).entries = [j \in 1..n |-> Null] /\ n \in Nat BY <1>1
<1> HIDE DEF n
<1>3. Len(NewTable(limits).entries) = n
  <2> HIDE DEF Null
  <2> QED BY <1>2
<1> QED BY <1>2, <1>3

LEMMA LiveReadNext ==
    ASSUME ToolsInv, ToolsInv', LiveInv, UndoneUnwritten, ReadNext,
           UNCHANGED <<setup, command>>
    PROVE  LiveInv'
<1>1. ReadOutcome /\ phase = "read" BY ReadTables
<1>2. saved' = saved /\ setup' = setup /\ command' = command BY <1>1 DEF ReadOutcome
<1>3. AllLive(env) /\ AllLive(saved) /\ NewTablesNull /\ UndoSafe BY <1>1 DEF LiveInv
<1>4. AllLive(saved') BY <1>2, <1>3
<1>5. Scripted' => Scripted /\ command' \in setup'.commands
  BY <1>1, <1>2, <1>3 DEF Scripted, UndoSafe
<1>6. CASE phase' = "read_failed"
  <2>1. env' = saved' BY <1>6 DEF ToolsInv, LoadGood
  <2>2. AllLive(env') BY <1>4, <2>1
  <2>3. NewTablesNull' BY <1>6 DEF NewTablesNull
  <2>4. UndoSafe' BY <1>5, <1>6 DEF UndoSafe
  <2> QED BY <1>4, <2>2, <2>3, <2>4 DEF LiveInv
<1>7. CASE phase' = "read"
  <2>1. /\ \A k \in Len(saved.tables) + 1 .. Len(env.tables) :
              \A i \in 1..Len(env.tables[k].entries) : env.tables[k].entries[i] = Null
    BY <1>1, <1>3 DEF NewTablesNull
  <2>2. \/ env'.tables = env.tables
        \/ \E limits \in setup.limits : env'.tables = Append(env.tables, NewTable(limits))
    BY <1>1, <1>7 DEF ReadOutcome
  <2>3. \A k \in Len(saved.tables) + 1 .. Len(env'.tables) :
           \A i \in 1..Len(env'.tables[k].entries) : env'.tables[k].entries[i] = Null
    <3>1. CASE env'.tables = env.tables BY <2>1, <3>1
    <3>2. ASSUME NEW limits \in setup.limits,
                 env'.tables = Append(env.tables, NewTable(limits)),
                 NEW k \in Len(saved.tables) + 1 .. Len(env'.tables),
                 NEW i \in 1..Len(env'.tables[k].entries)
          PROVE  env'.tables[k].entries[i] = Null
      <4> DEFINE table == NewTable(limits)
                 ts == env'.tables
      <4>1. env.tables \in Seq(TableRecords) /\ saved \in EnvRecords
        BY <1>1, WhileRead, EnvFields
      <4>2. table \in TableRecords BY LimitFields, NewTableFields
      <4>3. ts = Append(env.tables, table) BY <3>2
      <4>n. \A j \in 1..Len(table.entries) : table.entries[j] = Null BY NewTableNull
      <4>k. /\ k \in Len(saved.tables) + 1 .. Len(ts) /\ i \in 1..Len(ts[k].entries)
            /\ ts[k].entries[i] = Null => env'.tables[k].entries[i] = Null
        BY <3>2
      <4> HIDE DEF table, ts
      <4>4. /\ Len(ts) = Len(env.tables) + 1 /\ ts[Len(env.tables) + 1] = table
            /\ \A j \in 1..Len(env.tables) : ts[j] = env.tables[j]
            /\ Len(env.tables) \in Nat /\ Len(saved.tables) \in Nat
        BY <4>1, <4>2, <4>3, Appended, EnvFields
      <4>5. CASE k = Len(env.tables) + 1 BY <4>4, <4>5, <4>k, <4>n
      <4>6. CASE k # Len(env.tables) + 1
        <5>1. k \in Len(saved.tables) + 1 .. Len(env.tables) /\ k \in 1..Len(env.tables)
          BY <4>4, <4>6, <4>k
        <5>2. ts[k] = env.tables[k] BY <4>4, <5>1
        <5> QED BY <2>1, <4>k, <5>1, <5>2
      <4> QED BY <4>5, <4>6
    <3> QED BY <2>2, <3>1, <3>2
  <2>4. NewTablesNull' BY <1>2, <2>3 DEF NewTablesNull
  <2>5. AllLive(env')
    <3> DEFINE s == saved
               e == env'
    <3>1. /\ s \in EnvRecords /\ e \in EnvRecords /\ Extends(s, e) /\ TablesKept(s, e)
      <4>1. WellFormed(saved', 0) /\ Extends(saved', env') /\ TablesKept(saved', env')
        BY <1>7 DEF ToolsInv, LoadGood
      <4>2. env' \in EnvRecords BY DEF ToolsInv, EnvGood, WellFormed
      <4> QED BY <1>2, <4>1, <4>2 DEF WellFormed
    <3>2. AllLive(s) BY <1>3
    <3>3. \A k \in Len(s.tables) + 1 .. Len(e.tables) :
             \A i \in 1..Len(e.tables[k].entries) : e.tables[k].entries[i] = Null
      BY <2>3
    <3>4. AllLive(e) => AllLive(env') OBVIOUS
    <3> HIDE DEF s, e
    <3> QED BY <3>1, <3>2, <3>3, <3>4, LiveAfterReading
  <2>6. UndoSafe' BY <1>5, <1>7 DEF UndoSafe
  <2> QED BY <1>4, <2>4, <2>5, <2>6 DEF LiveInv
<1>8. CASE phase' = "init" /\ env' = env /\ pass' = FirstPass /\ segment' = 1
  <2>1. AllLive(env') BY <1>3, <1>8
  <2>2. NewTablesNull' BY <1>8 DEF NewTablesNull
  <2>3. UndoSafe'
    <3>1. TablesKept(saved, env) BY <1>1 DEF ToolsInv, LoadGood
    <3>2. ASSUME Scripted', command' = "module",
                 NEW k \in 1..Len(active_elem_segments')
          PROVE  ~(pass' = 1 \/ k < segment')
      <4>1. FirstPass = 0 BY <1>2, <1>5, <3>2, ModuleCommandUnwritten
      <4> QED BY <1>8, <4>1
    <3> QED BY <1>2, <1>5, <1>8, <3>1, <3>2 DEF UndoSafe
  <2> QED BY <1>4, <2>1, <2>2, <2>3 DEF LiveInv
<1> QED BY <1>1, <1>6, <1>7, <1>8 DEF ReadOutcome

(* A copy changes entries, not sizes. *)
LEMMA CopySegmentSizes ==
    ASSUME WellFormed(env, 0), NEW info \in SegmentRecords, SegmentFound(env, info),
           NEW t, t = CopySegment(env, info), NEW k \in 1..Len(env.tables)
    PROVE  TableSize(t.tables[k]) = TableSize(env.tables[k])
<1> DEFINE q == info.table
           old == env.tables[q].entries
           xs == [i \in DOMAIN old |->
                     IF i \in info.dst + 1 .. info.dst + Len(info.src)
                     THEN info.src[i - info.dst] ELSE old[i]]
           r == [env.tables[q] EXCEPT !.entries = xs]
           ts == [env.tables EXCEPT ![q] = r]
<1>1. t = [env EXCEPT !.tables = ts] BY Zenon DEF CopySegment
<1>2. q \in 1..Len(env.tables) BY DEF SegmentFound
<1>3. env \in EnvRecords BY DEF WellFormed
<1>4. /\ old \in Seq(RefRecords) /\ Len(old) \in Nat /\ DOMAIN old = 1..Len(old)
  BY <1>2, <1>3, TableAt
<1>5. DOMAIN env.tables = 1..Len(env.tables) /\ env.tables \in Seq(TableRecords)
  BY <1>3, EnvFields
<1>6. env.tables[q] \in TableRecords BY <1>2, <1>3, TableAt
<1>7. DOMAIN xs = 1..Len(old) BY <1>4
<1>8. xs = [i \in 1..Len(old) |-> xs[i]] BY <1>4
<1>o. old = env.tables[q].entries OBVIOUS
<1> HIDE DEF q, old, xs
<1>9. Len(xs) = Len(old) BY <1>4, <1>7, <1>8
<1>10. r.entries = xs BY <1>6 DEF TableRecords
<1> HIDE DEF r
<1>11. ts[k] = IF k = q THEN r ELSE env.tables[k] BY <1>5
<1> HIDE DEF ts
<1>12. t.tables = ts BY <1>1, <1>3 DEF EnvRecords
<1>13. CASE k = q
  <2>1. t.tables[k] = r BY <1>11, <1>12, <1>13
  <2> QED BY <1>9, <1>10, <1>13, <1>o, <2>1 DEF TableSize
<1>14. CASE k # q
  <2>1. t.tables[k] = env.tables[k] BY <1>11, <1>12, <1>14
  <2> QED BY <2>1
<1> QED BY <1>13, <1>14

(* What the invariant asks of a step of Initialize, given what it does to the
   entries. *)
LEMMA LiveInitialize ==
    ASSUME ToolsInv, LiveInv, phase \in {"init", "start", "ready"},
           UNCHANGED <<setup, command>>, UNCHANGED <<loads, readerVars>>,
           TableChanged(env, 0, env'),
           phase' \in {"init", "start", "ready", "init_failed"},
           Scripted /\ command = "module" =>
              /\ phase' = "init_failed" \/ (phase' = "init" /\ pass' # 1) =>
                    TablesKept(saved, env')
              /\ phase' = "init" =>
                    \A k \in 1..Len(active_elem_segments) :
                        pass' = 1 \/ k < segment' =>
                            SegmentWithin(env', active_elem_segments[k])
    PROVE  LiveInv'
<1>1. /\ setup' = setup /\ command' = command /\ saved' = saved
      /\ active_elem_segments' = active_elem_segments
  BY DEF readerVars
<1>2. AllLive(env) /\ AllLive(saved) /\ UndoSafe BY DEF LiveInv
<1>3. AllLive(env') BY <1>2, Zenon DEF TableChanged
<1>4. AllLive(saved') BY <1>1, <1>2
<1>5. NewTablesNull' BY DEF NewTablesNull
<1>6. Scripted' <=> Scripted BY <1>1 DEF Scripted
<1>7. UndoSafe' BY <1>1, <1>2, <1>6 DEF UndoSafe
<1> QED BY <1>3, <1>4, <1>5, <1>7 DEF LiveInv

LEMMA LiveInitSegment ==
    ASSUME ToolsInv, LiveInv, UndoneUnwritten, InitSegment, UNCHANGED <<setup, command>>
    PROVE  LiveInv'
<1> DEFINE info == active_elem_segments[segment]
<1>1. /\ phase = "init" /\ segment <= Len(active_elem_segments) /\ pass' = pass
      /\ UNCHANGED <<loads, readerVars>>
      /\ IF SegmentWithin(env, info)
         THEN /\ env' = IF pass = 1 THEN CopySegment(env, info) ELSE env
              /\ segment' = segment + 1 /\ phase' = phase
         ELSE /\ phase' = "init_failed" /\ env' = env /\ segment' = segment
  BY DEF InitSegment, Running, SegmentWithin
<1>2. /\ WellFormed(env, 0) /\ env \in EnvRecords /\ pass \in Nat /\ segment \in Nat \ {0}
      /\ active_elem_segments \in Seq(SegmentRecords)
      /\ Len(active_elem_segments) \in Nat
  BY <1>1, AfterRead
<1>3. segment \in 1..Len(active_elem_segments) BY <1>1, <1>2
<1>4. info \in SegmentRecords /\ SegmentFound(env, info)
  <2>1. info \in SegmentRecords BY <1>2, <1>3, SequenceFields
  <2>2. SegmentFound(env, info) BY <1>1, <1>3 DEF ToolsInv, SegmentsFound
  <2> QED BY <2>1, <2>2
<1>5. TableChanged(env, 0, env')
  <2> DEFINE o == 0
  <2>1. WellFormed(env, o) /\ (TableChanged(env, o, env') => TableChanged(env, 0, env'))
    BY <1>2
  <2>2. TableChanged(env, 0, CopySegment(env, info))
    <3> HIDE DEF info
    <3> QED BY <1>2, <1>4, CopySegmentChanges
  <2>3. env' = env => TableChanged(env, o, env')
    <3> HIDE DEF o
    <3> QED BY <2>1, TablesUnchanged
  <2> QED BY <1>1, <2>1, <2>2, <2>3
<1>6. ASSUME Scripted, command = "module"
      PROVE  /\ pass # 1 => TablesKept(saved, env)
             /\ \A k \in 1..Len(active_elem_segments) :
                   pass = 1 \/ k < segment => SegmentWithin(env, active_elem_segments[k])
  <2>1. UndoSafe BY DEF LiveInv
  <2> QED BY <1>1, <1>6, <2>1 DEF UndoSafe
<1>7. ASSUME Scripted, command = "module", phase' = "init_failed" \/ (phase' = "init" /\ pass' # 1)
      PROVE  TablesKept(saved, env')
  <2>1. CASE pass = 1
    <3>1. SegmentWithin(env, info) BY <1>3, <1>6, <1>7, <2>1
    <3> QED BY <1>1, <1>7, <2>1, <3>1
  <2>2. CASE pass # 1
    <3>1. env' = env BY <1>1, <2>2
    <3> QED BY <1>6, <1>7, <2>2, <3>1
  <2> QED BY <2>1, <2>2
<1>8. ASSUME Scripted, command = "module", phase' = "init",
             NEW k \in 1..Len(active_elem_segments), pass' = 1 \/ k < segment'
      PROVE  SegmentWithin(env', active_elem_segments[k])
  <2> DEFINE x == active_elem_segments[k]
  <2>1. SegmentWithin(env, info) /\ segment' = segment + 1
    BY <1>1, <1>8
  <2>2. SegmentWithin(env, x)
    <3>1. CASE pass = 1 \/ k < segment BY <1>6, <1>8, <3>1
    <3>2. CASE ~(pass = 1 \/ k < segment)
      <4>1. k = segment BY <1>1, <1>2, <1>8, <2>1, <3>2
      <4> QED BY <2>1, <4>1
    <3> QED BY <3>1, <3>2
  <2>3. x.table \in 1..Len(env.tables)
    BY <1>1, <1>8 DEF ToolsInv, SegmentsFound, SegmentFound
  <2> HIDE DEF x, info
  <2>4. TableSize(env'.tables[x.table]) = TableSize(env.tables[x.table])
    <3>1. CASE env' = env BY <3>1
    <3>2. CASE env' = CopySegment(env, info)
      <4> DEFINE t == env'
      <4>1. t = CopySegment(env, info) BY <3>2
      <4> HIDE DEF t
      <4>2. TableSize(t.tables[x.table]) = TableSize(env.tables[x.table])
        BY <1>2, <1>4, <2>3, <4>1, CopySegmentSizes
      <4> QED BY <4>2 DEF t
    <3> QED BY <1>1, <3>1, <3>2
  <2>5. SegmentWithin(env', x) BY <2>2, <2>4 DEF SegmentWithin
  <2> QED BY <2>5 DEF x
<1>9. phase' \in {"init", "start", "ready", "init_failed"} /\ phase \in {"init", "start", "ready"}
  BY <1>1
<1> QED BY <1>1, <1>5, <1>7, <1>8, <1>9, LiveInitialize

LEMMA LiveInitializeNext ==
    ASSUME ToolsInv, LiveInv, UndoneUnwritten, InitializeNext, UNCHANGED <<setup, command>>
    PROVE  LiveInv'
<1>1. CASE InitSegment BY <1>1, LiveInitSegment
<1>s. ASSUME phase \in {"init", "start", "ready"}, UNCHANGED env
      PROVE  TableChanged(env, 0, env')
  <2> DEFINE o == 0
  <2>1. WellFormed(env, o) /\ (TableChanged(env, o, env') => TableChanged(env, 0, env'))
    BY <1>s, AfterRead
  <2> HIDE DEF o
  <2> QED BY <1>s, <2>1, TablesUnchanged
<1>u. UndoSafe BY DEF LiveInv
<1>m. ASSUME Scripted, command = "module", phase # "idle"
      PROVE  FirstPass = 0 /\ ~setup.start_traps
  <2>1. command \in setup.commands BY <1>m, <1>u DEF UndoSafe
  <2> QED BY <1>m, <2>1, ModuleCommandUnwritten
<1>2. CASE DataSegmentOutOfBounds
  <2>1. /\ phase = "init" /\ env' = env /\ UNCHANGED <<loads, readerVars>>
        /\ pass = FirstPass /\ phase' = "init_failed"
    BY <1>2 DEF DataSegmentOutOfBounds, Running
  <2>2. TableChanged(env, 0, env') BY <1>s, <2>1
  <2>3. ASSUME Scripted, command = "module" PROVE TablesKept(saved, env')
    <3>1. pass # 1 BY <1>m, <2>1, <2>3
    <3> QED BY <1>u, <2>1, <2>3, <3>1 DEF UndoSafe
  <2> QED BY <2>1, <2>2, <2>3, LiveInitialize
<1>3. CASE EndPass
  <2>1. /\ phase = "init" /\ env' = env /\ UNCHANGED <<loads, readerVars>>
        /\ segment > Len(active_elem_segments)
        /\ \/ pass = 0 /\ pass' = 1 /\ phase' = phase
           \/ phase' \in {"start", "ready"}
    BY <1>3 DEF EndPass, Running
  <2>2. TableChanged(env, 0, env') BY <1>s, <2>1
  <2>3. segment \in Nat /\ Len(active_elem_segments) \in Nat BY <2>1, AfterRead
  <2>4. ASSUME Scripted, command = "module", phase' = "init",
               NEW k \in 1..Len(active_elem_segments)
        PROVE  SegmentWithin(env', active_elem_segments[k])
    <3>1. k < segment BY <2>1, <2>3
    <3> QED BY <1>u, <2>1, <2>4, <3>1 DEF UndoSafe
  <2>5. /\ phase' \in {"init", "start", "ready", "init_failed"}
        /\ phase' # "init_failed" /\ ~(phase' = "init" /\ pass' # 1)
    BY <2>1
  <2> QED BY <2>1, <2>2, <2>4, <2>5, LiveInitialize
<1>4. CASE StartRuns
  <2>1. /\ phase = "start" /\ UNCHANGED <<loads, readerVars>> /\ phase' = "start"
        /\ TableSet(module) \/ TableGrow(module)
    BY <1>4 DEF StartRuns, Running
  <2>2. WellFormed(env, 0) /\ module \in 1..Len(env.modules) BY <2>1, AfterRead
  <2>3. TableChanged(env, 0, env') BY <2>1, <2>2, TableSetChanges, TableGrowChanges
  <2> QED BY <2>1, <2>3, LiveInitialize
<1>5. CASE StartEnds
  <2>1. /\ phase = "start" /\ env' = env /\ UNCHANGED <<loads, readerVars>>
        /\ phase' \in {"ready"} \cup (IF setup.start_traps THEN {"init_failed"} ELSE {})
    BY <1>5 DEF StartEnds, Running
  <2>2. TableChanged(env, 0, env') BY <1>s, <2>1
  <2>3. ASSUME Scripted, command = "module" PROVE phase' = "ready"
    BY <1>m, <2>1, <2>3
  <2>4. phase' \in {"ready", "init_failed"} BY <2>1
  <2> QED BY <2>1, <2>2, <2>3, <2>4, LiveInitialize
<1> QED BY <1>1, <1>2, <1>3, <1>4, <1>5 DEF InitializeNext

LEMMA LiveAsTables ==
    ASSUME NEW e, NEW t, t.tables = e.tables, t.funcs = e.funcs, AllLive(e)
    PROVE  AllLive(t)
BY SMTT(30) DEF AllLive, Live

LEMMA LiveBeginLoad ==
    ASSUME ToolsInv, LiveInv, phase = "idle", BeginLoad, UNCHANGED setup,
           Scripted => command' \in setup.commands
    PROVE  LiveInv'
<1> DEFINE ms == Append(env.modules, NewModule(FALSE, {}))
<1>1. phase' = "read" /\ env' = [env EXCEPT !.modules = ms] /\ saved' = env
      /\ setup' = setup
  BY DEF BeginLoad
<1> HIDE DEF ms
<1>2. env \in EnvRecords BY DEF ToolsInv, EnvGood, WellFormed
<1>3. env'.tables = env.tables /\ env'.funcs = env.funcs
  BY <1>1, <1>2 DEF EnvRecords
<1>4. AllLive(env) BY DEF LiveInv
<1>5. AllLive(env') BY <1>3, <1>4, LiveAsTables
<1>6. AllLive(saved') BY <1>1, <1>4
<1>7. NewTablesNull'
  <2>1. Len(env.tables) \in Nat BY <1>2, EnvFields
  <2>2. Len(env.tables) + 1 .. Len(env.tables) = {} BY <2>1
  <2> QED BY <1>1, <1>3, <2>2 DEF NewTablesNull
<1>8. UndoSafe' BY <1>1 DEF UndoSafe, Scripted
<1> QED BY <1>5, <1>6, <1>7, <1>8 DEF LiveInv

LEMMA LiveBetween ==
    ASSUME phase' = "idle", AllLive(env')
    PROVE  LiveInv'
BY DEF LiveInv, NewTablesNull, UndoSafe

(* What a command undoes it undoes completely. *)
LEMMA LiveReset ==
    ASSUME ToolsInv, LiveInv, Scripted, command = "module",
           phase \in {"read_failed", "init_failed"},
           EndCommand(ResetToMarkPoint(env, mark))
    PROVE  LiveInv'
<1>1. phase' = "idle" /\ env' = ResetToMarkPoint(env, mark) BY DEF EndCommand, EndLoad
<1>2. /\ env \in EnvRecords /\ WellFormed(saved, 0) /\ mark = Mark(saved)
      /\ Extends(saved, env)
  BY NotIdle
<1>3. TablesKept(saved, env)
  <2>1. CASE phase = "read_failed"
    <3>1. env = saved BY <2>1 DEF ToolsInv, LoadGood
    <3> QED BY <3>1 DEF TablesKept
  <2>2. CASE phase = "init_failed" BY <2>2 DEF LiveInv, UndoSafe
  <2> QED BY <2>1, <2>2
<1>4. env' = saved BY <1>1, <1>2, <1>3, ResetRestores
<1>5. AllLive(saved) BY DEF LiveInv
<1>6. AllLive(env') BY <1>4, <1>5
<1> QED BY <1>1, <1>6, LiveBetween

LEMMA LiveRunnerStep ==
    ASSUME ToolsInv, ToolsInv', LiveInv, UndoneUnwritten, IsRun("spectest-interp"),
           RunnerStep
    PROVE  LiveInv'
<1>1. Scripted /\ UNCHANGED setup BY DEF IsRun, Scripted
<1>e. AllLive(env) BY DEF LiveInv
<1>2. CASE OnLoadCommand BY <1>1, <1>2, LiveBeginLoad DEF OnLoadCommand
<1>3. CASE ReadNext /\ UNCHANGED command BY <1>1, <1>3, LiveReadNext
<1>4. CASE InitializeNext /\ UNCHANGED command BY <1>1, <1>4, LiveInitializeNext
<1>5. CASE ModuleReadFailed \/ ModuleInitFailed
  <2>1. /\ phase \in {"read_failed", "init_failed"} /\ command = "module"
        /\ EndCommand(ResetToMarkPoint(env, mark))
    BY <1>5 DEF ModuleReadFailed, ModuleInitFailed
  <2> QED BY <1>1, <2>1, LiveReset
<1>6. CASE ModuleReady
  <2>1. phase = "ready" /\ phase' = "idle"
    BY <1>6, Zenon DEF ModuleReady, EndCommand, EndLoad
  <2>2. env' = env \/ \E name \in ScriptNames : env' = Named(env, module, name)
    BY <1>6, Zenon DEF ModuleReady, EndCommand, EndLoad, Named
  <2>3. CASE env' = env BY <1>e, <2>1, <2>3, LiveBetween
  <2>4. ASSUME NEW name \in ScriptNames, env' = Named(env, module, name)
        PROVE  AllLive(env')
    <3> DEFINE e == env
               m == module
               t == env'
    <3>1. WellFormed(e, 0) /\ ~MakesHosts(e) /\ m \in 1..Len(e.modules)
          /\ t = Named(e, m, name)
      BY <1>1, <2>1, <2>4, AfterRead DEF ToolsInv, EnvGood
    <3>2. name \in Names \ {NoName} BY RunnerAssumption
    <3>3. AllLive(e) /\ (AllLive(t) => AllLive(env')) BY <1>e
    <3> HIDE DEF e, m, t
    <3>4. t.funcs = e.funcs /\ t.tables = e.tables BY <3>1, <3>2, ModuleNamed
    <3> QED BY <3>3, <3>4, LiveAsTables
  <2> QED BY <2>1, <2>2, <2>3, <2>4, LiveBetween
<1>7. CASE AssertEnds
  <2>1. phase' = "idle" /\ env' = env BY <1>7 DEF AssertEnds, EndCommand, EndLoad
  <2> QED BY <1>e, <2>1, LiveBetween
<1>8. ASSUME NEW of, NEW as, OnRegisterCommand(of, as) PROVE LiveInv'
  <2>1. phase' = "idle" BY <1>8 DEF OnRegisterCommand
  <2>2. PICK m : env' = [env EXCEPT !.registered = @ \cup {<<as, m>>}]
    BY <1>8, Zenon DEF OnRegisterCommand
  <2>3. env \in EnvRecords BY DEF ToolsInv, EnvGood, WellFormed
  <2>4. env'.tables = env.tables /\ env'.funcs = env.funcs BY <2>2, <2>3 DEF EnvRecords
  <2>5. AllLive(env') BY <1>e, <2>4, LiveAsTables
  <2> QED BY <2>1, <2>5, LiveBetween
<1>9. ASSUME NEW of, OnActionCommand(of) PROVE LiveInv'
  <2>1. phase' = "idle" BY <1>9 DEF OnActionCommand
  <2>2. TableChanged(env, 0, env') BY <1>1, <1>9, OnActionCommandStep
  <2>3. AllLive(env') BY <1>e, <2>2, Zenon DEF TableChanged
  <2> QED BY <2>1, <2>3, LiveBetween
<1>10. CASE ScriptEnds
  <2>1. phase' = "idle" /\ env' = env
    BY <1>10 DEF ScriptEnds, runnerVars, loaderVars
  <2> QED BY <1>e, <2>1, LiveBetween
<1> QED BY <1>2, <1>3, <1>4, <1>5, <1>6, <1>7, <1>8, <1>9, <1>10, Zenon DEF RunnerStep

LEMMA LiveInterpStep ==
    ASSUME ToolsInv, ToolsInv', LiveInv, UndoneUnwritten, IsRun("wasm-interp"), InterpStep,
           UNCHANGED command
    PROVE  LiveInv'
<1>1. ~Scripted /\ UNCHANGED setup BY DEF IsRun, Scripted
<1>2. CASE ReadModule BY <1>1, <1>2, LiveBeginLoad DEF ReadModule
<1>3. CASE ReadNext BY <1>1, <1>3, LiveReadNext
<1>4. CASE InitializeNext BY <1>1, <1>4, LiveInitializeNext
<1>5. CASE RunAllExports
  <2>1. /\ phase = "ready" /\ UNCHANGED <<loads, readerVars>> /\ phase' = phase
        /\ TableSet(module) \/ TableGrow(module)
    BY <1>5 DEF RunAllExports, Running
  <2>2. WellFormed(env, 0) /\ module \in 1..Len(env.modules) BY <2>1, AfterRead
  <2>3. TableChanged(env, 0, env') BY <2>1, <2>2, TableSetChanges, TableGrowChanges
  <2> QED BY <1>1, <2>1, <2>3, LiveInitialize
<1>6. CASE Exit
  <2>1. phase' = phase /\ env' = env /\ saved' = saved /\ setup' = setup
        /\ phase \in {"read_failed", "init_failed", "ready"}
    BY <1>6 DEF Exit, loaderVars, readerVars
  <2>2. ~Scripted' BY <1>1, <2>1 DEF Scripted
  <2> QED BY <2>1, <2>2 DEF LiveInv, NewTablesNull, UndoSafe
<1> QED BY <1>2, <1>3, <1>4, <1>5, <1>6 DEF InterpStep

LEMMA LiveKept ==
    ASSUME UndoneUnwritten, ToolsInv, ToolsInv', LiveInv, [ToolsNext]_runnerVars
    PROVE  LiveInv'
<1>1. CASE IsRun("spectest-interp") /\ RunnerStep BY <1>1, LiveRunnerStep
<1>2. CASE IsRun("wasm-interp") /\ InterpStep /\ UNCHANGED command
  BY <1>2, LiveInterpStep
<1>3. CASE UNCHANGED runnerVars
  <2>1. /\ setup' = setup /\ env' = env /\ phase' = phase /\ pass' = pass
        /\ segment' = segment /\ active_elem_segments' = active_elem_segments
        /\ saved' = saved /\ command' = command
    BY <1>3 DEF runnerVars, loaderVars, readerVars
  <2>2. LiveInv BY DEF LiveInv
  <2> QED BY <2>1, <2>2 DEF LiveInv, NewTablesNull, UndoSafe, Scripted
<1> QED BY <1>1, <1>2, <1>3 DEF ToolsNext

LEMMA LiveAtFirst == ToolsInit => LiveInv
<1> SUFFICES ASSUME ToolsInit PROVE LiveInv OBVIOUS
<1>1. CASE RunnerInit
  <2> DEFINE e == InitEnvironment
  <2>1. env = e /\ phase = "idle" BY <1>1 DEF RunnerInit, LoaderInit
  <2>2. Len(e.tables) = 1 /\ e.tables[1].entries = <<Null>> BY InitEnvironmentGood
  <2> HIDE DEF e
  <2>3. ASSUME NEW k \in 1..Len(e.tables), NEW i \in 1..Len(e.tables[k].entries)
        PROVE  Live(e, e.tables[k].entries[i])
    <3>1. k = 1 BY <2>2
    <3>2. e.tables[k].entries = <<Null>> BY <2>2, <3>1
    <3>3. i = 1
      <4> HIDE DEF Null
      <4> QED BY <2>3, <3>2
    <3>4. e.tables[k].entries[i] = Null BY <3>2, <3>3
    <3> QED BY <3>4, NullIsLive
  <2>4. AllLive(env) BY <2>1, <2>3 DEF AllLive
  <2> QED BY <2>1, <2>4 DEF LiveInv, NewTablesNull, UndoSafe
<1>2. CASE InterpInit
  <2> DEFINE e == InitDummyEnvironment
  <2>1. env = e /\ phase = "idle" BY <1>2 DEF InterpInit, LoaderInit
  <2>2. Len(e.tables) = 0 BY InitDummyEnvironmentGood
  <2> HIDE DEF e
  <2>3. 1..0 = {} OBVIOUS
  <2>4. AllLive(env) BY <2>1, <2>2, <2>3 DEF AllLive
  <2> QED BY <2>1, <2>4 DEF LiveInv, NewTablesNull, UndoSafe
<1> QED BY <1>1, <1>2 DEF ToolsInit

LEMMA LiveFollows == ToolsInv /\ LiveInv => TableEntriesLive
<1> SUFFICES ASSUME ToolsInv, LiveInv, NEW ref \in Entries \ {Null}
             PROVE  /\ ref.index \in DOMAIN env.funcs
                    /\ env.funcs[ref.index].owner = ref.owner
  BY Zenon DEF TableEntriesLive
<1>1. env \in EnvRecords BY DEF ToolsInv, EnvGood, WellFormed
<1>2. PICK t \in DOMAIN env.tables : ref \in Range(env.tables[t].entries) BY DEF Entries
<1>3. PICK i \in DOMAIN env.tables[t].entries : ref = env.tables[t].entries[i]
  BY <1>2 DEF Range
<1>4. t \in 1..Len(env.tables) BY <1>1, EnvFields
<1>5. i \in 1..Len(env.tables[t].entries) BY <1>1, <1>3, <1>4, TableAt
<1>6. Live(env, ref) BY <1>3, <1>4, <1>5 DEF LiveInv, AllLive
<1>7. DOMAIN env.funcs = 1..Len(env.funcs) BY <1>1, EnvFields
<1> QED BY <1>6, <1>7 DEF Live

(* Unless an undone load has already written to a table, a reference in a table
   is always to the function it was made of (TableEntriesLive is what CallIndirect
   and Environment::GetFunc, src/src/interp/interp.cc, rely on). *)
THEOREM TableEntriesAlwaysLive ==
    ASSUME UndoneUnwritten
    PROVE  ToolsSpec => []TableEntriesLive
<1>1. ToolsInit => LiveInv BY LiveAtFirst
<1>2. ToolsInv /\ ToolsInv' /\ LiveInv /\ [ToolsNext]_runnerVars => LiveInv' BY LiveKept
<1>3. ToolsInv /\ LiveInv => TableEntriesLive BY LiveFollows
<1> QED BY <1>1, <1>2, <1>3, ToolsAlwaysGood, PTL DEF ToolsSpec

-----------------------------------------------------------------------------
(* The interface of a module, as LinkedModules has it. *)
FuncOf(e, index) == IF index \in DOMAIN e.funcs THEN e.funcs[index] ELSE NoFunction

ItemOf(e, x) ==
    <<x.name, x.kind, IF x.kind = "table" THEN x.index ELSE FuncOf(e, x.index)>>

InterfaceIs(e, r) == {ItemOf(e, x) : x \in Range(r.exports)}

LEMMA InterfaceIsOf ==
    ASSUME NEW e
    PROVE  InterfaceOf(e) = [m \in DOMAIN e.modules |-> InterfaceIs(e, e.modules[m])]
BY Zenon DEF InterfaceOf, InterfaceIs, ItemOf, FuncOf

LEMMA InterfaceFields ==
    ASSUME NEW e \in EnvRecords, NEW k, k = InterfaceOf(e)
    PROVE  /\ DOMAIN k = 1..Len(e.modules)
           /\ Len(k) = Len(e.modules)
           /\ k = [m \in 1..Len(e.modules) |-> k[m]]
           /\ \A m \in 1..Len(e.modules) : k[m] = InterfaceIs(e, e.modules[m])
<1> DEFINE n == Len(e.modules)
           F(m) == InterfaceIs(e, e.modules[m])
<1>1. DOMAIN e.modules = 1..n /\ n \in Nat BY EnvFields
<1>2. k = [m \in 1..n |-> F(m)] BY <1>1, InterfaceIsOf
<1> HIDE DEF n, F
<1>3. DOMAIN k = 1..n /\ Len(k) = n BY <1>1, <1>2
<1>4. \A m \in 1..n : k[m] = F(m) BY <1>2
<1>5. k = [m \in 1..n |-> k[m]] BY <1>2, <1>4
<1> QED BY <1>3, <1>4, <1>5 DEF n, F

LEMMA ItemLinked ==
    ASSUME NEW e \in EnvRecords, NEW r \in ModuleRecords,
           ExportsWithin(r, Len(e.funcs), Len(e.tables)), NEW x \in Range(r.exports)
    PROVE  ItemOf(e, x) \in LinkedItems
<1>1. PICK i \in 1..Len(r.exports) : x = r.exports[i] BY ModuleFields DEF Range
<1>2. DOMAIN r.exports = 1..Len(r.exports) BY ModuleFields
<1>3. x.kind \in {"func", "table"} /\ x.index \in Nat /\ x.name \in Fields
  BY <1>1, ExportAt
<1>4. x.index \in 1..(IF x.kind = "func" THEN Len(e.funcs) ELSE Len(e.tables))
  BY <1>1, <1>2 DEF ExportsWithin
<1>5. CASE x.kind = "table"
  <2>1. x.index \in Nat \ {0} BY <1>3, <1>4, <1>5, EnvFields
  <2>2. ItemOf(e, x) = <<x.name, "table", x.index>> BY <1>5 DEF ItemOf
  <2> QED BY <1>3, <2>1, <2>2 DEF LinkedItems
<1>6. CASE x.kind = "func"
  <2>1. x.index \in 1..Len(e.funcs) BY <1>4, <1>6
  <2>2. e.funcs[x.index] \in FuncRecords /\ x.index \in DOMAIN e.funcs
    BY <2>1, EnvFields
  <2>3. ItemOf(e, x) = <<x.name, "func", e.funcs[x.index]>>
    BY <1>6, <2>2 DEF ItemOf, FuncOf
  <2> QED BY <1>3, <2>2, <2>3 DEF LinkedItems, FuncRecords
<1> QED BY <1>3, <1>5, <1>6

LEMMA InterfaceLinked ==
    ASSUME NEW e \in EnvRecords, NEW r \in ModuleRecords,
           ExportsWithin(r, Len(e.funcs), Len(e.tables))
    PROVE  InterfaceIs(e, r) \in SUBSET LinkedItems
<1>1. SUFFICES ASSUME NEW y \in InterfaceIs(e, r)
               PROVE  y \in LinkedItems
  OBVIOUS
<1>2. PICK x \in Range(r.exports) : y = ItemOf(e, x) BY Zenon DEF InterfaceIs
<1> QED BY <1>2, ItemLinked

(* An export keeps standing for what it stood for. *)
LEMMA InterfaceKept ==
    ASSUME NEW s \in EnvRecords, NEW e \in EnvRecords, NEW r \in ModuleRecords,
           ExportsWithin(r, Len(s.funcs), Len(s.tables)),
           Len(s.funcs) <= Len(e.funcs),
           \A f \in 1..Len(s.funcs) : e.funcs[f] = s.funcs[f]
    PROVE  InterfaceIs(e, r) = InterfaceIs(s, r)
<1>1. ASSUME NEW x \in Range(r.exports)
      PROVE  ItemOf(e, x) = ItemOf(s, x)
  <2>1. PICK i \in 1..Len(r.exports) : x = r.exports[i] BY ModuleFields DEF Range
  <2>2. DOMAIN r.exports = 1..Len(r.exports) BY ModuleFields
  <2>3. x.kind \in {"func", "table"} /\ x.index \in Nat BY <2>1, ExportAt
  <2>4. CASE x.kind = "table" BY <2>4 DEF ItemOf
  <2>5. CASE x.kind = "func"
    <3>1. x.index \in 1..Len(s.funcs) BY <2>1, <2>2, <2>5 DEF ExportsWithin
    <3>2. x.index \in 1..Len(e.funcs) BY <3>1, EnvFields
    <3>3. FuncOf(e, x.index) = FuncOf(s, x.index) BY <3>1, <3>2, EnvFields DEF FuncOf
    <3> QED BY <3>3 DEF ItemOf
  <2> QED BY <2>3, <2>4, <2>5
<1> QED BY <1>1, Zenon DEF InterfaceIs

HasLength(k, n) == k = [m \in 1..n |-> k[m]]

LEMMA OneLinked ==
    ASSUME NEW n \in Nat, NEW k, NEW l, HasLength(k, n), HasLength(l, n + 1),
           \A m \in 1..n : l[m] = k[m]
    PROVE  SubSeq(l, 1, n) = k
<1>1. SubSeq(l, 1, n) = [m \in 1..n |-> l[m]] BY DEF HasLength
<1>2. [m \in 1..n |-> l[m]] = [m \in 1..n |-> k[m]] OBVIOUS
<1> QED BY <1>1, <1>2 DEF HasLength

(* An environment with one more module, the others as they were, links one
   interface. *)
LinksOne(k, l) ==
    /\ Len(l) = Len(k) + 1
    /\ SubSeq(l, 1, Len(k)) = k
    /\ l[Len(l)] \in SUBSET LinkedItems

LEMMA ModuleLinked ==
    ASSUME NEW s, WellFormed(s, 0), NEW e, WellFormed(e, 0),
           Len(e.modules) = Len(s.modules) + 1,
           \A m \in 1..Len(s.modules) : e.modules[m].exports = s.modules[m].exports,
           Len(s.funcs) <= Len(e.funcs),
           \A f \in 1..Len(s.funcs) : e.funcs[f] = s.funcs[f]
    PROVE  LinksOne(InterfaceOf(s), InterfaceOf(e))
<1> DEFINE n == Len(s.modules)
           k == InterfaceOf(s)
           l == InterfaceOf(e)
<1>1. s \in EnvRecords /\ e \in EnvRecords BY DEF WellFormed
<1>2. n \in Nat /\ Len(e.modules) = n + 1 BY <1>1, EnvFields
<1>3. /\ Len(k) = n /\ k = [m \in 1..n |-> k[m]]
      /\ \A m \in 1..n : k[m] = InterfaceIs(s, s.modules[m])
  BY <1>1, InterfaceFields
<1>4. /\ Len(l) = n + 1 /\ l = [m \in 1..n + 1 |-> l[m]]
      /\ \A m \in 1..n + 1 : l[m] = InterfaceIs(e, e.modules[m])
  <2>1. /\ Len(l) = Len(e.modules) /\ l = [m \in 1..Len(e.modules) |-> l[m]]
        /\ \A m \in 1..Len(e.modules) : l[m] = InterfaceIs(e, e.modules[m])
    BY <1>1, InterfaceFields
  <2> HIDE DEF l
  <2> QED BY <1>2, <2>1
<1>5. ASSUME NEW m \in 1..n
      PROVE  l[m] = k[m]
  <2>1. s.modules[m] \in ModuleRecords BY <1>1, ModuleAt
  <2>2. ExportsWithin(s.modules[m], Len(s.funcs), Len(s.tables)) BY DEF WellFormed
  <2>3. InterfaceIs(e, s.modules[m]) = InterfaceIs(s, s.modules[m])
    BY <1>1, <2>1, <2>2, InterfaceKept
  <2>4. InterfaceIs(e, e.modules[m]) = InterfaceIs(e, s.modules[m])
    BY Zenon DEF InterfaceIs
  <2>5. m \in 1..n + 1 BY <1>2
  <2> QED BY <1>3, <1>4, <2>3, <2>4, <2>5
<1>6. l[n + 1] \in SUBSET LinkedItems
  <2>1. n + 1 \in 1..Len(e.modules) BY <1>2
  <2>2. e.modules[n + 1] \in ModuleRecords BY <1>1, <2>1, ModuleAt
  <2>3. ExportsWithin(e.modules[n + 1], Len(e.funcs), Len(e.tables))
    BY <2>1 DEF WellFormed
  <2>4. l[n + 1] = InterfaceIs(e, e.modules[n + 1]) BY <1>2, <1>4, <2>1
  <2> QED BY <1>1, <2>2, <2>3, <2>4, InterfaceLinked
<1> HIDE DEF k, l
<1>7. SubSeq(l, 1, n) = k
  <2>1. HasLength(k, n) /\ HasLength(l, n + 1) BY <1>3, <1>4, Zenon DEF HasLength
  <2>2. \A m \in 1..n : l[m] = k[m] BY <1>5
  <2> HIDE DEF n
  <2> QED BY <1>2, <2>1, <2>2, OneLinked
<1>8. LinksOne(k, l) BY <1>3, <1>4, <1>6, <1>7 DEF LinksOne
<1> QED BY <1>8 DEF k, l

LEMMA InterfaceSame ==
    ASSUME NEW s \in EnvRecords, NEW e \in EnvRecords,
           Len(e.modules) = Len(s.modules), e.funcs = s.funcs,
           \A m \in 1..Len(s.modules) : e.modules[m].exports = s.modules[m].exports
    PROVE  InterfaceOf(e) = InterfaceOf(s)
<1>1. \A m \in 1..Len(s.modules) :
         InterfaceIs(e, e.modules[m]) = InterfaceIs(s, s.modules[m])
  BY Zenon DEF InterfaceIs, ItemOf, FuncOf
<1>2. DOMAIN e.modules = DOMAIN s.modules /\ DOMAIN s.modules = 1..Len(s.modules)
  BY EnvFields
<1> QED BY <1>1, <1>2, InterfaceIsOf

(* What a script sees of the environment, and how a step may change it. *)
Between == IF phase = "idle" THEN env ELSE saved

Linking == InterfaceOf(Between') = InterfaceOf(Between)
           \/ LinksOne(InterfaceOf(Between), InterfaceOf(Between'))

LEMMA WithinLoad ==
    ASSUME ToolsInv, ReadNext \/ InitializeNext
    PROVE  phase # "idle" /\ phase' # "idle" /\ saved' = saved
<1>1. CASE ReadNext
  <2>1. ReadOutcome /\ phase = "read" BY <1>1, ReadTables
  <2> QED BY <2>1 DEF ReadOutcome
<1>2. CASE InitializeNext
  <2>1. saved' = saved
    BY <1>2 DEF InitializeNext, InitSegment, DataSegmentOutOfBounds, EndPass, StartRuns,
                StartEnds, Running, readerVars
  <2>2. phase # "idle" /\ phase' # "idle"
    BY <1>2 DEF InitializeNext, InitSegment, DataSegmentOutOfBounds, EndPass, StartRuns,
                StartEnds
  <2> QED BY <2>1, <2>2
<1> QED BY <1>1, <1>2

(* A load that succeeds, or that is left in place, links one module. *)
LEMMA LoadLinked ==
    ASSUME ToolsInv, ToolsInv', Scripted, phase \in {"init_failed", "ready"},
           phase' = "idle", Len(env'.modules) = Len(env.modules), env'.funcs = env.funcs,
           \A m \in 1..Len(env.modules) : env'.modules[m].exports = env.modules[m].exports
    PROVE  LinksOne(InterfaceOf(saved), InterfaceOf(env'))
<1> DEFINE e == env'
<1>1. WellFormed(e, 0) BY Zenon DEF ToolsInv, EnvGood, Open
<1>2. /\ WellFormed(saved, 0) /\ Extends(saved, env) /\ env \in EnvRecords
  BY NotIdle
<1>3. saved \in EnvRecords BY <1>2 DEF WellFormed
<1>4. Len(env.modules) = Len(saved.modules) + 1 BY DEF ToolsInv, LoadGood
<1>5. Len(e.modules) = Len(saved.modules) + 1 BY <1>4
<1>6. /\ Len(saved.modules) \in Nat
      /\ \A m \in 1..Len(saved.modules) :
            m \in 1..Len(env.modules) /\ env.modules[m] = saved.modules[m]
      /\ Len(saved.funcs) <= Len(env.funcs)
      /\ \A f \in 1..Len(saved.funcs) : env.funcs[f] = saved.funcs[f]
  BY <1>2, <1>3, ExtendsFields
<1>7. \A m \in 1..Len(saved.modules) : e.modules[m].exports = saved.modules[m].exports
  BY <1>6
<1>8. Len(saved.funcs) <= Len(e.funcs) /\ \A f \in 1..Len(saved.funcs) : e.funcs[f] = saved.funcs[f]
  BY <1>6
<1>9. LinksOne(InterfaceOf(saved), InterfaceOf(e)) => LinksOne(InterfaceOf(saved), InterfaceOf(env'))
  OBVIOUS
<1> HIDE DEF e
<1> QED BY <1>1, <1>2, <1>5, <1>7, <1>8, <1>9, ModuleLinked

(* Running code and registering a module leave the exports alone. *)
LEMMA IdleSame ==
    ASSUME ToolsInv, ToolsInv', phase = "idle", phase' = "idle",
           env'.modules = env.modules, env'.funcs = env.funcs
    PROVE  InterfaceOf(env') = InterfaceOf(env)
<1> DEFINE e == env'
<1>1. e \in EnvRecords BY Zenon DEF ToolsInv, EnvGood, WellFormed
<1>2. env \in EnvRecords BY Zenon DEF ToolsInv, EnvGood, WellFormed
<1>3. e.modules = env.modules /\ e.funcs = env.funcs
      /\ (InterfaceOf(e) = InterfaceOf(env) => InterfaceOf(env') = InterfaceOf(env))
  OBVIOUS
<1> HIDE DEF e
<1> QED BY <1>1, <1>2, <1>3, InterfaceSame

LEMMA RunnerStepLinks ==
    ASSUME ToolsInv, ToolsInv', IsRun("spectest-interp"), RunnerStep
    PROVE  Linking
<1>1. Scripted /\ UNCHANGED setup BY DEF IsRun, Scripted
<1>2. CASE OnLoadCommand
  <2>1. phase = "idle" /\ phase' = "read" /\ saved' = env
    BY <1>2 DEF OnLoadCommand, BeginLoad
  <2>2. Between' = Between BY <2>1 DEF Between
  <2> QED BY <2>2 DEF Linking
<1>3. CASE (ReadNext \/ InitializeNext) /\ UNCHANGED command
  <2>1. Between' = Between BY <1>3, WithinLoad DEF Between
  <2> QED BY <2>1 DEF Linking
<1>5. CASE ModuleReadFailed \/ ModuleInitFailed
  <2> DEFINE t == env'
  <2>1. phase \in {"read_failed", "init_failed"} /\ phase' = "idle"
        /\ t = ResetToMarkPoint(env, mark)
    BY <1>5 DEF ModuleReadFailed, ModuleInitFailed, EndCommand, EndLoad
  <2>2. /\ env \in EnvRecords /\ WellFormed(saved, 0) /\ mark = Mark(saved)
        /\ Extends(saved, env)
    BY <2>1, NotIdle
  <2>3. Between = saved /\ Between' = t BY <2>1 DEF Between
  <2> HIDE DEF t
  <2>4. t = ResetToMarkPoint(env, Mark(saved)) BY <2>1, <2>2
  <2>5. t \in EnvRecords /\ t.modules = saved.modules /\ t.funcs = saved.funcs
    BY <2>2, <2>4, ResetUndoes
  <2>6. saved \in EnvRecords BY <2>2 DEF WellFormed
  <2>7. InterfaceOf(t) = InterfaceOf(saved) BY <2>5, <2>6, InterfaceSame
  <2> QED BY <2>3, <2>7 DEF Linking
<1>6. CASE ModuleReady
  <2>1. phase = "ready" /\ phase' = "idle"
    BY <1>6, Zenon DEF ModuleReady, EndCommand, EndLoad
  <2>2. env' = env \/ \E name \in ScriptNames : env' = Named(env, module, name)
    BY <1>6, Zenon DEF ModuleReady, EndCommand, EndLoad, Named
  <2>3. /\ Len(env'.modules) = Len(env.modules) /\ env'.funcs = env.funcs
        /\ \A m \in 1..Len(env.modules) : env'.modules[m].exports = env.modules[m].exports
    <3>1. CASE env' = env BY <3>1
    <3>2. ASSUME NEW name \in ScriptNames, env' = Named(env, module, name)
          PROVE  /\ Len(env'.modules) = Len(env.modules) /\ env'.funcs = env.funcs
                 /\ \A m \in 1..Len(env.modules) :
                       env'.modules[m].exports = env.modules[m].exports
      <4> DEFINE e == env
                 q == module
                 t == env'
      <4>1. WellFormed(e, 0) /\ ~MakesHosts(e) /\ q \in 1..Len(e.modules)
            /\ t = Named(e, q, name)
        BY <1>1, <2>1, <3>2, AfterRead DEF ToolsInv, EnvGood
      <4>2. name \in Names \ {NoName} BY RunnerAssumption
      <4>3. /\ Len(t.modules) = Len(e.modules) => Len(env'.modules) = Len(env.modules)
            /\ t.funcs = e.funcs => env'.funcs = env.funcs
            /\ (\A m \in 1..Len(e.modules) : t.modules[m].exports = e.modules[m].exports) =>
                  \A m \in 1..Len(env.modules) :
                      env'.modules[m].exports = env.modules[m].exports
        OBVIOUS
      <4> HIDE DEF e, q, t
      <4>4. /\ Len(t.modules) = Len(e.modules) /\ t.funcs = e.funcs
            /\ \A m \in 1..Len(e.modules) : t.modules[m].exports = e.modules[m].exports
        BY <4>1, <4>2, ModuleNamed
      <4> QED BY <4>3, <4>4
    <3> QED BY <2>2, <3>1, <3>2
  <2>4. LinksOne(InterfaceOf(saved), InterfaceOf(env')) BY <1>1, <2>1, <2>3, LoadLinked
  <2>5. Between = saved /\ Between' = env' BY <2>1 DEF Between
  <2> QED BY <2>4, <2>5 DEF Linking
<1>7. CASE AssertEnds
  <2>1. phase \in {"read_failed", "init_failed", "ready"} /\ phase' = "idle" /\ env' = env
    BY <1>7 DEF AssertEnds, EndCommand, EndLoad
  <2>2. Between = saved /\ Between' = env' BY <2>1 DEF Between
  <2>3. CASE phase = "read_failed"
    <3>1. env = saved BY <2>3 DEF ToolsInv, LoadGood
    <3> QED BY <2>1, <2>2, <3>1 DEF Linking
  <2>4. CASE phase \in {"init_failed", "ready"}
    <3>1. LinksOne(InterfaceOf(saved), InterfaceOf(env')) BY <1>1, <2>1, <2>4, LoadLinked
    <3> QED BY <2>2, <3>1 DEF Linking
  <2> QED BY <2>1, <2>3, <2>4
<1>8. ASSUME NEW of, NEW as, OnRegisterCommand(of, as) PROVE Linking
  <2>1. phase = "idle" /\ phase' = "idle" BY <1>8 DEF OnRegisterCommand
  <2>2. PICK m : env' = [env EXCEPT !.registered = @ \cup {<<as, m>>}]
    BY <1>8, Zenon DEF OnRegisterCommand
  <2>3. env \in EnvRecords BY DEF ToolsInv, EnvGood, WellFormed
  <2>4. env'.modules = env.modules /\ env'.funcs = env.funcs BY <2>2, <2>3 DEF EnvRecords
  <2>5. InterfaceOf(env') = InterfaceOf(env) BY <2>1, <2>4, IdleSame
  <2>6. Between = env /\ Between' = env' BY <2>1 DEF Between
  <2> QED BY <2>5, <2>6 DEF Linking
<1>9. ASSUME NEW of, OnActionCommand(of) PROVE Linking
  <2>1. phase = "idle" /\ phase' = "idle" BY <1>9 DEF OnActionCommand
  <2>2. TableChanged(env, 0, env') BY <1>1, <1>9, OnActionCommandStep
  <2>3. env'.modules = env.modules /\ env'.funcs = env.funcs
    BY <2>2, Zenon DEF TableChanged, OnlyEntries
  <2>4. InterfaceOf(env') = InterfaceOf(env) BY <2>1, <2>3, IdleSame
  <2>5. Between = env /\ Between' = env' BY <2>1 DEF Between
  <2> QED BY <2>4, <2>5 DEF Linking
<1>10. CASE ScriptEnds
  <2>1. phase' = phase /\ env' = env /\ phase = "idle"
    BY <1>10 DEF ScriptEnds, runnerVars, loaderVars
  <2>2. Between' = Between BY <2>1 DEF Between
  <2> QED BY <2>2 DEF Linking
<1> QED BY <1>2, <1>3, <1>5, <1>6, <1>7, <1>8, <1>9, <1>10, Zenon DEF RunnerStep

(* wasm-interp runs no script, and no step of it is seen. *)
LEMMA ToolsStepLinks ==
    ToolsInv /\ ToolsInv' /\ [ToolsNext]_runnerVars => [Linked!Link]_(InterfaceOf(Seen))
<1> SUFFICES ASSUME ToolsInv, ToolsInv', [ToolsNext]_runnerVars
             PROVE  \/ InterfaceOf(Seen') = InterfaceOf(Seen)
                    \/ LinksOne(InterfaceOf(Seen), InterfaceOf(Seen'))
  BY Zenon DEF Linked!Link, LinksOne
<1>1. CASE IsRun("spectest-interp") /\ RunnerStep
  <2>1. setup.tool = "spectest-interp" /\ setup'.tool = "spectest-interp" BY <1>1 DEF IsRun
  <2>2. Seen = Between /\ Seen' = Between' BY <2>1 DEF Seen, Between
  <2>3. Linking BY <1>1, RunnerStepLinks
  <2> QED BY <2>2, <2>3 DEF Linking
<1>2. CASE IsRun("wasm-interp") /\ InterpStep /\ UNCHANGED command
  <2>1. setup.tool = "wasm-interp" /\ setup'.tool = "wasm-interp" BY <1>2 DEF IsRun
  <2>2. Seen = InitEnvironment /\ Seen' = InitEnvironment BY <2>1 DEF Seen
  <2> QED BY <2>2
<1>3. CASE UNCHANGED runnerVars
  <2>1. setup' = setup /\ phase' = phase /\ env' = env /\ saved' = saved
    BY <1>3 DEF runnerVars, loaderVars, readerVars
  <2>2. Seen' = Seen BY <2>1 DEF Seen
  <2> QED BY <2>2
<1> QED BY <1>1, <1>2, <1>3, Zenon DEF ToolsNext

LEMMA SeenAtFirst == ToolsInit => Linked!Init
<1> SUFFICES ASSUME ToolsInit PROVE InterfaceOf(Seen) = InterfaceOf(InitEnvironment)
  BY DEF Linked!Init
<1>1. CASE RunnerInit /\ setup.tool = "spectest-interp"
  <2>1. phase = "idle" /\ env = InitEnvironment BY <1>1 DEF RunnerInit, LoaderInit
  <2>2. Seen = InitEnvironment BY <1>1, <2>1 DEF Seen
  <2> QED BY <2>2
<1>2. CASE setup.tool = "wasm-interp"
  <2>1. Seen = InitEnvironment BY <1>2 DEF Seen
  <2> QED BY <2>1
<1> QED BY <1>1, <1>2 DEF ToolsInit

(* Between two commands of a script the modules there are keep their exports, each
   the function or table it was, and a command adds one whole module or none:
   ReadBinaryInterp, Executor::Initialize and CommandRunner implement LinkedModules. *)
THEOREM ToolsImplementLinkedModules == ToolsSpec => LinkedSpec
<1>1. ToolsInit => Linked!Init BY SeenAtFirst
<1>2. ToolsInv /\ ToolsInv' /\ [ToolsNext]_runnerVars => [Linked!Link]_(InterfaceOf(Seen))
  BY ToolsStepLinks
<1> QED BY <1>1, <1>2, ToolsAlwaysGood, PTL DEF ToolsSpec, LinkedSpec, Linked!Spec

================================================================================
